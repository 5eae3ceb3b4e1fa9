------------------------- MODULE TaskRuntimeProofs --------------------------
(***************************************************************************)
(* Safety of the task runtime for every set of programs and any number of  *)
(* tasks and channels: a result goes to one await, a channel keeps its     *)
(* messages in order, and no tasks wait for each other's results unless a  *)
(* handle was sent over a channel.                                         *)
(*                                                                         *)
(* None is inductive.  That a result is awaited once needs that a task     *)
(* that waits for it has taken it out of the table and is alone in doing   *)
(* so (Awaiting); that a channel keeps order needs that whoever names a    *)
(* channel names one that was made (Known); that nobody waits in a circle  *)
(* needs a line in which everyone awaits only who comes before (Nested).   *)
(***************************************************************************)
EXTENDS TaskRuntime, FiniteSetTheorems, SequenceTheorems, TLAPS

\* Who knows a sender of a name knows a channel, and the name stands for one;
\* who waits waits at a statement of its function.
Known(thread) ==
    /\ \A c \in Channels :
          thread.env.sender[c] # None
          => thread.env.sender[c] \in DOMAIN chans /\ registry[c] \in DOMAIN chans
    /\ thread.at \in {"await", "lock", "recv"} => thread.pc \in DOMAIN prog[thread.fn]

\* Who awaits a task has its receiver to himself, and it has not answered.
Awaiting ==
    /\ \A t \in Tasks : task[t].at = "await" =>
          /\ task[t].waits \notin results
          /\ \A u \in Tasks : task[u].at = "await" /\ task[u].waits = task[t].waits => u = t
          /\ \A a \in log.awaited : a[3] # task[t].waits
    /\ \A a \in log.awaited : a[3] \in (1 .. seq) \ results

\* A thread answers once, when it ends.
Answering ==
    \A t \in Tasks : outcome[t] # <<>> =>
        task[t].at = "done" /\ outcome[t] = <<outcome[t][1]>>

Ordered ==
    /\ Len(log.sent) = Len(chans) /\ Len(log.received) = Len(chans)
    /\ ChannelKeepsOrder

Inv ==
    /\ TypeOK
    /\ \A t \in Tasks : Known(task[t])
    /\ Awaiting /\ Answering /\ AwaitedOnce
    /\ Ordered

-----------------------------------------------------------------------------
LEMMA Constants ==
    /\ MaxTasks \in Nat
    /\ Programs \subseteq [Bodies -> Seq(Stmt)]
    /\ Tasks = 0 .. MaxTasks /\ Tasks \subseteq Nat
    /\ Main \in Tasks
  BY RuntimeAssumption DEF Tasks, Main

\* A message that is sent is the last of all and of those that wait.
LEMMA OneMore ==
  ASSUME NEW S, NEW r \in Seq(S), NEW q \in Seq(S), NEW m \in S
  PROVE  r \o Append(q, m) = Append(r \o q, m)
<1>1. <<m>> \in Seq(S) /\ r \o q \in Seq(S)
  BY ConcatProperties
<1>2. Append(q, m) = q \o <<m>> /\ Append(r \o q, m) = (r \o q) \o <<m>>
  BY <1>1, AppendIsConcat
<1>3. QED
  BY <1>1, <1>2, ConcatAssociative

\* The message received next is the first of those that wait.
LEMMA OneTaken ==
  ASSUME NEW S, NEW r \in Seq(S), NEW q \in Seq(S), q # <<>>
  PROVE  Append(r, Head(q)) \o Tail(q) = r \o q
<1>1. Head(q) \in S /\ Tail(q) \in Seq(S) /\ <<Head(q)>> \in Seq(S)
  BY HeadTailProperties
<1>2. q = <<Head(q)>> \o Tail(q)
  BY <1>1, HeadTailAppend, ConcatProperties, SeqEqual, HeadTailProperties
<1>3. Append(r, Head(q)) = r \o <<Head(q)>>
  BY <1>1, AppendIsConcat
<1>4. QED
  BY <1>1, <1>2, <1>3, ConcatAssociative

\* What comes first of a sequence stands where it stood.
LEMMA FirstPart ==
  ASSUME NEW S, NEW r \in Seq(S), NEW q \in Seq(S)
  PROVE  \A n \in DOMAIN r : n \in DOMAIN (r \o q) /\ r[n] = (r \o q)[n]
  OBVIOUS

\* A sequence in which one element is replaced.
LEMMA OneReplaced ==
  ASSUME NEW S, NEW old \in Seq(S), NEW i \in DOMAIN old, NEW e \in S,
         NEW new, new = [old EXCEPT ![i] = e]
  PROVE  /\ new \in Seq(S) /\ Len(new) = Len(old) /\ DOMAIN new = DOMAIN old
         /\ new[i] = e /\ \A j \in DOMAIN old : j # i => new[j] = old[j]
<1>1. DOMAIN old = 1 .. Len(old)
  BY LenProperties
<1>2. new \in Seq(S) /\ Len(new) = Len(old)
  BY <1>1, ExceptSeq
<1>3. DOMAIN new = DOMAIN old /\ new[i] = e /\ \A j \in DOMAIN old : j # i => new[j] = old[j]
  OBVIOUS
<1>4. QED
  BY <1>2, <1>3

\* A function on the first numbers is a sequence.
LEMMA FunctionIsSeq ==
  ASSUME NEW S, NEW n \in Nat, NEW f \in [1 .. n -> S]
  PROVE  f \in Seq(S) /\ Len(f) = n
  BY SeqDef

\* A name is bound to what comes, and nothing else of the thread is touched.
LEMMA Binding ==
  ASSUME NEW thread \in Task, NEW f \in {None} \cup Fns, NEW h \in Handle
  PROVE  /\ Bind(thread, f, h) \in Task
         /\ Bind(thread, f, h).env.sender = thread.env.sender
         /\ \A g \in Fns : \/ Bind(thread, f, h).env.handle[g] = thread.env.handle[g]
                          \/ Bind(thread, f, h).env.handle[g] = h
<1>1. CASE f = None
  BY <1>1 DEF Bind
<1>2. CASE f # None
  <2>1. thread.env \in Env /\ thread.env.handle \in [Fns -> Handle]
    BY DEF Task, Env
  <2>2. PICK handle : handle = [thread.env.handle EXCEPT ![f] = h]
    OBVIOUS
  <2>3. /\ handle \in [Fns -> Handle]
        /\ \A g \in Fns : handle[g] = thread.env.handle[g] \/ handle[g] = h
    BY <2>1, <2>2
  <2>4. PICK env : env = [thread.env EXCEPT !.handle = handle]
    OBVIOUS
  <2>5. env \in Env /\ env.sender = thread.env.sender /\ env.handle = handle
    BY <2>1, <2>3, <2>4 DEF Env
  <2>6. Bind(thread, f, h) = [thread EXCEPT !.env = env]
    BY <1>2, <2>2, <2>4 DEF Bind
  <2>7. Bind(thread, f, h) \in Task /\ Bind(thread, f, h).env = env
    BY <2>5, <2>6 DEF Task
  <2>8. QED
    BY <2>3, <2>5, <2>7
<1>3. QED
  BY <1>1, <1>2

\* What no step of a thread undoes.
Grown ==
    /\ UNCHANGED <<prog, seq, parent>>
    /\ DOMAIN chans \subseteq DOMAIN chans'
    /\ results' \subseteq results
    /\ \A c \in Channels : registry[c] \in DOMAIN chans => registry'[c] \in DOMAIN chans'
    /\ DOMAIN registry' = Channels
    /\ \A c \in Channels : registry'[c] \in {None} \cup DOMAIN chans'
    /\ outcome' \in [Tasks -> Seq(Value)]
    /\ chans' \in Seq(Seq(Message))
    /\ log' \in Log

\* A step that moves one thread keeps types and what the others know.
LEMMA OneMoves ==
  ASSUME Inv, Grown, NEW t \in Tasks, task[t].at # "absent",
         NEW th \in Task, th.at # "absent", WaitsFor(th)', Known(th)',
         task' = [task EXCEPT ![t] = th]
  PROVE  TypeOK' /\ \A u \in Tasks : Known(task[u])'
<1>1. /\ task' \in [Tasks -> Task] /\ task'[t] = th
      /\ \A u \in Tasks \ {t} : task'[u] = task[u]
  BY DEF Inv, TypeOK
<1>2. ASSUME NEW u \in Tasks
      PROVE  (task'[u].at = "absent") = (u > seq') /\ WaitsFor(task[u])' /\ Known(task[u])'
  <2>1. CASE u = t
    <3>1. task'[u] = th
      BY <1>1, <2>1
    <3>2. (th.at = "absent") = (u > seq')
      BY <2>1 DEF Inv, TypeOK, Grown
    <3>3. QED
      BY <3>1, <3>2 DEF WaitsFor, Known
  <2>2. CASE u # t
    <3>1. task'[u] = task[u]
      BY <1>1, <2>2
    <3>2. (task[u].at = "absent") = (u > seq) /\ WaitsFor(task[u]) /\ Known(task[u])
      BY DEF Inv, TypeOK
    <3>3. QED
      BY <3>1, <3>2 DEF WaitsFor, Known, Grown
  <2>3. QED
    BY <2>1, <2>2
<1>3. QED
  BY <1>1, <1>2 DEF Inv, TypeOK, Grown

\* A thread that goes on without a result, or waits for no task, takes nothing
\* from those that do.
LEMMA AwaitingStays ==
  ASSUME Inv, NEW t \in Tasks, NEW th \in Task, th.at # "await",
         task' = [task EXCEPT ![t] = th],
         UNCHANGED <<seq, results>>, log'.awaited = log.awaited
  PROVE  Awaiting'
<1>1. \A u \in Tasks : task'[u].at = "await" => task'[u] = task[u]
  BY DEF Inv, TypeOK
<1>2. QED
  BY <1>1 DEF Inv, Awaiting

\* A thread that does not end answers nobody.
LEMMA AnsweringStays ==
  ASSUME Inv, NEW t \in Tasks, NEW th \in Task, task[t].at # "done",
         task' = [task EXCEPT ![t] = th], UNCHANGED outcome
  PROVE  Answering'
<1>1. \A u \in Tasks : task[u].at = "done" => task'[u] = task[u]
  BY DEF Inv, TypeOK
<1>2. QED
  BY <1>1 DEF Inv, Answering

\* No receiver comes back: only one that is there is taken into hands.
LEMMA NoReceiverBack ==
  ASSUME Inv, NEW t \in Tasks, NEW th, task' = [task EXCEPT ![t] = th],
         UNCHANGED registry,
         th.at \in {"lock", "recv"} => HasReceiver(th.waits)
  PROVE  \A c : HasReceiver(c)' => HasReceiver(c)
<1>1. task'[t] = th /\ \A u \in Tasks \ {t} : task'[u] = task[u]
  BY DEF Inv, TypeOK
<1>2. ASSUME NEW c, HasReceiver(c)' PROVE HasReceiver(c)
  <2>1. CASE \E d \in Channels : registry'[d] = c
    BY <2>1 DEF HasReceiver
  <2>2. ASSUME NEW u \in Tasks, task'[u].at \in {"lock", "recv"}, task'[u].waits = c
        PROVE  HasReceiver(c)
    <3>1. CASE u = t
      BY <1>1, <2>2, <3>1
    <3>2. CASE u # t
      BY <1>1, <2>2, <3>2 DEF HasReceiver
    <3>3. QED
      BY <3>1, <3>2
  <2>3. QED
    BY <1>2, <2>1, <2>2 DEF HasReceiver
<1>3. QED
  BY <1>2

\* A step that leaves the channels alone leaves them in order.
LEMMA OrderedStays ==
  ASSUME Inv, UNCHANGED chans, log'.sent = log.sent, log'.received = log.received,
         \A c : HasReceiver(c)' => HasReceiver(c)
  PROVE  Ordered'
  BY DEF Inv, Ordered, ChannelKeepsOrder

LEMMA InitInv == Init => Inv
<1> SUFFICES ASSUME Init PROVE Inv
  OBVIOUS
<1>1. /\ Thread("main", NoEnv) \in Task /\ Absent \in Task
      /\ Thread("main", NoEnv).at = "run" /\ Absent.at = "absent"
      /\ Thread("main", NoEnv).waits = None /\ Absent.waits = None
      /\ Thread("main", NoEnv).env = NoEnv /\ Absent.env = NoEnv
  BY DEF Thread, NoEnv, Absent, Task, Env, Handle, Bodies
<1>2. /\ task \in [Tasks -> Task]
      /\ \A t \in Tasks : task[t].waits = None /\ task[t].env = NoEnv
      /\ \A t \in Tasks : task[t].at = IF t = Main THEN "run" ELSE "absent"
  BY <1>1 DEF Init
<1>3. \A t \in Tasks : (task[t].at = "absent") = (t > 0)
  BY <1>2, Constants DEF Main
<1>4. \A t \in Tasks : WaitsFor(task[t]) /\ Known(task[t])
  BY <1>2 DEF WaitsFor, Known, NoEnv
<1>5. log \in Log /\ chans \in Seq(Seq(Message))
  BY DEF Init, Log
<1>6. TypeOK
  <2>1. prog \in Programs /\ seq = 0 /\ seq \in 0 .. MaxTasks
    BY Constants DEF Init
  <2>2. DOMAIN parent = 1 .. seq /\ \A t \in DOMAIN parent : parent[t] \in 0 .. (t - 1)
    BY DEF Init
  <2>3. results \subseteq 1 .. seq /\ outcome \in [Tasks -> Seq(Value)]
    BY DEF Init
  <2>4. DOMAIN registry = Channels /\ \A c \in Channels : registry[c] \in {None} \cup DOMAIN chans
    BY DEF Init
  <2>5. \A t \in Tasks : (task[t].at = "absent") = (t > seq)
    BY <1>3, <2>1
  <2>6. QED
    BY <1>2, <1>4, <1>5, <2>1, <2>2, <2>3, <2>4, <2>5 DEF TypeOK
<1>7. Awaiting /\ Answering /\ AwaitedOnce /\ Ordered
  BY <1>2 DEF Init, Awaiting, Answering, AwaitedOnce, Ordered, ChannelKeepsOrder
<1>8. QED
  BY <1>4, <1>6, <1>7 DEF Inv

-----------------------------------------------------------------------------
\* The statement a thread stands at, and the thread after it.
LEMMA AtStatement ==
  ASSUME Inv, NEW t \in Tasks, NEW op, AtStmt(t, op)
  PROVE  /\ task[t] \in Task /\ task[t].at = "run" /\ t \in 0 .. seq
         /\ task[t].pc \in Nat \ {0}
         /\ task[t].pc \in DOMAIN prog[task[t].fn]
         /\ Current(t) \in Stmt /\ Current(t).op = op
         /\ Current(t).with \in {None} \cup Fns /\ Named(t) \in Handle
<1>1. task[t] \in Task /\ task[t].at = "run" /\ prog \in [Bodies -> Seq(Stmt)]
  BY Constants DEF AtStmt, Inv, TypeOK
<1>2. task[t].fn \in Bodies /\ task[t].pc \in Nat \ {0}
  BY <1>1 DEF Task
<1>3. prog[task[t].fn] \in Seq(Stmt) /\ task[t].pc <= Len(prog[task[t].fn])
  BY <1>1, <1>2 DEF AtStmt
<1>4. Current(t) \in Stmt /\ task[t].pc \in DOMAIN prog[task[t].fn]
  BY <1>2, <1>3 DEF Current
<1>5. t \in 0 .. seq
  <2>1. ~(t > seq) /\ t \in Nat /\ seq \in Nat
    BY <1>1, Constants DEF Inv, TypeOK
  <2>2. QED
    BY <2>1
<1>6. Current(t).with \in {None} \cup Fns
  BY <1>4 DEF Stmt
<1>7. Named(t) \in Handle
  <2>1. task[t].env.handle \in [Fns -> Handle] /\ None \in Handle
    BY <1>1 DEF Task, Env, Handle
  <2>2. QED
    BY <1>6, <2>1 DEF Named
<1>8. QED
  BY <1>1, <1>2, <1>4, <1>5, <1>6, <1>7 DEF AtStmt

\* A thread that waits still stands at the statement it waits in.
LEMMA Standing ==
  ASSUME Inv, NEW t \in Tasks, task[t].at \in {"await", "lock", "recv"}
  PROVE  Current(t) \in Stmt /\ Current(t).with \in {None} \cup Fns
<1>1. task[t].pc \in DOMAIN prog[task[t].fn] /\ prog \in [Bodies -> Seq(Stmt)]
  BY Constants DEF Inv, TypeOK, Known
<1>2. task[t].fn \in Bodies
  BY DEF Inv, TypeOK, Task
<1>3. Current(t) \in Stmt
  BY <1>1, <1>2 DEF Current
<1>4. QED
  BY <1>3 DEF Stmt

LEMMA Moving ==
  ASSUME NEW thread \in Task
  PROVE  /\ Advance(thread) \in Task
         /\ Advance(thread).at = "run" /\ Advance(thread).waits = None
         /\ Advance(thread).env = thread.env
<1>1. thread.pc + 1 \in Nat \ {0}
  BY DEF Task
<1>2. QED
  BY <1>1 DEF Advance, Task

LEMMA Waiting ==
  ASSUME NEW thread \in Task, NEW at \in {"await", "lock", "recv"}, NEW what \in Nat,
         NEW th, th = Wait(thread, at, what)
  PROVE  /\ th \in Task /\ th.at = at /\ th.waits = what
         /\ th.env = thread.env /\ th.pc = thread.pc /\ th.fn = thread.fn
  BY DEF Wait, Task

LEMMA Ending ==
  ASSUME NEW thread \in Task, NEW th, th = [thread EXCEPT !.at = "done", !.waits = None]
  PROVE  th \in Task /\ th.at = "done" /\ th.waits = None /\ th.env = thread.env
  BY DEF Task

\* A thread that ends has no answer yet, and nobody has got one from it.
LEMMA FinishedStep ==
  ASSUME Inv, NEW t \in Tasks, task[t].at = "run", NEW value \in Value, Finished(t, value)
  PROVE  Inv'
<1>1. task[t] \in Task /\ task[t].at # "absent" /\ task[t].at # "done" /\ Known(task[t])
  BY DEF Inv, TypeOK
<1>2. PICK th : th = [task[t] EXCEPT !.at = "done", !.waits = None]
  OBVIOUS
<1>3. th \in Task /\ th.at = "done" /\ th.waits = None /\ th.env = task[t].env
  BY <1>1, <1>2, Ending
<1>4. /\ task' = [task EXCEPT ![t] = th]
      /\ outcome' = [outcome EXCEPT ![t] = <<value>>]
      /\ UNCHANGED <<prog, seq, parent, results, registry, chans, log>>
  BY <1>2 DEF Finished, Inv, TypeOK
<1>5. outcome' \in [Tasks -> Seq(Value)]
  BY <1>4 DEF Inv, TypeOK
<1>6. Grown
  BY <1>4, <1>5 DEF Grown, Inv, TypeOK
<1>7. WaitsFor(th)' /\ Known(th)'
  BY <1>1, <1>3, <1>4 DEF WaitsFor, Known
<1>8. TypeOK' /\ \A u \in Tasks : Known(task[u])'
  BY <1>1, <1>3, <1>4, <1>6, <1>7, OneMoves
<1>9. Awaiting'
  BY <1>3, <1>4, AwaitingStays
<1>10. \A u \in Tasks : u # t => outcome'[u] = outcome[u] /\ task'[u] = task[u]
  BY <1>4 DEF Inv, TypeOK
<1>11. Answering'
  <2>1. task'[t].at = "done" /\ outcome'[t] = <<value>>
    BY <1>3, <1>4 DEF Inv, TypeOK
  <2>2. QED
    BY <1>10, <2>1 DEF Inv, Answering
<1>12. AwaitedOnce'
  <2>1. \A a \in log.awaited : a[3] \in Tasks /\ outcome[a[3]] # <<>>
    <3> SUFFICES ASSUME NEW a \in log.awaited PROVE a[3] \in Tasks /\ outcome[a[3]] # <<>>
      OBVIOUS
    <3>1. a \in Tasks \X Nat \X Tasks \X Value
      BY DEF Inv, TypeOK, Log
    <3>2. outcome[a[3]] = <<a[4]>>
      BY DEF Inv, AwaitedOnce
    <3>3. QED
      BY <3>1, <3>2
  <2>2. \A a \in log.awaited : a[3] # t
    BY <1>1, <2>1 DEF Inv, Answering
  <2>3. QED
    BY <1>4, <1>10, <2>1, <2>2 DEF Inv, AwaitedOnce
<1>13. Ordered'
  BY <1>3, <1>4, NoReceiverBack, OrderedStays
<1>14. QED
  BY <1>8, <1>9, <1>11, <1>12, <1>13 DEF Inv

\* A step that only moves a thread, which ends nothing and awaits nothing.
LEMMA QuietStep ==
  ASSUME Inv, NEW t \in Tasks, task[t].at \notin {"absent", "done"},
         NEW th \in Task, th.at \notin {"absent", "await"},
         th.env.sender = task[t].env.sender, WaitsFor(th),
         th.at \in {"lock", "recv"} =>
            HasReceiver(th.waits) /\ th.pc \in DOMAIN prog[th.fn],
         task' = [task EXCEPT ![t] = th],
         UNCHANGED <<prog, seq, parent, results, outcome, registry, chans, log>>
  PROVE  Inv'
<1>1. Grown
  BY DEF Grown, Inv, TypeOK
<1>2. WaitsFor(th)' /\ Known(th)'
  BY DEF WaitsFor, Known, Inv
<1>3. TypeOK' /\ \A u \in Tasks : Known(task[u])'
  BY <1>1, <1>2, OneMoves
<1>4. Awaiting' /\ Answering'
  BY AwaitingStays, AnsweringStays
<1>5. AwaitedOnce' /\ Ordered'
  BY NoReceiverBack, OrderedStays DEF Inv, AwaitedOnce
<1>6. QED
  BY <1>3, <1>4, <1>5 DEF Inv

\* A step on one channel, made before or now, and the thread that takes it.
LEMMA ChannelStep ==
  ASSUME Inv, NEW t \in Tasks, task[t].at \notin {"absent", "done"},
         NEW th \in Task, th.at = "run", th.waits = None, Known(th)',
         task' = [task EXCEPT ![t] = th],
         UNCHANGED <<prog, seq, parent, results, outcome>>, log'.awaited = log.awaited,
         chans' \in Seq(Seq(Message)), log' \in Log,
         DOMAIN chans \subseteq DOMAIN chans',
         \A c \in Channels : registry[c] \in DOMAIN chans => registry'[c] \in DOMAIN chans',
         DOMAIN registry' = Channels,
         \A c \in Channels : registry'[c] \in {None} \cup DOMAIN chans',
         Ordered'
  PROVE  Inv'
<1>1. Grown
  BY DEF Grown, Inv, TypeOK
<1>2. WaitsFor(th)'
  BY DEF WaitsFor
<1>3. TypeOK' /\ \A u \in Tasks : Known(task[u])'
  BY <1>1, <1>2, OneMoves
<1>4. Awaiting' /\ Answering'
  BY AwaitingStays, AnsweringStays
<1>5. AwaitedOnce'
  BY DEF Inv, AwaitedOnce
<1>6. QED
  BY <1>3, <1>4, <1>5 DEF Inv

LEMMA ReturnStep ==
  ASSUME Inv, NEW t \in Tasks, Return(t)
  PROVE  Inv'
<1>1. AtStmt(t, "return") /\ (Finished(t, <<t, Named(t)>>) \/ Finished(t, None))
  BY DEF Return, Fail
<1>2. task[t].at = "run" /\ <<t, Named(t)>> \in Value /\ None \in Value
  BY <1>1, AtStatement DEF Value
<1>3. QED
  BY <1>1, <1>2, FinishedStep

LEMMA FallOffStep ==
  ASSUME Inv, NEW t \in Tasks, FallOff(t)
  PROVE  Inv'
<1>1. Finished(t, None) /\ None \in Value /\ task[t].at = "run"
  BY DEF FallOff, Value
<1>2. QED
  BY <1>1, FinishedStep

LEMMA FailStep ==
  ASSUME Inv, NEW t \in Tasks, NEW op, AtStmt(t, op), Fail(t)
  PROVE  Inv'
<1>1. Finished(t, None) /\ None \in Value /\ task[t].at = "run"
  BY DEF Fail, AtStmt, Value
<1>2. QED
  BY <1>1, FinishedStep

\* The one who awaits takes the receiver with him.
LEMMA AwaitTakeStep ==
  ASSUME Inv, NEW t \in Tasks, AwaitTake(t)
  PROVE  Inv'
<1>1. AtStmt(t, "await")
  BY DEF AwaitTake
<1>2. task[t] \in Task /\ task[t].at = "run" /\ task[t].pc \in DOMAIN prog[task[t].fn]
  BY <1>1, AtStatement
<1>3. ASSUME NEW id \in results,
             results' = results \ {id}, task' = [task EXCEPT ![t] = Wait(@, "await", id)],
             UNCHANGED <<prog, seq, parent, outcome, registry, chans, log>>
      PROVE  Inv'
  <2>1. id \in 1 .. seq /\ id \in Nat
    <3>1. seq \in Nat /\ id \in 1 .. seq
      BY Constants DEF Inv, TypeOK
    <3>2. QED
      BY <3>1
  <2>2. PICK th : th = Wait(task[t], "await", id)
    OBVIOUS
  <2>3. /\ th \in Task /\ th.at = "await" /\ th.waits = id
        /\ th.env = task[t].env /\ th.pc = task[t].pc /\ th.fn = task[t].fn
    BY <1>2, <2>1, <2>2, Waiting
  <2>4. task' = [task EXCEPT ![t] = th]
    BY <1>3, <2>2 DEF Inv, TypeOK
  <2>5. Grown
    BY <1>3 DEF Grown, Inv, TypeOK
  <2>6. WaitsFor(th)' /\ Known(th)'
    BY <1>2, <1>3, <2>1, <2>3 DEF WaitsFor, Known, Inv
  <2>7. TypeOK' /\ \A u \in Tasks : Known(task[u])'
    BY <1>2, <2>3, <2>4, <2>5, <2>6, OneMoves
  <2>8. Answering'
    BY <1>2, <1>3, <2>3, <2>4, AnsweringStays
  <2>9. /\ task'[t] = th
        /\ \A u \in Tasks \ {t} : task'[u] = task[u]
        /\ \A u \in Tasks : task[u].at = "await" => task[u].waits # id
        /\ \A a \in log.awaited : a[3] # id
    BY <2>4 DEF Inv, TypeOK, Awaiting
  <2>10. Awaiting'
    BY <1>3, <2>3, <2>9 DEF Inv, Awaiting
  <2>11. AwaitedOnce' /\ Ordered'
    BY <1>3, <2>3, <2>4, NoReceiverBack, OrderedStays DEF Inv, AwaitedOnce
  <2>12. QED
    BY <2>7, <2>8, <2>10, <2>11 DEF Inv
<1>4. QED
  BY <1>1, <1>3, FailStep DEF AwaitTake

\* The value that is got is the first and the last anyone gets of that task.
LEMMA AwaitGetStep ==
  ASSUME Inv, NEW t \in Tasks, AwaitGet(t)
  PROVE  Inv'
<1>1. task[t] \in Task /\ task[t].at = "await"
  BY DEF AwaitGet, Inv, TypeOK
<1>2. PICK id : id = task[t].waits
  OBVIOUS
<1>3. /\ id \in 1 .. seq /\ id \in Tasks /\ id \notin results
      /\ \A a \in log.awaited : a[3] # id
      /\ \A u \in Tasks \ {t} : task[u].at = "await" => task[u].waits # id
  <2>1. WaitsFor(task[t])
    BY DEF Inv, TypeOK
  <2>2. id \in 1 .. seq
    BY <1>1, <1>2, <2>1 DEF WaitsFor
  <2>3. seq \in 0 .. MaxTasks
    BY DEF Inv, TypeOK
  <2>4. QED
    BY <1>1, <1>2, <2>2, <2>3, Constants DEF Inv, Awaiting
<1>4. PICK v : v = outcome[id][1]
  OBVIOUS
<1>5. v \in Value /\ outcome[id] # <<>>
  BY <1>2, <1>3, <1>4 DEF AwaitGet, Inv, TypeOK
<1>6. PICK th : th = Advance(Bind(task[t], Current(t).with, Given(v)))
  OBVIOUS
<1>7. th \in Task /\ th.at = "run" /\ th.waits = None /\ th.env.sender = task[t].env.sender
  <2>1. Current(t).with \in {None} \cup Fns
    BY <1>1, Standing
  <2>2. Given(v) \in Handle
    BY <1>5 DEF Given, Value, Handle
  <2>3. QED
    BY <1>1, <1>6, <2>1, <2>2, Binding, Moving
<1>8. /\ task' = [task EXCEPT ![t] = th]
      /\ UNCHANGED <<prog, seq, parent, results, outcome, registry, chans>>
  BY <1>2, <1>4, <1>6 DEF AwaitGet, Inv, TypeOK
<1>9. PICK entry : entry = <<t, task[t].pc, id, v>>
  OBVIOUS
<1>10. entry \in Tasks \X Nat \X Tasks \X Value /\ entry[3] = id /\ entry[4] = v
  BY <1>1, <1>3, <1>5, <1>9 DEF Task
<1>11. /\ log' \in Log
       /\ log'.awaited = log.awaited \cup {entry}
       /\ log'.sent = log.sent /\ log'.received = log.received
  <2>1. log' = [log EXCEPT !.awaited = @ \cup {entry}]
    BY <1>2, <1>4, <1>9 DEF AwaitGet
  <2>2. log \in Log
    BY DEF Inv, TypeOK
  <2>3. QED
    BY <1>10, <2>1, <2>2 DEF Log
<1>12. Grown
  BY <1>8, <1>11 DEF Grown, Inv, TypeOK
<1>13. WaitsFor(th)' /\ Known(th)'
  BY <1>7, <1>8 DEF WaitsFor, Known, Inv
<1>14. TypeOK' /\ \A u \in Tasks : Known(task[u])'
  BY <1>1, <1>7, <1>8, <1>12, <1>13, OneMoves
<1>15. Answering'
  BY <1>1, <1>7, <1>8, AnsweringStays
<1>16. Awaiting'
  <2>1. \A u \in Tasks : task'[u].at = "await" => u # t /\ task'[u] = task[u]
    BY <1>7, <1>8 DEF Inv, TypeOK
  <2>2. QED
    BY <1>3, <1>8, <1>10, <1>11, <2>1 DEF Inv, Awaiting
<1>17. outcome[id] = <<v>>
  BY <1>3, <1>4, <1>5 DEF Inv, Answering
<1>18. AwaitedOnce'
  BY <1>3, <1>8, <1>10, <1>11, <1>17 DEF Inv, AwaitedOnce
<1>19. Ordered'
  BY <1>7, <1>8, <1>11, NoReceiverBack, OrderedStays
<1>20. QED
  BY <1>14, <1>15, <1>16, <1>18, <1>19 DEF Inv

LEMMA RecvFindStep ==
  ASSUME Inv, NEW t \in Tasks, RecvFind(t)
  PROVE  Inv'
<1>1. AtStmt(t, "recv")
  BY DEF RecvFind
<1>2. /\ task[t] \in Task /\ task[t].at = "run" /\ Current(t).name \in Channels
      /\ task[t].pc \in DOMAIN prog[task[t].fn]
  BY <1>1, AtStatement DEF Stmt
<1>3. ASSUME NEW c \in Channels, task[t].env.sender[c] # None,
             task' = [task EXCEPT ![t] = Wait(@, "lock", registry[c])],
             UNCHANGED <<prog, seq, parent, results, outcome, registry, chans, log>>
      PROVE  Inv'
  <2>1. registry[c] \in DOMAIN chans /\ registry[c] \in Nat
    BY <1>3 DEF Inv, TypeOK, Known
  <2>2. PICK th, id : id = registry[c] /\ th = Wait(task[t], "lock", id)
    OBVIOUS
  <2>3. /\ th \in Task /\ th.at = "lock" /\ th.waits = id
        /\ th.env = task[t].env /\ th.pc = task[t].pc /\ th.fn = task[t].fn
    <3>1. id \in Nat /\ task[t] \in Task /\ th = Wait(task[t], "lock", id)
      BY <1>2, <2>1, <2>2
    <3>2. QED
      BY <3>1, Waiting
  <2>4. task' = [task EXCEPT ![t] = th] /\ WaitsFor(th) /\ HasReceiver(th.waits)
    BY <1>3, <2>1, <2>2, <2>3 DEF Inv, TypeOK, WaitsFor, HasReceiver
  <2>5. QED
    BY <1>2, <1>3, <2>3, <2>4, QuietStep
<1>4. QED
  BY <1>1, <1>2, <1>3, FailStep DEF RecvFind

LEMMA RecvLockStep ==
  ASSUME Inv, NEW t \in Tasks, RecvLock(t)
  PROVE  Inv'
<1>1. task[t] \in Task /\ task[t].at = "lock" /\ WaitsFor(task[t]) /\ Known(task[t])
  BY DEF RecvLock, Inv, TypeOK
<1>2. PICK th : th = [task[t] EXCEPT !.at = "recv"]
  OBVIOUS
<1>3. /\ th \in Task /\ th.at = "recv" /\ th.waits = task[t].waits
      /\ th.env = task[t].env /\ th.pc = task[t].pc /\ th.fn = task[t].fn
  BY <1>1, <1>2 DEF Task
<1>4. WaitsFor(th) /\ HasReceiver(th.waits) /\ th.pc \in DOMAIN prog[th.fn]
  BY <1>1, <1>3 DEF WaitsFor, HasReceiver, Known
<1>5. /\ task' = [task EXCEPT ![t] = th]
      /\ UNCHANGED <<prog, seq, parent, results, outcome, registry, chans, log>>
  BY <1>2 DEF RecvLock, Inv, TypeOK
<1>6. QED
  BY <1>1, <1>3, <1>4, <1>5, QuietStep

\* What is kept of the channels and their history, by name.
LEMMA Histories ==
  ASSUME Inv
  PROVE  /\ chans \in Seq(Seq(Message)) /\ log \in Log
         /\ log.sent \in Seq(Seq(Message)) /\ log.received \in Seq(Seq(Message))
         /\ DOMAIN log.sent = DOMAIN chans /\ DOMAIN log.received = DOMAIN chans
         /\ \A c \in DOMAIN chans :
               /\ \A n \in DOMAIN log.received[c] :
                     n \in DOMAIN log.sent[c] /\ log.received[c][n] = log.sent[c][n]
               /\ HasReceiver(c) => log.received[c] \o chans[c] = log.sent[c]
<1>1. /\ chans \in Seq(Seq(Message)) /\ log \in Log
      /\ log.sent \in Seq(Seq(Message)) /\ log.received \in Seq(Seq(Message))
  BY DEF Inv, TypeOK, Log
<1>2. Len(log.sent) = Len(chans) /\ Len(log.received) = Len(chans)
  BY DEF Inv, Ordered
<1>3. DOMAIN log.sent = DOMAIN chans /\ DOMAIN log.received = DOMAIN chans
  BY <1>1, <1>2, LenProperties
<1>4. QED
  BY <1>1, <1>3 DEF Inv, Ordered, ChannelKeepsOrder

\* What waits in a channel after a step: as said, or nothing.
LEMMA Leaving ==
  ASSUME NEW queues \in Seq(Seq(Message)), LeavesWaiting(queues)
  PROVE  /\ chans' \in Seq(Seq(Message)) /\ Len(chans') = Len(queues)
         /\ DOMAIN chans' = DOMAIN queues
         /\ \A c \in DOMAIN queues :
               /\ HasReceiver(c)' => chans'[c] = queues[c]
               /\ ~HasReceiver(c)' => chans'[c] = <<>>
<1>1. chans' = [id \in DOMAIN queues |-> IF HasReceiver(id)' THEN queues[id] ELSE <<>>]
  BY DEF LeavesWaiting
<1>2. DOMAIN queues = 1 .. Len(queues) /\ Len(queues) \in Nat
  OBVIOUS
<1>3. \A id \in DOMAIN queues : chans'[id] \in Seq(Message)
  BY <1>1
<1>4. chans' \in [1 .. Len(queues) -> Seq(Message)]
  BY <1>1, <1>2, <1>3
<1>5. chans' \in Seq(Seq(Message)) /\ Len(chans') = Len(queues)
  BY <1>2, <1>4, FunctionIsSeq
<1>6. QED
  BY <1>1, <1>5

\* A step on one channel, of which then r is received and q waits.
OneMoved(id, r, q) ==
    /\ id \in DOMAIN chans /\ r \in Seq(Message) /\ q \in Seq(Message)
    /\ chans' \in Seq(Seq(Message)) /\ Len(chans') = Len(chans)
    /\ \A c \in DOMAIN chans : HasReceiver(c)' =>
          HasReceiver(c) /\ (c = id => chans'[c] = q) /\ (c # id => chans'[c] = chans[c])
    /\ log'.received = [log.received EXCEPT ![id] = r]
    /\ log'.sent = [log.sent EXCEPT ![id] = r \o q]

\* After a step on one channel the others are in order as before.
LEMMA OneChannel ==
  ASSUME Inv, NEW id, NEW r, NEW q, OneMoved(id, r, q)
  PROVE  /\ log'.received \in Seq(Seq(Message)) /\ log'.sent \in Seq(Seq(Message))
         /\ DOMAIN chans' = DOMAIN chans /\ Ordered'
<1> USE DEF OneMoved
<1>1. /\ log.received \in Seq(Seq(Message)) /\ log.sent \in Seq(Seq(Message))
      /\ id \in DOMAIN log.received /\ id \in DOMAIN log.sent
      /\ DOMAIN log.received = DOMAIN chans /\ DOMAIN log.sent = DOMAIN chans
      /\ r \o q \in Seq(Message)
  BY Histories, ConcatProperties
<1>2. /\ log'.received \in Seq(Seq(Message)) /\ Len(log'.received) = Len(log.received)
      /\ log'.received[id] = r
      /\ \A c \in DOMAIN chans : c # id => log'.received[c] = log.received[c]
  BY <1>1, OneReplaced
<1>3. /\ log'.sent \in Seq(Seq(Message)) /\ Len(log'.sent) = Len(log.sent)
      /\ log'.sent[id] = r \o q
      /\ \A c \in DOMAIN chans : c # id => log'.sent[c] = log.sent[c]
  BY <1>1, OneReplaced
<1>4. DOMAIN chans' = DOMAIN chans
  BY Histories, LenProperties
<1>5. ASSUME NEW c \in DOMAIN chans
      PROVE  /\ \A n \in DOMAIN log'.received[c] :
                   n \in DOMAIN log'.sent[c] /\ log'.received[c][n] = log'.sent[c][n]
             /\ HasReceiver(c)' => log'.received[c] \o chans'[c] = log'.sent[c]
  <2>1. CASE c = id
    <3>1. \A n \in DOMAIN r : n \in DOMAIN (r \o q) /\ r[n] = (r \o q)[n]
      BY FirstPart
    <3>2. QED
      BY <1>2, <1>3, <2>1, <3>1
  <2>2. CASE c # id
    <3>1. log'.received[c] = log.received[c] /\ log'.sent[c] = log.sent[c]
      BY <1>2, <1>3, <2>2
    <3>2. HasReceiver(c)' => HasReceiver(c) /\ chans'[c] = chans[c]
      BY <2>2
    <3>3. /\ \A n \in DOMAIN log.received[c] :
                n \in DOMAIN log.sent[c] /\ log.received[c][n] = log.sent[c][n]
          /\ HasReceiver(c) => log.received[c] \o chans[c] = log.sent[c]
      BY Histories
    <3>4. QED
      BY <3>1, <3>2, <3>3
  <2>3. QED
    BY <2>1, <2>2
<1>6. Ordered'
  BY <1>2, <1>3, <1>4, <1>5 DEF Inv, Ordered, ChannelKeepsOrder
<1>7. QED
  BY <1>2, <1>3, <1>4, <1>6

LEMMA RecvGetStep ==
  ASSUME Inv, NEW t \in Tasks, RecvGet(t)
  PROVE  Inv'
<1>1. task[t] \in Task /\ task[t].at = "recv" /\ WaitsFor(task[t]) /\ Known(task[t])
  BY DEF RecvGet, Inv, TypeOK
<1>2. PICK id : id = task[t].waits
  OBVIOUS
<1>3. id \in DOMAIN chans /\ HasReceiver(id)
  BY <1>1, <1>2 DEF WaitsFor, HasReceiver
<1>4. UNCHANGED <<prog, seq, parent, results, outcome, registry>>
  BY DEF RecvGet
<1>5. ASSUME NEW h \in Handle,
             task' = [task EXCEPT ![t] = Advance(Bind(@, Current(t).with, h))]
      PROVE  \E th \in Task :
                /\ th.at = "run" /\ th.waits = None /\ th.env.sender = task[t].env.sender
                /\ task' = [task EXCEPT ![t] = th]
  <2>1. PICK th : th = Advance(Bind(task[t], Current(t).with, h))
    OBVIOUS
  <2>2. th \in Task /\ th.at = "run" /\ th.waits = None /\ th.env.sender = task[t].env.sender
    BY <1>1, <2>1, Standing, Binding, Moving
  <2>3. task' = [task EXCEPT ![t] = th]
    BY <1>5, <2>1 DEF Inv, TypeOK
  <2>4. QED
    BY <2>2, <2>3
<1>6. CASE /\ task' = [task EXCEPT ![t] = Advance(Bind(@, Current(t).with, None))]
           /\ UNCHANGED <<chans, log>>
  <2>1. None \in Handle
    BY DEF Handle
  <2>2. PICK th \in Task :
          /\ th.at = "run" /\ th.waits = None /\ th.env.sender = task[t].env.sender
          /\ task' = [task EXCEPT ![t] = th]
    BY <1>5, <1>6, <2>1
  <2>3. WaitsFor(th)
    BY <2>2 DEF WaitsFor
  <2>4. QED
    BY <1>1, <1>4, <1>6, <2>2, <2>3, QuietStep
<1>7. CASE /\ chans[id] # <<>>
           /\ task' = [task EXCEPT ![t] = Advance(Bind(@, Current(t).with, Head(chans[id])[3]))]
           /\ log' = [log EXCEPT !.received[id] = Append(@, Head(chans[id]))]
           /\ LeavesWaiting([chans EXCEPT ![id] = Tail(@)])
  <2>1. /\ chans[id] \in Seq(Message) /\ log.received[id] \in Seq(Message)
        /\ Head(chans[id]) \in Message /\ Tail(chans[id]) \in Seq(Message)
    BY <1>3, <1>7, Histories, HeadTailProperties
  <2>2. PICK got, rest : got = Append(log.received[id], Head(chans[id])) /\ rest = Tail(chans[id])
    OBVIOUS
  <2>3. got \in Seq(Message) /\ rest \in Seq(Message)
    BY <2>1, <2>2, AppendProperties
  <2>4. got \o rest = log.sent[id]
    <3>1. got \o rest = log.received[id] \o chans[id]
      BY <1>7, <2>1, <2>2, OneTaken
    <3>2. QED
      BY <1>3, <3>1, Histories
  <2>5. PICK h \in Handle : h = Head(chans[id])[3]
    BY <2>1 DEF Message
  <2>6. PICK th \in Task :
          /\ th.at = "run" /\ th.waits = None /\ th.env.sender = task[t].env.sender
          /\ task' = [task EXCEPT ![t] = th]
    BY <1>5, <1>7, <2>5
  <2>7. PICK queues : queues = [chans EXCEPT ![id] = rest]
    OBVIOUS
  <2>8. /\ queues \in Seq(Seq(Message)) /\ Len(queues) = Len(chans)
        /\ DOMAIN queues = DOMAIN chans
        /\ queues[id] = rest /\ \A c \in DOMAIN chans : c # id => queues[c] = chans[c]
    BY <1>3, <2>3, <2>7, Histories, ExceptSeq
  <2>9. LeavesWaiting(queues)
    BY <1>7, <2>2, <2>7
  <2>10. /\ chans' \in Seq(Seq(Message)) /\ Len(chans') = Len(chans)
         /\ \A c \in DOMAIN chans : HasReceiver(c)' => chans'[c] = queues[c]
    BY <2>8, <2>9, Leaving
  <2>11. \A c : HasReceiver(c)' => HasReceiver(c)
    BY <1>4, <2>6, NoReceiverBack
  <2>12. log' = [log EXCEPT !.received = [@ EXCEPT ![id] = got]]
    BY <1>7, <2>2
  <2>13. /\ log'.awaited = log.awaited
         /\ log'.received = [log.received EXCEPT ![id] = got]
         /\ log'.sent = log.sent
    BY <2>12, Histories DEF Log
  <2>14. log'.sent = [log.sent EXCEPT ![id] = got \o rest]
    BY <1>3, <2>4, <2>13, Histories
  <2>15. \A c \in DOMAIN chans : HasReceiver(c)' =>
            HasReceiver(c) /\ (c = id => chans'[c] = rest) /\ (c # id => chans'[c] = chans[c])
    BY <2>8, <2>10, <2>11
  <2>16. /\ log'.received \in Seq(Seq(Message)) /\ log'.sent \in Seq(Seq(Message))
         /\ DOMAIN chans' = DOMAIN chans /\ Ordered'
    <3>1. OneMoved(id, got, rest)
      BY <1>3, <2>3, <2>10, <2>13, <2>14, <2>15 DEF OneMoved
    <3>2. QED
      BY <3>1, OneChannel
  <2>17. log' \in Log
    BY <2>12, <2>16, Histories DEF Log
  <2>18. Known(th)'
    BY <1>1, <1>4, <2>6, <2>16 DEF Known
  <2>19. QED
    BY <1>1, <1>4, <2>6, <2>10, <2>13, <2>16, <2>17, <2>18, ChannelStep DEF Inv, TypeOK
<1>8. QED
  BY <1>2, <1>6, <1>7 DEF RecvGet

LEMMA SendStep ==
  ASSUME Inv, NEW t \in Tasks, Send(t)
  PROVE  Inv'
<1>1. AtStmt(t, "send")
  BY DEF Send
<1>2. /\ task[t] \in Task /\ task[t].at = "run" /\ task[t].pc \in Nat
      /\ Current(t).name \in Channels /\ Known(task[t]) /\ Named(t) \in Handle
  BY <1>1, AtStatement DEF Stmt, Inv
<1>3. PICK id : id = task[t].env.sender[Current(t).name]
  OBVIOUS
<1>4. CASE /\ id # None
           /\ HasReceiver(id)
           /\ chans' = [chans EXCEPT ![id] = Append(@, <<t, task[t].pc, Named(t)>>)]
           /\ log' = [log EXCEPT !.sent[id] = Append(@, <<t, task[t].pc, Named(t)>>)]
           /\ task' = [task EXCEPT ![t] = Advance(@)]
           /\ UNCHANGED <<prog, seq, parent, results, outcome, registry>>
  <2>1. id \in DOMAIN chans
    BY <1>2, <1>3, <1>4 DEF Known
  <2>2. PICK m : m = <<t, task[t].pc, Named(t)>>
    OBVIOUS
  <2>3. m \in Message /\ chans[id] \in Seq(Message) /\ log.received[id] \in Seq(Message)
        /\ log.sent[id] \in Seq(Message)
    BY <1>2, <2>1, <2>2, Histories DEF Message
  <2>4. PICK waiting, all : waiting = Append(chans[id], m) /\ all = Append(log.sent[id], m)
    OBVIOUS
  <2>5. waiting \in Seq(Message) /\ all \in Seq(Message)
    BY <2>3, <2>4, AppendProperties
  <2>6. log.received[id] \o waiting = all
    <3>1. log.received[id] \o waiting = Append(log.received[id] \o chans[id], m)
      <4>1. PICK r, q : r = log.received[id] /\ q = chans[id]
        OBVIOUS
      <4>2. r \in Seq(Message) /\ q \in Seq(Message) /\ m \in Message
        BY <2>3, <4>1
      <4>3. r \o Append(q, m) = Append(r \o q, m)
        BY <4>2, OneMore
      <4>4. QED
        BY <2>4, <4>1, <4>3
    <3>2. QED
      BY <1>4, <2>1, <2>4, <3>1, Histories
  <2>7. /\ chans' = [chans EXCEPT ![id] = waiting]
        /\ log' = [log EXCEPT !.sent = [@ EXCEPT ![id] = all]]
    BY <1>4, <2>2, <2>4
  <2>8. /\ log'.awaited = log.awaited
        /\ log'.sent = [log.sent EXCEPT ![id] = log.received[id] \o waiting]
        /\ log'.received = log.received
    BY <2>6, <2>7, Histories DEF Log
  <2>9. log'.received = [log.received EXCEPT ![id] = log.received[id]]
    BY <2>1, <2>8, Histories
  <2>10. PICK th : th = Advance(task[t])
    OBVIOUS
  <2>11. th \in Task /\ th.at = "run" /\ th.waits = None /\ th.env = task[t].env
    BY <1>2, <2>10, Moving
  <2>12. task' = [task EXCEPT ![t] = th]
    BY <1>4, <2>10 DEF Inv, TypeOK
  <2>13. \A c : HasReceiver(c)' => HasReceiver(c)
    BY <1>4, <2>11, <2>12, NoReceiverBack
  <2>14. /\ chans' \in Seq(Seq(Message)) /\ Len(chans') = Len(chans)
         /\ chans'[id] = waiting /\ \A c \in DOMAIN chans : c # id => chans'[c] = chans[c]
    BY <2>1, <2>5, <2>7, Histories, ExceptSeq
  <2>15. /\ chans' \in Seq(Seq(Message)) /\ Len(chans') = Len(chans)
         /\ \A c \in DOMAIN chans : HasReceiver(c)' =>
               HasReceiver(c) /\ (c = id => chans'[c] = waiting) /\ (c # id => chans'[c] = chans[c])
    BY <2>13, <2>14
  <2>16. /\ chans' \in Seq(Seq(Message))
         /\ log'.received \in Seq(Seq(Message)) /\ log'.sent \in Seq(Seq(Message))
         /\ DOMAIN chans' = DOMAIN chans /\ Ordered'
    <3>1. OneMoved(id, log.received[id], waiting)
      BY <2>1, <2>3, <2>5, <2>8, <2>9, <2>15 DEF OneMoved
    <3>2. QED
      BY <2>15, <3>1, OneChannel
  <2>17. log' \in Log
    BY <2>7, <2>16, Histories DEF Log
  <2>18. Known(th)'
    BY <1>2, <1>4, <2>11, <2>16 DEF Known
  <2>19. QED
    BY <1>2, <1>4, <2>8, <2>11, <2>12, <2>16, <2>17, <2>18, ChannelStep DEF Inv, TypeOK
<1>5. QED
  BY <1>1, <1>3, <1>4, FailStep DEF Send

\* A channel that is made is empty, and so is its history.
LEMMA ChannelMade ==
  ASSUME Inv, NEW t \in Tasks, Channel(t)
  PROVE  Inv'
<1>1. AtStmt(t, "channel")
  BY DEF Channel
<1>2. /\ task[t] \in Task /\ task[t].at = "run"
      /\ Current(t).name \in Channels /\ Known(task[t])
  BY <1>1, AtStatement DEF Stmt, Inv
<1>3. PICK c \in Channels : c = Current(t).name
  BY <1>2
<1>4. PICK id : id = Len(chans) + 1
  OBVIOUS
<1>5. /\ LeavesWaiting(Append(chans, <<>>))
      /\ log' = [log EXCEPT !.sent = Append(@, <<>>), !.received = Append(@, <<>>)]
      /\ registry' = [registry EXCEPT ![c] = id]
      /\ task' = [task EXCEPT ![t] = Advance([@ EXCEPT !.env.sender[c] = id])]
      /\ UNCHANGED <<prog, seq, parent, results, outcome>>
  BY <1>3, <1>4 DEF Channel
<1>6. <<>> \in Seq(Message)
  OBVIOUS
<1>7. /\ chans' \in Seq(Seq(Message)) /\ Len(chans') = id /\ chans'[id] = <<>>
      /\ \A d \in DOMAIN chans : HasReceiver(d)' => chans'[d] = chans[d]
      /\ DOMAIN chans' = DOMAIN chans \cup {id} /\ id \in Nat /\ id \notin DOMAIN chans
  <2>1. PICK queues : queues = Append(chans, <<>>)
    OBVIOUS
  <2>2. /\ queues \in Seq(Seq(Message)) /\ Len(queues) = id /\ queues[id] = <<>>
        /\ \A d \in DOMAIN chans : queues[d] = chans[d]
        /\ DOMAIN queues = DOMAIN chans \cup {id} /\ id \in Nat /\ id \notin DOMAIN chans
    BY <1>4, <1>6, <2>1, Histories, AppendProperties
  <2>3. QED
    BY <1>5, <2>1, <2>2, Leaving
<1>8. /\ log' \in Log /\ log'.awaited = log.awaited
      /\ log'.sent = Append(log.sent, <<>>) /\ log'.received = Append(log.received, <<>>)
  <2>1. Append(log.sent, <<>>) \in Seq(Seq(Message)) /\ Append(log.received, <<>>) \in Seq(Seq(Message))
    BY <1>6, Histories, AppendProperties
  <2>2. QED
    BY <1>5, <2>1, Histories DEF Log
<1>9. /\ Len(log'.sent) = id /\ log'.sent[id] = <<>>
      /\ Len(log'.received) = id /\ log'.received[id] = <<>>
      /\ \A d \in DOMAIN chans : log'.sent[d] = log.sent[d] /\ log'.received[d] = log.received[d]
  BY <1>4, <1>6, <1>8, Histories, AppendProperties
<1>10. /\ DOMAIN registry' = Channels /\ registry'[c] = id
       /\ \A d \in Channels \ {c} : registry'[d] = registry[d]
  BY <1>5 DEF Inv, TypeOK
<1>11. PICK new : new = [task[t] EXCEPT !.env.sender[c] = id]
  OBVIOUS
<1>12. /\ new \in Task /\ new.env.sender[c] = id
       /\ \A d \in Channels \ {c} : new.env.sender[d] = task[t].env.sender[d]
  <2>1. task[t].env \in Env /\ task[t].env.sender \in [Channels -> {None} \cup Nat]
    BY <1>2 DEF Task, Env
  <2>2. PICK sender : sender = [task[t].env.sender EXCEPT ![c] = id]
    OBVIOUS
  <2>3. /\ sender \in [Channels -> {None} \cup Nat] /\ sender[c] = id
        /\ \A d \in Channels \ {c} : sender[d] = task[t].env.sender[d]
    BY <1>7, <2>1, <2>2
  <2>4. PICK env : env = [task[t].env EXCEPT !.sender = sender]
    OBVIOUS
  <2>5. env \in Env /\ env.sender = sender
    BY <2>1, <2>3, <2>4 DEF Env
  <2>6. new = [task[t] EXCEPT !.env = env]
    BY <1>11, <2>2, <2>4
  <2>7. new \in Task /\ new.env = env
    BY <1>2, <2>5, <2>6 DEF Task
  <2>8. QED
    BY <2>3, <2>5, <2>7
<1>13. PICK th : th = Advance(new)
  OBVIOUS
<1>14. th \in Task /\ th.at = "run" /\ th.waits = None /\ th.env = new.env
  BY <1>12, <1>13, Moving
<1>15. task' = [task EXCEPT ![t] = th]
  BY <1>5, <1>11, <1>13 DEF Inv, TypeOK
<1>16. Known(th)'
  <2>1. ASSUME NEW d \in Channels, th.env.sender[d] # None
        PROVE  th.env.sender[d] \in DOMAIN chans' /\ registry'[d] \in DOMAIN chans'
    <3>1. CASE d = c
      BY <1>7, <1>10, <1>12, <1>14, <3>1
    <3>2. CASE d # c
      BY <1>2, <1>7, <1>10, <1>12, <1>14, <2>1, <3>2 DEF Known
    <3>3. QED
      BY <3>1, <3>2
  <2>2. QED
    BY <1>14, <2>1 DEF Known
<1>17. Ordered'
  <2>1. <<>> \o <<>> = <<>>
    BY ConcatEmptySeq, <1>6
  <2>2. ASSUME NEW d \in DOMAIN chans, HasReceiver(d)' PROVE HasReceiver(d)
    <3>1. CASE \E e \in Channels : registry'[e] = d
      BY <1>7, <1>10, <3>1 DEF HasReceiver
    <3>2. ASSUME NEW u \in Tasks, task'[u].at \in {"lock", "recv"}, task'[u].waits = d
          PROVE  HasReceiver(d)
      BY <1>14, <1>15, <3>2 DEF HasReceiver, Inv, TypeOK
    <3>3. QED
      BY <2>2, <3>1, <3>2 DEF HasReceiver
  <2>3. QED
    BY <1>7, <1>9, <2>1, <2>2, Histories DEF Ordered, ChannelKeepsOrder
<1>18. /\ \A d \in Channels : registry[d] \in DOMAIN chans => registry'[d] \in DOMAIN chans'
       /\ \A d \in Channels : registry'[d] \in {None} \cup DOMAIN chans'
  BY <1>7, <1>10 DEF Inv, TypeOK
<1>19. QED
  BY <1>2, <1>5, <1>7, <1>8, <1>17, <1>10, <1>14, <1>15, <1>16, <1>18, ChannelStep

\* A task that is spawned is new: nobody waits for it or has its result.
LEMMA SpawnStep ==
  ASSUME Inv, NEW t \in Tasks, Spawn(t)
  PROVE  Inv'
<1>1. AtStmt(t, "spawn") /\ seq < MaxTasks
  BY DEF Spawn
<1>2. /\ task[t] \in Task /\ task[t].at = "run" /\ t \in 0 .. seq
      /\ Current(t).name \in Fns /\ Known(task[t]) /\ seq \in Nat
  <2>1. Current(t) \in Stmt /\ Current(t).op = "spawn"
    BY <1>1, AtStatement
  <2>2. Current(t).name \in Fns
    BY <2>1 DEF Stmt
  <2>3. Known(task[t]) /\ seq \in Nat
    BY Constants DEF Inv, TypeOK
  <2>4. QED
    BY <1>1, <2>2, <2>3, AtStatement
<1>3. PICK f \in Fns : f = Current(t).name
  BY <1>2
<1>4. PICK id : id = seq + 1
  OBVIOUS
<1>5. /\ id \in Tasks /\ id \in Nat /\ id > seq /\ id # t /\ id \notin 1 .. seq
      /\ 1 .. id = (1 .. seq) \cup {id} /\ id \in 0 .. MaxTasks
  BY <1>1, <1>2, <1>4, Constants
<1>6. task[id].at = "absent"
  BY <1>5 DEF Inv, TypeOK
<1>7. PICK new : new = Thread(f, task[t].env)
  OBVIOUS
<1>8. new \in Task /\ new.at = "run" /\ new.waits = None /\ new.env = task[t].env
  <2>1. f \in Bodies /\ task[t].env \in Env
    BY <1>2 DEF Bodies, Task
  <2>2. QED
    BY <1>7, <2>1 DEF Thread, Task
<1>9. PICK bound : bound = [task[t] EXCEPT !.env.handle[f] = id]
  OBVIOUS
<1>10. bound \in Task /\ bound.env.sender = task[t].env.sender
  <2>1. task[t].env \in Env /\ task[t].env.handle \in [Fns -> Handle]
    BY <1>2 DEF Task, Env
  <2>2. PICK handle : handle = [task[t].env.handle EXCEPT ![f] = id]
    OBVIOUS
  <2>3. handle \in [Fns -> Handle]
    BY <1>5, <2>1, <2>2 DEF Handle
  <2>4. PICK env : env = [task[t].env EXCEPT !.handle = handle]
    OBVIOUS
  <2>5. env \in Env /\ env.sender = task[t].env.sender
    BY <2>1, <2>3, <2>4 DEF Env
  <2>6. bound = [task[t] EXCEPT !.env = env]
    BY <1>9, <2>2, <2>4
  <2>7. bound \in Task /\ bound.env = env
    BY <1>2, <2>5, <2>6 DEF Task
  <2>8. QED
    BY <2>5, <2>7
<1>11. PICK th : th = Advance(bound)
  OBVIOUS
<1>12. th \in Task /\ th.at = "run" /\ th.waits = None /\ th.env.sender = task[t].env.sender
  BY <1>10, <1>11, Moving
<1>13. /\ seq' = id
       /\ parent' = [i \in DOMAIN parent \cup {id} |-> IF i = id THEN t ELSE parent[i]]
       /\ results' = results \cup {id}
       /\ UNCHANGED <<prog, outcome, registry, chans, log>>
  BY <1>4 DEF Spawn
<1>14. task' = [task EXCEPT ![id] = new, ![t] = th]
  <2>1. task' = [task EXCEPT ![id] = Thread(f, task[t].env),
                             ![t] = Advance([@ EXCEPT !.env.handle[f] = id])]
    BY <1>3, <1>4 DEF Spawn, ChildEnv
  <2>2. QED
    BY <1>5, <1>7, <1>9, <1>11, <2>1 DEF Inv, TypeOK
<1>15. /\ task' \in [Tasks -> Task] /\ task'[id] = new /\ task'[t] = th
       /\ \A u \in Tasks \ {id, t} : task'[u] = task[u]
  BY <1>5, <1>8, <1>12, <1>14 DEF Inv, TypeOK
<1>16. ASSUME NEW u \in Tasks
       PROVE  (task'[u].at = "absent") = (u > id) /\ WaitsFor(task[u])' /\ Known(task[u])'
  <2>1. CASE u = id
    BY <1>2, <1>5, <1>8, <1>13, <1>15, <2>1 DEF WaitsFor, Known
  <2>2. CASE u = t
    <3>1. ~(u > id)
      BY <1>2, <1>5, <2>2
    <3>2. QED
      BY <1>2, <1>12, <1>13, <1>15, <2>2, <3>1 DEF WaitsFor, Known
  <2>3. CASE u \notin {id, t}
    <3>1. task'[u] = task[u] /\ WaitsFor(task[u]) /\ Known(task[u])
      BY <1>15, <2>3 DEF Inv, TypeOK
    <3>2. (task[u].at = "absent") = (u > seq) /\ (u > seq) = (u > id)
      BY <1>2, <1>4, <2>3, Constants DEF Inv, TypeOK
    <3>3. QED
      BY <1>5, <1>13, <3>1, <3>2 DEF WaitsFor, Known
  <2>4. QED
    BY <2>1, <2>2, <2>3
<1>17. /\ DOMAIN parent' = 1 .. id
       /\ \A u \in DOMAIN parent' : parent'[u] \in 0 .. (u - 1)
  BY <1>2, <1>4, <1>5, <1>13 DEF Inv, TypeOK
<1>18. results' \subseteq 1 .. id
  BY <1>5, <1>13 DEF Inv, TypeOK
<1>19. TypeOK'
  BY <1>5, <1>13, <1>15, <1>16, <1>17, <1>18 DEF Inv, TypeOK
<1>20. \A u \in Tasks : task'[u].at = "await" => task'[u] = task[u] /\ task[u].waits \in 1 .. seq
  <2>1. \A u \in Tasks : task'[u].at = "await" => task'[u] = task[u]
    BY <1>8, <1>12, <1>15
  <2>2. QED
    BY <2>1 DEF Inv, TypeOK, WaitsFor
<1>21. Awaiting'
  <2>1. \A u \in Tasks : task'[u].at = "await" =>
           /\ task[u].waits \notin results'
           /\ \A w \in Tasks : task'[w].at = "await" /\ task'[w].waits = task[u].waits => w = u
           /\ \A a \in log.awaited : a[3] # task[u].waits
    BY <1>5, <1>13, <1>20 DEF Inv, Awaiting
  <2>2. \A a \in log.awaited : a[3] \in (1 .. id) \ results'
    BY <1>5, <1>13 DEF Inv, Awaiting
  <2>3. QED
    BY <1>13, <1>20, <2>1, <2>2 DEF Awaiting
<1>22. Answering'
  BY <1>2, <1>6, <1>13, <1>15 DEF Inv, Answering
<1>23. AwaitedOnce' /\ Ordered'
  <2>1. \A u \in Tasks : task'[u].at \in {"lock", "recv"} => task'[u] = task[u]
    BY <1>8, <1>12, <1>15
  <2>2. \A c : HasReceiver(c)' => HasReceiver(c)
    BY <1>13, <2>1 DEF HasReceiver
  <2>3. QED
    BY <1>13, <2>2, OrderedStays DEF Inv, AwaitedOnce
<1>24. QED
  BY <1>16, <1>19, <1>21, <1>22, <1>23 DEF Inv

LEMMA StepInv == Inv /\ [Next]_vars => Inv'
<1> SUFFICES ASSUME Inv, [Next]_vars PROVE Inv'
  OBVIOUS
<1>1. CASE UNCHANGED vars
  BY <1>1 DEF vars, Inv, TypeOK, WaitsFor, Known, Awaiting, Answering, AwaitedOnce, Ordered,
              ChannelKeepsOrder, HasReceiver
<1>2. ASSUME NEW t \in Tasks, Step(t) PROVE Inv'
  BY <1>2, ReturnStep, FallOffStep, SpawnStep, AwaitTakeStep, AwaitGetStep, ChannelMade,
     SendStep, RecvFindStep, RecvLockStep, RecvGetStep DEF Step
<1>3. QED
  BY <1>1, <1>2 DEF Next

-----------------------------------------------------------------------------
LEMMA Invariance == Spec => []Inv
  BY InitInv, StepInv, PTL DEF Spec

\* The shared tables, the threads and what they wait for keep their types
\* (interpreter.rs).
THEOREM TasksTyped == Spec => []TypeOK
<1>1. Inv => TypeOK
  BY DEF Inv
<1>2. QED
  BY <1>1, Invariance, PTL

\* A result is handed to one await, and is what the task returned
\* (await and spawn_task in call_builtin, interpreter.rs).
THEOREM ResultsAwaitedOnce == Spec => []AwaitedOnce
<1>1. Inv => AwaitedOnce
  BY DEF Inv
<1>2. QED
  BY <1>1, Invariance, PTL

\* What is received from a channel is what was sent to it, in order, and nothing
\* of it is lost before its receiver is, for any number of senders, receivers and
\* channels of one name (channel, send and recv, interpreter.rs).
THEOREM ChannelsInOrder == Spec => []ChannelKeepsOrder
<1>1. Inv => ChannelKeepsOrder
  BY DEF Inv, Ordered
<1>2. QED
  BY <1>1, Invariance, PTL

-----------------------------------------------------------------------------
(***************************************************************************)
(* No tasks wait for each other.  A task can await the tasks it spawned,   *)
(* those its spawner could name when it was spawned, and those that such   *)
(* tasks return the handles of, so the tasks can be put in a line in which *)
(* each awaits only tasks before it: a new task goes right before its      *)
(* spawner (Nested).  It takes a handle in a message to leave the line.    *)
(***************************************************************************)
NoCircle ==
    \A ts \in SUBSET Tasks :
        ts # {} => \E t \in ts : ~(task[t].at = "await" /\ task[t].waits \in ts)

\* Where no channel is used there is always a thread that can go on.
NoStandstill ==
    ~UsesChannels(prog) /\ ~Over =>
        \E t \in Tasks : \/ task[t].at = "run"
                         \/ task[t].at = "await" /\ outcome[task[t].waits] # <<>>

\* A program with a send of a name that may stand for a task.
SendsHandles(p) ==
    \E f \in Bodies : \E n \in DOMAIN p[f] : p[f][n].op = "send" /\ p[f][n].with # None
Mute(queues) ==
    \A c \in DOMAIN queues : \A n \in DOMAIN queues[c] : queues[c][n][3] = None

Below(pos, t, h) == h # None => h \in 1 .. seq /\ pos[h] < pos[t]
Before(pos, t) ==
    /\ \A f \in Fns : Below(pos, t, task[t].env.handle[f])
    /\ task[t].at = "await" => pos[task[t].waits] < pos[t]
    /\ outcome[t] # <<>> => Below(pos, t, Given(outcome[t][1]))
Lined(pos) == \A t \in Tasks : Before(pos, t)
Nested ==
    ~SendsHandles(prog) => Mute(chans) /\ \E pos \in [Tasks -> Nat] : Lined(pos)

\* Who has ended has answered, and only channels make a thread wait otherwise.
Answered ==
    \A t \in Tasks :
        /\ task[t].at = "done" => outcome[t] # <<>>
        /\ task[t].at \in {"lock", "recv"} => UsesChannels(prog)

Going == Inv /\ Nested /\ Answered

LEMMA GoingInit == Init => Going
<1> SUFFICES ASSUME Init PROVE Nested /\ Answered
  BY InitInv DEF Going
<1>1. /\ Thread("main", NoEnv).at = "run" /\ Absent.at = "absent"
      /\ Thread("main", NoEnv).env = NoEnv /\ Absent.env = NoEnv
  BY DEF Thread, Absent
<1>2. \A t \in Tasks : task[t].env = NoEnv /\ task[t].at \in {"run", "absent"}
  BY <1>1 DEF Init
<1>3. Answered
  BY <1>2 DEF Answered
<1>4. PICK pos : pos = [t \in Tasks |-> 0]
  OBVIOUS
<1>5. pos \in [Tasks -> Nat] /\ Lined(pos)
  BY <1>2, <1>4 DEF Lined, Before, Below, NoEnv, Init
<1>6. Mute(chans)
  BY DEF Init, Mute
<1>7. QED
  BY <1>3, <1>5, <1>6 DEF Nested

\* What a thread may be in a line: it names, awaits and returns who comes before.
Fits(pos, t, th, value) ==
    /\ \A f \in Fns : Below(pos, t, th.env.handle[f])
    /\ th.at = "await" => pos[th.waits] < pos[t]
    /\ value # <<>> => Below(pos, t, Given(value[1]))

LEMMA ThreadGoes ==
  ASSUME Going, NEW t \in Tasks, NEW th, task' = [task EXCEPT ![t] = th],
         UNCHANGED <<prog, seq>>,
         ~SendsHandles(prog) => Mute(chans'),
         ~SendsHandles(prog) => \A pos \in [Tasks -> Nat] :
            Lined(pos) => Fits(pos, t, th, outcome'[t]),
         th.at \in {"lock", "recv"} => UsesChannels(prog),
         th.at = "done" => outcome'[t] # <<>>,
         \A u \in Tasks \ {t} : outcome'[u] = outcome[u]
  PROVE  Nested' /\ Answered'
<1>1. task'[t] = th /\ \A u \in Tasks \ {t} : task'[u] = task[u]
  BY DEF Going, Inv, TypeOK
<1>2. ASSUME ~SendsHandles(prog)
      PROVE  \E pos \in [Tasks -> Nat] : Lined(pos)'
  <2>1. PICK pos \in [Tasks -> Nat] : Lined(pos)
    BY <1>2 DEF Going, Nested
  <2>2. Fits(pos, t, th, outcome'[t])
    BY <1>2, <2>1
  <2>3. Before(pos, t)'
    BY <1>1, <2>2 DEF Before, Below, Fits
  <2>4. ASSUME NEW u \in Tasks \ {t} PROVE Before(pos, u)'
    <3>1. Before(pos, u)
      BY <2>1 DEF Lined
    <3>2. QED
      BY <1>1, <3>1 DEF Before, Below
  <2>5. QED
    BY <2>3, <2>4 DEF Lined
<1>3. SendsHandles(prog)' = SendsHandles(prog) /\ UsesChannels(prog)' = UsesChannels(prog)
  BY DEF SendsHandles, UsesChannels
<1>4. Nested'
  BY <1>2, <1>3 DEF Nested
<1>5. Answered'
  BY <1>1, <1>3 DEF Going, Answered
<1>6. QED
  BY <1>4, <1>5

\* A thread that only goes on, with the handles it had.
LEMMA QuietGoes ==
  ASSUME Going, NEW t \in Tasks, NEW th, task' = [task EXCEPT ![t] = th],
         UNCHANGED <<prog, seq, outcome>>,
         ~SendsHandles(prog) => Mute(chans'),
         th.env.handle = task[t].env.handle, th.at \notin {"await", "done"},
         th.at \in {"lock", "recv"} => UsesChannels(prog)
  PROVE  Nested' /\ Answered'
<1>1. ASSUME NEW pos, Lined(pos) PROVE Fits(pos, t, th, outcome'[t])
  BY <1>1 DEF Lined, Before, Fits
<1>2. QED
  BY <1>1, ThreadGoes

\* A task that ends returns nothing, or a handle it could name.
LEMMA FinishedGoes ==
  ASSUME Going, NEW t \in Tasks, NEW value, Finished(t, value),
         Given(value) = None \/ \E f \in Fns : Given(value) = task[t].env.handle[f]
  PROVE  Nested' /\ Answered'
<1>1. task[t] \in Task /\ outcome \in [Tasks -> Seq(Value)]
  BY DEF Going, Inv, TypeOK
<1>2. PICK th : th = [task[t] EXCEPT !.at = "done", !.waits = None]
  OBVIOUS
<1>3. th.at = "done" /\ th.env = task[t].env
  BY <1>1, <1>2, Ending
<1>4. task' = [task EXCEPT ![t] = th] /\ UNCHANGED <<prog, seq, chans>>
  BY <1>2 DEF Finished, Going, Inv, TypeOK
<1>5. /\ outcome'[t] = <<value>> /\ outcome'[t] # <<>>
      /\ \A u \in Tasks \ {t} : outcome'[u] = outcome[u]
  BY <1>1 DEF Finished
<1>6. ASSUME NEW pos, Lined(pos) PROVE Fits(pos, t, th, outcome'[t])
  <2>1. \A f \in Fns : Below(pos, t, task[t].env.handle[f])
    BY <1>6 DEF Lined, Before
  <2>2. Below(pos, t, Given(value))
    BY <2>1 DEF Below
  <2>3. QED
    BY <1>3, <1>5, <2>1, <2>2 DEF Fits
<1>7. ~SendsHandles(prog) => Mute(chans')
  BY <1>4 DEF Going, Nested
<1>8. QED
  BY <1>3, <1>4, <1>5, <1>6, <1>7, ThreadGoes

LEMMA FailGoes ==
  ASSUME Going, NEW t \in Tasks, Fail(t)
  PROVE  Nested' /\ Answered'
<1>1. Finished(t, None) /\ Given(None) = None
  BY DEF Fail, Given
<1>2. QED
  BY <1>1, FinishedGoes

LEMMA ReturnGoes ==
  ASSUME Going, NEW t \in Tasks, Return(t)
  PROVE  Nested' /\ Answered'
<1>1. AtStmt(t, "return") /\ Inv
  BY DEF Return, Going
<1>2. Current(t).with \in {None} \cup Fns
  BY <1>1, AtStatement
<1>3. CASE Finished(t, <<t, Named(t)>>)
  <2>1. Named(t) = None \/ \E f \in Fns : Named(t) = task[t].env.handle[f]
    BY <1>2 DEF Named
  <2>2. PICK value : value = <<t, Named(t)>>
    OBVIOUS
  <2>3. Given(value) = None \/ Given(value) = Named(t)
    BY <2>2 DEF Given
  <2>4. QED
    BY <1>3, <2>1, <2>2, <2>3, FinishedGoes
<1>4. QED
  BY <1>3, FailGoes DEF Return

\* A statement on a channel is one of a program that uses channels, and what is
\* sent is no handle unless the program sends some.
LEMMA ChannelStatement ==
  ASSUME Inv, NEW t \in Tasks, NEW op \in {"send", "recv"}, AtStmt(t, op)
  PROVE  UsesChannels(prog) /\ (op = "send" /\ ~SendsHandles(prog) => Named(t) = None)
<1>1. task[t] \in Task /\ prog \in [Bodies -> Seq(Stmt)]
  BY Constants DEF Inv, TypeOK
<1>2. task[t].fn \in Bodies
  BY <1>1 DEF Task
<1>3. task[t].pc \in DOMAIN prog[task[t].fn] /\ Current(t).op = op
  BY AtStatement
<1>4. QED
  BY <1>2, <1>3 DEF UsesChannels, SendsHandles, Current, Named

\* The threads that await: what comes before one that comes before comes before.
LEMMA AwaitGoes ==
  ASSUME Going, NEW t \in Tasks, AwaitTake(t) \/ AwaitGet(t)
  PROVE  Nested' /\ Answered'
<1>1. task[t] \in Task /\ task \in [Tasks -> Task] /\ Inv
  BY DEF Going, Inv, TypeOK
<1>2. CASE AwaitTake(t)
  <2>1. AtStmt(t, "await")
    BY <1>2 DEF AwaitTake
  <2>2. PICK f \in Fns : f = Current(t).name
    <3>1. Current(t) \in Stmt /\ Current(t).op = "await"
      BY <1>1, <2>1, AtStatement
    <3>2. QED
      BY <3>1 DEF Stmt
  <2>3. PICK id : id = task[t].env.handle[f]
    OBVIOUS
  <2>4. CASE id # None /\ task' = [task EXCEPT ![t] = Wait(@, "await", id)]
             /\ UNCHANGED <<prog, seq, outcome, chans>>
    <3>1. id \in Nat
      BY <1>1, <2>3, <2>4 DEF Task, Env, Handle
    <3>2. PICK th : th = Wait(task[t], "await", id)
      OBVIOUS
    <3>3. th.at = "await" /\ th.waits = id /\ th.env = task[t].env
      BY <1>1, <3>1, <3>2, Waiting
    <3>4. task' = [task EXCEPT ![t] = th]
      BY <1>1, <2>4, <3>2
    <3>5. ASSUME NEW pos, Lined(pos) PROVE Fits(pos, t, th, outcome'[t])
      <4>1. Before(pos, t)
        BY <3>5 DEF Lined
      <4>2. pos[id] < pos[t]
        BY <2>3, <2>4, <4>1 DEF Before, Below
      <4>3. QED
        BY <2>4, <3>3, <4>1, <4>2 DEF Before, Fits
    <3>6. ~SendsHandles(prog) => Mute(chans')
      BY <2>4 DEF Going, Nested
    <3>7. QED
      BY <2>4, <3>3, <3>4, <3>5, <3>6, ThreadGoes
  <2>5. QED
    BY <1>2, <2>2, <2>3, <2>4, FailGoes DEF AwaitTake
<1>3. CASE AwaitGet(t)
  <2>1. PICK id : id = task[t].waits
    OBVIOUS
  <2>2. id \in 1 .. seq /\ id \in Tasks /\ 1 .. seq \subseteq Tasks
    <3>1. WaitsFor(task[t]) /\ task[t].at = "await" /\ seq \in 0 .. MaxTasks
      BY <1>1, <1>3 DEF AwaitGet, Inv, TypeOK
    <3>2. id \in 1 .. seq
      BY <2>1, <3>1 DEF WaitsFor
    <3>3. QED
      BY <3>1, <3>2, Constants
  <2>3. PICK h : h = Given(outcome[id][1])
    OBVIOUS
  <2>4. outcome[id] # <<>> /\ h \in Handle
    <3>1. outcome[id] # <<>> /\ outcome[id][1] \in Value
      BY <1>1, <1>3, <2>1, <2>2 DEF AwaitGet, Inv, TypeOK
    <3>2. QED
      BY <2>3, <3>1 DEF Given, Value, Handle
  <2>5. PICK th : th = Advance(Bind(task[t], Current(t).with, h))
    OBVIOUS
  <2>6. /\ th.at = "run"
        /\ \A f \in Fns : th.env.handle[f] = task[t].env.handle[f] \/ th.env.handle[f] = h
    <3>1. Current(t).with \in {None} \cup Fns
      BY <1>1, <1>3, Standing DEF AwaitGet
    <3>2. PICK bound : bound = Bind(task[t], Current(t).with, h)
      OBVIOUS
    <3>3. /\ bound \in Task
          /\ \A f \in Fns : \/ bound.env.handle[f] = task[t].env.handle[f]
                            \/ bound.env.handle[f] = h
      BY <1>1, <2>4, <3>1, <3>2, Binding
    <3>4. th.at = "run" /\ th.env = bound.env
      BY <2>5, <3>2, <3>3, Moving
    <3>5. QED
      BY <3>3, <3>4
  <2>7. task' = [task EXCEPT ![t] = th] /\ UNCHANGED <<prog, seq, outcome, chans>>
    BY <1>1, <1>3, <2>1, <2>3, <2>5 DEF AwaitGet
  <2>8. ASSUME NEW pos \in [Tasks -> Nat], Lined(pos) PROVE Fits(pos, t, th, outcome'[t])
    <3>1. Before(pos, t) /\ Before(pos, id)
      BY <2>2, <2>8 DEF Lined
    <3>2. pos[id] < pos[t]
      BY <1>3, <2>1, <3>1 DEF Before, AwaitGet
    <3>3. Below(pos, id, h)
      BY <2>3, <2>4, <3>1 DEF Before
    <3>4. Below(pos, t, h)
      <4>1. SUFFICES ASSUME h # None PROVE h \in 1 .. seq /\ pos[h] < pos[t]
        BY DEF Below
      <4>2. h \in 1 .. seq /\ pos[h] < pos[id]
        BY <3>3, <4>1 DEF Below
      <4>3. pos[h] \in Nat /\ pos[id] \in Nat /\ pos[t] \in Nat
        BY <2>2, <4>2
      <4>4. QED
        BY <3>2, <4>2, <4>3
    <3>5. \A f \in Fns : Below(pos, t, th.env.handle[f])
      <4>1. \A f \in Fns : Below(pos, t, task[t].env.handle[f])
        BY <3>1 DEF Before
      <4>2. QED
        BY <2>6, <3>4, <4>1
    <3>6. QED
      BY <2>6, <2>7, <3>1, <3>5 DEF Before, Fits
  <2>9. ~SendsHandles(prog) => Mute(chans')
    BY <2>7 DEF Going, Nested
  <2>10. QED
    BY <2>6, <2>7, <2>8, <2>9, ThreadGoes
<1>4. QED
  BY <1>2, <1>3

\* What is left waiting of channels without handles holds none.
LEMMA MuteLeft ==
  ASSUME NEW queues \in Seq(Seq(Message)), LeavesWaiting(queues), Mute(queues)
  PROVE  Mute(chans')
<1>1. /\ DOMAIN chans' = DOMAIN queues
      /\ \A c \in DOMAIN queues : chans'[c] = queues[c] \/ chans'[c] = <<>>
  BY Leaving
<1>2. QED
  BY <1>1 DEF Mute

\* A channel that is made, and a message that is sent.
LEMMA ChannelGoes ==
  ASSUME Going, NEW t \in Tasks, Channel(t)
  PROVE  Nested' /\ Answered'
<1>1. task[t] \in Task /\ task \in [Tasks -> Task] /\ Inv
  BY DEF Going, Inv, TypeOK
<1>2. PICK c, id : task' = [task EXCEPT ![t] = Advance([@ EXCEPT !.env.sender[c] = id])]
  BY DEF Channel
<1>3. PICK th : th = Advance([task[t] EXCEPT !.env.sender[c] = id])
  OBVIOUS
<1>4. th.at = "run" /\ th.env.handle = task[t].env.handle
  <2>1. PICK bound : bound = [task[t] EXCEPT !.env.sender[c] = id]
    OBVIOUS
  <2>2. DOMAIN bound = DOMAIN task[t] /\ bound.env.handle = task[t].env.handle
    BY <1>1, <2>1 DEF Task, Env
  <2>3. th.at = "run" /\ th.env = bound.env
    BY <1>1, <1>3, <2>1, <2>2 DEF Advance, Task
  <2>4. QED
    BY <2>2, <2>3
<1>5. task' = [task EXCEPT ![t] = th] /\ UNCHANGED <<prog, seq, outcome>>
  BY <1>1, <1>2, <1>3 DEF Channel
<1>6. Mute(chans) => Mute(chans')
  <2>1. SUFFICES ASSUME Mute(chans) PROVE Mute(chans')
    OBVIOUS
  <2>2. PICK queues : queues = Append(chans, <<>>)
    OBVIOUS
  <2>3. /\ queues \in Seq(Seq(Message)) /\ DOMAIN queues = DOMAIN chans \cup {Len(chans) + 1}
        /\ queues[Len(chans) + 1] = <<>> /\ \A d \in DOMAIN chans : queues[d] = chans[d]
    BY <1>1, <2>2, Histories, AppendProperties
  <2>4. Mute(queues) /\ LeavesWaiting(queues)
    BY <2>1, <2>2, <2>3 DEF Mute, Channel
  <2>5. QED
    BY <2>3, <2>4, MuteLeft
<1>7. QED
  BY <1>4, <1>5, <1>6, QuietGoes DEF Going, Nested

LEMMA SendGoes ==
  ASSUME Going, NEW t \in Tasks, Send(t)
  PROVE  Nested' /\ Answered'
<1>1. task[t] \in Task /\ task \in [Tasks -> Task] /\ Inv
  BY DEF Going, Inv, TypeOK
<1>2. AtStmt(t, "send")
  BY DEF Send
<1>3. PICK id, m : /\ id = task[t].env.sender[Current(t).name]
                   /\ m = <<t, task[t].pc, Named(t)>>
  OBVIOUS
<1>4. CASE /\ id # None
           /\ chans' = [chans EXCEPT ![id] = Append(@, m)]
           /\ task' = [task EXCEPT ![t] = Advance(@)]
           /\ UNCHANGED <<prog, seq, outcome>>
  <2>1. PICK th : th = Advance(task[t])
    OBVIOUS
  <2>2. th.at = "run" /\ th.env = task[t].env /\ task' = [task EXCEPT ![t] = th]
    BY <1>1, <1>4, <2>1, Moving
  <2>3. ~SendsHandles(prog) => Mute(chans')
    <3>1. SUFFICES ASSUME ~SendsHandles(prog) PROVE Mute(chans')
      OBVIOUS
    <3>2. Mute(chans) /\ m[3] = None
      BY <1>1, <1>2, <1>3, <3>1, ChannelStatement DEF Going, Nested
    <3>3. Current(t).name \in Channels /\ m \in Message
      BY <1>1, <1>2, <1>3, AtStatement DEF Stmt, Message
    <3>4. id \in DOMAIN chans
      BY <1>1, <1>3, <1>4, <3>3 DEF Inv, Known
    <3>5. chans[id] \in Seq(Message)
      BY <1>1, <3>4, Histories
    <3>6. PICK waiting : waiting = Append(chans[id], m)
      OBVIOUS
    <3>7. \A n \in DOMAIN waiting : waiting[n][3] = None
      <4>1. \A n \in DOMAIN chans[id] : chans[id][n][3] = None
        BY <3>2, <3>4 DEF Mute
      <4>2. \A n \in DOMAIN waiting : 
               (n \in DOMAIN chans[id] /\ waiting[n] = chans[id][n]) \/ waiting[n] = m
        BY <3>3, <3>5, <3>6, AppendProperties
      <4>3. QED
        BY <3>2, <4>1, <4>2
    <3>8. /\ DOMAIN chans' = DOMAIN chans /\ chans'[id] = waiting
          /\ \A c \in DOMAIN chans : c # id => chans'[c] = chans[c]
      BY <1>4, <3>4, <3>6
    <3>9. QED
      BY <3>2, <3>7, <3>8 DEF Mute
  <2>4. QED
    BY <1>4, <2>2, <2>3, QuietGoes
<1>5. QED
  BY <1>3, <1>4, FailGoes DEF Send

\* What is received binds no handle.
LEMMA RecvGoes ==
  ASSUME Going, NEW t \in Tasks, RecvFind(t) \/ RecvLock(t) \/ RecvGet(t)
  PROVE  Nested' /\ Answered'
<1>1. task[t] \in Task /\ task \in [Tasks -> Task] /\ Inv
  BY DEF Going, Inv, TypeOK
<1>2. CASE RecvFind(t) /\ ~Fail(t)
  <2>1. AtStmt(t, "recv")
    BY <1>2 DEF RecvFind
  <2>2. PICK what : task' = [task EXCEPT ![t] = Wait(@, "lock", what)]
    BY <1>2 DEF RecvFind
  <2>3. PICK th : th = Wait(task[t], "lock", what)
    OBVIOUS
  <2>4. th.at = "lock" /\ th.env = task[t].env
    BY <1>1, <2>3 DEF Wait, Task
  <2>5. task' = [task EXCEPT ![t] = th] /\ UNCHANGED <<prog, seq, outcome, chans>>
    BY <1>1, <1>2, <2>2, <2>3 DEF RecvFind
  <2>6. UsesChannels(prog) /\ (~SendsHandles(prog) => Mute(chans'))
    BY <1>1, <2>1, <2>5, ChannelStatement DEF Going, Nested
  <2>7. QED
    BY <2>4, <2>5, <2>6, QuietGoes
<1>3. CASE RecvLock(t)
  <2>1. task[t].at = "lock" /\ UsesChannels(prog)
    BY <1>3 DEF RecvLock, Going, Answered
  <2>2. PICK th : th = [task[t] EXCEPT !.at = "recv"]
    OBVIOUS
  <2>3. th.at = "recv" /\ th.env = task[t].env
    BY <1>1, <2>2 DEF Task
  <2>4. task' = [task EXCEPT ![t] = th] /\ UNCHANGED <<prog, seq, outcome, chans>>
    BY <1>1, <1>3, <2>2 DEF RecvLock
  <2>5. ~SendsHandles(prog) => Mute(chans')
    BY <2>4 DEF Going, Nested
  <2>6. QED
    BY <2>1, <2>3, <2>4, <2>5, QuietGoes
<1>4. CASE RecvGet(t)
  <2>1. PICK id : id = task[t].waits
    OBVIOUS
  <2>2. id \in DOMAIN chans /\ chans[id] \in Seq(Message) /\ chans \in Seq(Seq(Message))
    <3>1. WaitsFor(task[t]) /\ task[t].at = "recv"
      BY <1>1, <1>4 DEF RecvGet, Inv, TypeOK
    <3>2. QED
      BY <1>1, <2>1, <3>1, Histories DEF WaitsFor
  <2>3. Current(t).with \in {None} \cup Fns
    BY <1>1, <1>4, Standing DEF RecvGet
  <2>4. PICK h \in Handle :
          /\ ~SendsHandles(prog) => h = None /\ Mute(chans')
          /\ task' = [task EXCEPT ![t] = Advance(Bind(@, Current(t).with, h))]
    <3>1. CASE /\ task' = [task EXCEPT ![t] = Advance(Bind(@, Current(t).with, None))]
               /\ UNCHANGED chans
      BY <3>1 DEF Handle, Going, Nested
    <3>2. CASE /\ chans[id] # <<>>
               /\ task' = [task EXCEPT ![t] = Advance(Bind(@, Current(t).with, Head(chans[id])[3]))]
               /\ LeavesWaiting([chans EXCEPT ![id] = Tail(@)])
      <4>1. PICK h, rest : h = Head(chans[id])[3] /\ rest = Tail(chans[id])
        OBVIOUS
      <4>2. h \in Handle /\ rest \in Seq(Message)
        <5>1. Head(chans[id]) \in Message /\ Tail(chans[id]) \in Seq(Message)
          BY <2>2, <3>2, HeadTailProperties
        <5>2. QED
          BY <4>1, <5>1 DEF Message
      <4>3. ASSUME ~SendsHandles(prog) PROVE h = None /\ Mute(chans')
        <5>1. Mute(chans)
          BY <4>3 DEF Going, Nested
        <5>2. \A n \in DOMAIN chans[id] : chans[id][n][3] = None
          BY <2>2, <5>1 DEF Mute
        <5>3. 1 \in DOMAIN chans[id] /\ Head(chans[id]) = chans[id][1]
          BY <2>2, <3>2
        <5>4. \A n \in DOMAIN rest : n + 1 \in DOMAIN chans[id] /\ rest[n] = chans[id][n + 1]
          BY <2>2, <3>2, <4>1
        <5>5. PICK queues : queues = [chans EXCEPT ![id] = rest]
          OBVIOUS
        <5>6. /\ queues \in Seq(Seq(Message)) /\ DOMAIN queues = DOMAIN chans
              /\ queues[id] = rest /\ \A c \in DOMAIN chans : c # id => queues[c] = chans[c]
          BY <2>2, <4>2, <5>5, OneReplaced
        <5>7. Mute(queues)
          <6>1. \A n \in DOMAIN rest : rest[n][3] = None
            BY <5>2, <5>4
          <6>2. \A c \in DOMAIN chans : \A n \in DOMAIN chans[c] : chans[c][n][3] = None
            BY <5>1 DEF Mute
          <6>3. ASSUME NEW c \in DOMAIN queues, NEW n \in DOMAIN queues[c]
                PROVE  queues[c][n][3] = None
            <7>1. CASE c = id
              BY <5>6, <6>1, <7>1
            <7>2. CASE c # id
              BY <5>6, <6>2, <7>2
            <7>3. QED
              BY <7>1, <7>2
          <6>4. QED
            BY <6>3 DEF Mute
        <5>8. Mute(chans')
          BY <3>2, <4>1, <5>5, <5>6, <5>7, MuteLeft
        <5>9. QED
          BY <4>1, <5>2, <5>3, <5>8
      <4>4. QED
        BY <3>2, <4>1, <4>2, <4>3
    <3>3. QED
      BY <1>4, <2>1, <3>1, <3>2 DEF RecvGet
  <2>5. PICK th : th = Advance(Bind(task[t], Current(t).with, h))
    OBVIOUS
  <2>6. /\ th.at = "run"
        /\ \A f \in Fns : th.env.handle[f] = task[t].env.handle[f] \/ th.env.handle[f] = h
    BY <1>1, <2>3, <2>5, Binding, Moving
  <2>7. task' = [task EXCEPT ![t] = th] /\ UNCHANGED <<prog, seq, outcome>>
    BY <1>1, <1>4, <2>4, <2>5 DEF RecvGet
  <2>8. ASSUME ~SendsHandles(prog), NEW pos, Lined(pos) PROVE Fits(pos, t, th, outcome'[t])
    <3>1. Before(pos, t)
      BY <2>8 DEF Lined
    <3>2. h = None
      BY <2>4, <2>8
    <3>3. \A f \in Fns : Below(pos, t, th.env.handle[f])
      BY <2>6, <3>1, <3>2 DEF Before, Below
    <3>4. QED
      BY <2>6, <2>7, <3>1, <3>3 DEF Before, Fits
  <2>9. QED
    BY <2>4, <2>6, <2>7, <2>8, ThreadGoes
<1>5. QED
  BY <1>2, <1>3, <1>4, FailGoes

\* A new task goes right before its spawner: after all that the spawner could
\* name, which is what the new task can name.
LEMMA SpawnGoes ==
  ASSUME Going, NEW t \in Tasks, Spawn(t)
  PROVE  Nested' /\ Answered'
<1>1. AtStmt(t, "spawn") /\ seq < MaxTasks /\ Inv
  BY DEF Spawn, Going
<1>2. task[t] \in Task /\ task \in [Tasks -> Task] /\ t \in 0 .. seq /\ seq \in Nat
  BY <1>1, AtStatement, Constants DEF Inv, TypeOK
<1>3. PICK id : id = seq + 1
  OBVIOUS
<1>4. /\ id \in Tasks /\ id \in Nat /\ id # t /\ 1 .. seq \subseteq Tasks /\ id \notin 1 .. seq
      /\ 1 .. id = (1 .. seq) \cup {id}
  BY <1>1, <1>2, <1>3, Constants
<1>5. PICK f \in Fns : f = Current(t).name
  <2>1. Current(t) \in Stmt /\ Current(t).op = "spawn"
    BY <1>1, AtStatement
  <2>2. QED
    BY <2>1 DEF Stmt
<1>6. PICK new : new = Thread(f, task[t].env)
  OBVIOUS
<1>7. new.at = "run" /\ new.env = task[t].env
  BY <1>6 DEF Thread
<1>8. PICK th : th = Advance([task[t] EXCEPT !.env.handle[f] = id])
  OBVIOUS
<1>9. th.at = "run" /\ th.env.handle = [task[t].env.handle EXCEPT ![f] = id]
  <2>1. PICK bound : bound = [task[t] EXCEPT !.env.handle[f] = id]
    OBVIOUS
  <2>2. DOMAIN bound = DOMAIN task[t] /\ bound.env.handle = [task[t].env.handle EXCEPT ![f] = id]
    BY <1>2, <2>1 DEF Task, Env
  <2>3. th.at = "run" /\ th.env = bound.env
    BY <1>2, <1>8, <2>1, <2>2 DEF Advance, Task
  <2>4. QED
    BY <2>2, <2>3
<1>10. /\ task'[id] = new /\ task'[t] = th /\ \A u \in Tasks \ {id, t} : task'[u] = task[u]
       /\ seq' = id /\ UNCHANGED <<prog, outcome, chans>>
  <2>1. task' = [task EXCEPT ![id] = Thread(f, task[t].env),
                             ![t] = Advance([@ EXCEPT !.env.handle[f] = id])]
    BY <1>3, <1>5 DEF Spawn, ChildEnv
  <2>2. QED
    BY <1>2, <1>3, <1>4, <1>6, <1>8, <2>1 DEF Spawn
<1>11. ASSUME ~SendsHandles(prog), NEW pos \in [Tasks -> Nat], Lined(pos)
       PROVE  \E new_pos \in [Tasks -> Nat] : Lined(new_pos)'
  <2>1. PICK new_pos \in [Tasks -> Nat] :
          new_pos = [u \in Tasks |-> IF u = id THEN 2 * pos[t] ELSE 2 * pos[u] + 1]
    <3>1. \A u \in Tasks : 2 * pos[t] \in Nat /\ 2 * pos[u] + 1 \in Nat
      BY <1>11
    <3>2. QED
      BY <3>1
  <2> DEFINE After(u, h) == h # None => h \in 1 .. id /\ new_pos[h] < new_pos[u]
  <2>2. /\ \A u \in Tasks \ {id} : \A h \in 1 .. seq : pos[h] < pos[u] => new_pos[h] < new_pos[u]
        /\ \A u \in Tasks \ {id} : \A h : Below(pos, u, h) => After(u, h)
    <3>1. ASSUME NEW u \in Tasks \ {id}, NEW h \in 1 .. seq, pos[h] < pos[u]
          PROVE  new_pos[h] < new_pos[u]
      <4>1. h \in Tasks /\ h # id
        BY <1>4
      <4>2. new_pos[h] = 2 * pos[h] + 1 /\ new_pos[u] = 2 * pos[u] + 1
        BY <2>1, <4>1
      <4>3. pos[h] \in Nat /\ pos[u] \in Nat
        BY <4>1
      <4>4. QED
        BY <3>1, <4>2, <4>3
    <3>2. QED
      BY <1>4, <3>1 DEF Below
  <2>3. \A h : Below(pos, t, h) => After(id, h)
    <3>1. ASSUME NEW h \in 1 .. seq, pos[h] < pos[t]
          PROVE  new_pos[h] < new_pos[id]
      <4>1. h \in Tasks /\ h # id
        BY <1>4
      <4>2. new_pos[h] = 2 * pos[h] + 1 /\ new_pos[id] = 2 * pos[t]
        BY <1>4, <2>1, <4>1
      <4>3. pos[h] \in Nat /\ pos[t] \in Nat
        BY <4>1
      <4>4. QED
        BY <3>1, <4>2, <4>3
    <3>2. QED
      BY <1>4, <3>1 DEF Below
  <2>4. After(t, id)
    <3>1. new_pos[id] = 2 * pos[t] /\ new_pos[t] = 2 * pos[t] + 1 /\ pos[t] \in Nat
      BY <1>4, <2>1
    <3>2. QED
      BY <1>4, <3>1 DEF Below
  <2> HIDE DEF After
  <2>5. ASSUME NEW u \in Tasks
        PROVE  /\ \A g \in Fns : After(u, task'[u].env.handle[g])
               /\ task'[u].at = "await" => new_pos[task'[u].waits] < new_pos[u]
               /\ outcome'[u] # <<>> => After(u, Given(outcome'[u][1]))
    <3>1. CASE u = id
      <4>1. outcome'[id] = <<>>
        <5>1. task[id].at = "absent"
          BY <1>1, <1>3, <1>4, <1>2 DEF Inv, TypeOK
        <5>2. QED
          BY <1>1, <1>4, <1>10, <5>1 DEF Inv, Answering
      <4>2. \A g \in Fns : Below(pos, t, new.env.handle[g])
        BY <1>7, <1>11 DEF Lined, Before
      <4>3. QED
        BY <1>7, <1>10, <2>3, <3>1, <4>1, <4>2
    <3>2. CASE u = t
      <4>1. ASSUME NEW g \in Fns PROVE After(t, th.env.handle[g])
        <5>1. CASE g = f
          <6>1. th.env.handle[g] = id
            BY <1>2, <1>9, <5>1 DEF Task, Env
          <6>2. QED
            BY <2>4, <6>1
        <5>2. CASE g # f
          <6>1. th.env.handle[g] = task[t].env.handle[g]
            BY <1>2, <1>9, <5>2 DEF Task, Env
          <6>2. Below(pos, t, th.env.handle[g])
            BY <1>11, <6>1 DEF Lined, Before
          <6>3. QED
            BY <1>4, <2>2, <6>2
        <5>3. QED
          BY <5>1, <5>2
      <4>2. outcome'[t] = <<>>
        BY <1>1, <1>2, <1>10 DEF Inv, Answering, AtStmt
      <4>3. QED
        BY <1>9, <1>10, <3>2, <4>1, <4>2
    <3>3. CASE u \notin {id, t}
      <4>1. task'[u] = task[u] /\ Before(pos, u) /\ outcome'[u] = outcome[u]
        BY <1>10, <1>11, <3>3 DEF Lined
      <4>2. task[u].at = "await" => task[u].waits \in 1 .. seq
        BY <1>1 DEF Inv, TypeOK, WaitsFor
      <4>3. task'[u].at = "await" => new_pos[task'[u].waits] < new_pos[u]
        BY <2>2, <3>3, <4>1, <4>2 DEF Before
      <4>4. \A g \in Fns : After(u, task'[u].env.handle[g])
        BY <2>2, <3>3, <4>1 DEF Before
      <4>5. outcome'[u] # <<>> => After(u, Given(outcome'[u][1]))
        BY <2>2, <3>3, <4>1 DEF Before
      <4>6. QED
        BY <4>3, <4>4, <4>5
    <3>4. QED
      BY <3>1, <3>2, <3>3
  <2>6. ASSUME NEW u \in Tasks PROVE Before(new_pos, u)'
    BY <1>10, <2>5 DEF Before, Below, Given, After
  <2>7. QED
    BY <2>6 DEF Lined
<1>12. SendsHandles(prog)' = SendsHandles(prog) /\ UsesChannels(prog)' = UsesChannels(prog)
  BY <1>10 DEF SendsHandles, UsesChannels
<1>13. Nested'
  BY <1>10, <1>11, <1>12 DEF Going, Nested, Mute
<1>14. Answered'
  BY <1>7, <1>9, <1>10, <1>12 DEF Going, Answered
<1>15. QED
  BY <1>13, <1>14

LEMMA GoingStep == Going /\ [Next]_vars => Going'
<1> SUFFICES ASSUME Going, [Next]_vars PROVE Nested' /\ Answered'
  BY StepInv DEF Going
<1>1. CASE UNCHANGED vars
  BY <1>1 DEF vars, Going, Nested, Mute, Lined, Before, Below, Answered, UsesChannels,
              SendsHandles
<1>2. ASSUME NEW t \in Tasks, Step(t) PROVE Nested' /\ Answered'
  <2>1. CASE FallOff(t)
    BY <1>2, <2>1, FailGoes DEF FallOff, Fail
  <2>2. QED
    BY <1>2, <2>1, ReturnGoes, SpawnGoes, AwaitGoes, ChannelGoes, SendGoes, RecvGoes DEF Step
<1>3. QED
  BY <1>1, <1>2 DEF Next

\* Of some tasks in a line one comes first.
LEMMA FirstInLine ==
  ASSUME NEW ts, ts # {}, NEW pos \in [ts -> Nat]
  PROVE  \E t \in ts : \A u \in ts : ~(pos[u] < pos[t])
<1> DEFINE Lengths == {1 .. pos[t] : t \in ts}
           R == StrictSubsetOrdering(Nat)
<1>1. Lengths # {} /\ Lengths \subseteq FiniteSubsetsOf(Nat)
  <2>1. \A t \in ts : 1 .. pos[t] \in SUBSET Nat /\ IsFiniteSet(1 .. pos[t])
    BY FS_Interval
  <2>2. QED
    BY <2>1 DEF FiniteSubsetsOf
<1>2. IsWellFoundedOn(R, FiniteSubsetsOf(Nat))
  BY FS_StrictSubsetOrderingWellFounded
<1> HIDE DEF R, Lengths
<1>3. PICK x \in Lengths : \A y \in Lengths : ~ (<<y, x>> \in R)
  BY <1>1, <1>2, WFMin
<1>4. PICK t \in ts : x = 1 .. pos[t]
  BY DEF Lengths
<1>5. ASSUME NEW u \in ts, pos[u] < pos[t] PROVE FALSE
  <2>1. 1 .. pos[u] \in Lengths
    BY DEF Lengths
  <2>2. /\ 1 .. pos[u] \subseteq 1 .. pos[t] /\ 1 .. pos[u] # 1 .. pos[t]
        /\ 1 .. pos[u] \subseteq Nat /\ 1 .. pos[t] \subseteq Nat
    <3>1. pos[u] \in Nat /\ pos[t] \in Nat
      OBVIOUS
    <3>2. pos[t] \in 1 .. pos[t] /\ pos[t] \notin 1 .. pos[u]
      BY <1>5, <3>1
    <3>3. QED
      BY <1>5, <3>1, <3>2
  <2>3. <<1 .. pos[u], 1 .. pos[t]>> \in R
    BY <2>2 DEF R, StrictSubsetOrdering
  <2>4. QED
    BY <1>3, <1>4, <2>1, <2>3
<1>6. QED
  BY <1>5

\* However tasks spawn each other, hand their handles down and return them, no
\* circle of them waits for each other's results, over whatever channels they
\* speak, as long as none sends a handle; and a program without channels never
\* stands still before its main thread has ended: a thread runs or has a result
\* to fetch (await and spawn_task in call_builtin and the closure a spawned
\* function gets, interpreter.rs).  The safety half of AwaitsEnd.
THEOREM NobodyAwaitsInACircle ==
    Spec => []((~SendsHandles(prog) => NoCircle) /\ NoStandstill)
<1>1. Spec => []Going
  BY GoingInit, GoingStep, PTL DEF Spec
<1>2. ASSUME Going, ~SendsHandles(prog), NEW ts \in SUBSET Tasks, ts # {}
      PROVE  \E t \in ts : ~(task[t].at = "await" /\ task[t].waits \in ts)
  <2>1. PICK pos \in [Tasks -> Nat] : Lined(pos)
    BY <1>2 DEF Going, Nested
  <2>2. PICK line : line = [t \in ts |-> pos[t]]
    OBVIOUS
  <2>3. PICK t \in ts : \A u \in ts : ~(line[u] < line[t])
    BY <1>2, <2>1, <2>2, FirstInLine
  <2>4. task[t].at = "await" /\ task[t].waits \in ts => line[task[t].waits] < line[t]
    BY <2>1, <2>2 DEF Lined, Before
  <2>5. QED
    BY <2>3, <2>4
<1>3. ASSUME Going, ~UsesChannels(prog), ~Over
      PROVE  \E t \in Tasks : \/ task[t].at = "run"
                              \/ task[t].at = "await" /\ outcome[task[t].waits] # <<>>
  <2>1. PICK ts \in SUBSET Tasks : ts = {t \in Tasks : task[t].at \notin {"absent", "done"}}
    OBVIOUS
  <2>2. Main \in ts
    <3>1. seq \in Nat /\ Main \in Tasks /\ ~(Main > seq)
      BY <1>3, Constants DEF Going, Inv, TypeOK, Main
    <3>2. task[Main].at # "absent"
      BY <1>3, <3>1 DEF Going, Inv, TypeOK
    <3>3. QED
      BY <1>3, <2>1, <3>1, <3>2 DEF Over
  <2>3. PICK t \in ts : ~(task[t].at = "await" /\ task[t].waits \in ts)
    <3>1. ~SendsHandles(prog)
      BY <1>3 DEF SendsHandles, UsesChannels
    <3>2. QED
      BY <1>2, <1>3, <2>2, <3>1
  <2>4. task[t].at \in {"run", "await"}
    <3>1. task[t] \in Task /\ task[t].at \notin {"lock", "recv"}
      BY <1>3, <2>1 DEF Going, Inv, TypeOK, Answered
    <3>2. task[t].at \in {"absent", "run", "await", "lock", "recv", "done"}
      BY <3>1 DEF Task
    <3>3. QED
      BY <2>1, <3>1, <3>2
  <2>5. CASE task[t].at = "await"
    <3>1. PICK u : u = task[t].waits
      OBVIOUS
    <3>2. u \in 1 .. seq /\ u \in Tasks /\ ~(u > seq)
      <4>1. WaitsFor(task[t]) /\ seq \in 0 .. MaxTasks
        BY <1>3, <2>1 DEF Going, Inv, TypeOK
      <4>2. u \in 1 .. seq
        BY <2>5, <3>1, <4>1 DEF WaitsFor
      <4>3. QED
        BY <4>1, <4>2, Constants
    <3>3. task[u].at # "absent"
      BY <1>3, <3>2 DEF Going, Inv, TypeOK
    <3>4. task[u].at = "done"
      BY <2>1, <2>3, <2>5, <3>1, <3>2, <3>3
    <3>5. outcome[u] # <<>>
      BY <1>3, <3>2, <3>4 DEF Going, Answered
    <3>6. QED
      BY <2>5, <3>1, <3>5
  <2>6. QED
    BY <2>4, <2>5
<1>4. Going => (~SendsHandles(prog) => NoCircle) /\ NoStandstill
  BY <1>2, <1>3 DEF NoCircle, NoStandstill
<1>5. QED
  BY <1>1, <1>4, PTL
=============================================================================
