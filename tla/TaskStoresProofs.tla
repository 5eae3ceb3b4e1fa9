------------------------- MODULE TaskStoresProofs -------------------------
(***************************************************************************)
(* The distributed stores, for any number of servers, callers, keys and    *)
(* tasks, any interleaving and any faults: the records are a TaskTable, a  *)
(* reference names a stored task, Postgres keeps an assigned node, register *)
(* keeps its word, and no watcher hears of one submission twice.  Without  *)
(* faults, each hears of it once.                                          *)
(*                                                                         *)
(* None of that is inductive without what each call may rely on where it   *)
(* is (Good): most of all, a call about to write back holds a copy whose   *)
(* key is still the one stored, since no step changes a key (TableKept).   *)
(***************************************************************************)
EXTENDS TaskStores, TLAPS

Asked(q) ==
    /\ q.op \in {"set_status", "assign_node", "cancel"}
    /\ q.op = "set_status" => q.arg \in Statuses
    /\ q.op = "assign_node" => q.arg \in Nodes

Referable(i) == Stored(i) \/ i \in lost

Good(q) ==
    /\ q.at \in {"lookup", "fetch", "create", "index", "children", "listing"}
       => q.key \in Keys /\ q.op = "register"
    /\ q.at \in {"fetch", "index", "children", "listing", "publish", "tell", "read", "write"}
       => q.id \in Ids
    /\ q.at \in {"index", "children", "listing", "publish", "tell"} => Referable(q.id)
    /\ q.at \in {"read", "write"} => Asked(q)
    /\ q.at = "write" => q.copy \in Task /\ Stored(q.id) /\ q.copy.key = tasks[q.id].key

\* Ids are given out in order, so the next one is free.
Fresh == \A i \in Ids : Stored(i) => i <= minted

Inv == TypeOK /\ Fresh /\ ReferencesAreStored /\ \A c \in Callers : Good(call[c])

\* What every step does to the records.
TableKept ==
    /\ \A i \in Ids : Stored(i) => Stored(i)' /\ tasks'[i].key = tasks[i].key
    /\ lost \subseteq lost'

-----------------------------------------------------------------------------
LEMMA Constants ==
    /\ MaxTasks \in Nat /\ MaxCalls \in Nat /\ MaxFaults \in Nat
    /\ ServerOf \in [Callers -> Servers]
    /\ None \notin Keys /\ None \notin Nodes /\ None \notin Ids /\ None \notin Task
  BY StoresAssumption

\* A call with other values in the fields that steps set.
Fields(q, at, id, copy, made, hit) ==
    [op |-> q.op, at |-> at, key |-> q.key, id |-> id, copy |-> copy, arg |-> q.arg,
     known |-> q.known, made |-> made, hit |-> hit]

LEMMA FieldsTyped ==
  ASSUME NEW q \in Call, NEW at \in Points, NEW id \in Ids \cup {None},
         NEW copy \in Task \cup {None}, NEW made \in BOOLEAN, NEW hit \in BOOLEAN
  PROVE  Fields(q, at, id, copy, made, hit) \in Call
  BY DEF Fields, Call

LEMMA SetAt ==
  ASSUME NEW q \in Call, NEW at
  PROVE  [q EXCEPT !.at = at] = Fields(q, at, q.id, q.copy, q.made, q.hit)
  BY DEF Fields, Call

LEMMA SetId ==
  ASSUME NEW q \in Call, NEW id
  PROVE  [q EXCEPT !.id = id] = Fields(q, q.at, id, q.copy, q.made, q.hit)
  BY DEF Fields, Call

LEMMA SetCopy ==
  ASSUME NEW q \in Call, NEW copy
  PROVE  [q EXCEPT !.copy = copy] = Fields(q, q.at, q.id, copy, q.made, q.hit)
  BY DEF Fields, Call

LEMMA SetMade ==
  ASSUME NEW q \in Call, NEW made
  PROVE  [q EXCEPT !.made = made] = Fields(q, q.at, q.id, q.copy, made, q.hit)
  BY DEF Fields, Call

LEMMA SetHit ==
  ASSUME NEW q \in Call, NEW hit
  PROVE  [q EXCEPT !.hit = hit] = Fields(q, q.at, q.id, q.copy, q.made, hit)
  BY DEF Fields, Call

LEMMA FieldTypes ==
  ASSUME NEW q \in Call
  PROVE  /\ q.at \in Points /\ q.id \in Ids \cup {None} /\ q.copy \in Task \cup {None}
         /\ q.made \in BOOLEAN /\ q.hit \in BOOLEAN
  BY DEF Call

\* A call with another place: idle, or the same call there.
LEMMA Moved ==
  ASSUME NEW q \in Call, NEW point \in Points
  PROVE  /\ At(q, point) \in Call
         /\ \/ At(q, point) = IdleCall
            \/ At(q, point) = Fields(q, point, q.id, q.copy, q.made, q.hit)
<1>1. IdleCall \in Call
  BY DEF IdleCall, NewCall, Call, Points
<1>2. Fields(q, point, q.id, q.copy, q.made, q.hit) \in Call
  BY FieldTypes, FieldsTyped
<1>3. QED
  BY <1>1, <1>2, SetAt DEF At

LEMMA IdleIsGood == IdleCall \in Call /\ Good(IdleCall)
  BY DEF IdleCall, NewCall, Call, Points, Good

LEMMA GoodStays ==
  ASSUME TableKept, NEW q \in Call, Good(q)
  PROVE  Good(q)'
  BY DEF TableKept, Good, Asked, Referable, Stored

\* The call of one caller changes, the others stand as they stood.
LEMMA OneMoves ==
  ASSUME Inv, TableKept, NEW c \in Callers, NEW q \in Call,
         call' = [call EXCEPT ![c] = q], Good(q)'
  PROVE  call' \in [Callers -> Call] /\ \A d \in Callers : Good(call[d])'
<1>1. call' \in [Callers -> Call]
  BY DEF Inv, TypeOK
<1>2. ASSUME NEW d \in Callers PROVE Good(call[d])'
  <2>1. CASE d = c
    <3>1. call'[d] = q
      BY <2>1 DEF Inv, TypeOK
    <3>2. QED
      BY <3>1 DEF Good, Asked, Referable, Stored
  <2>2. CASE d # c
    <3>1. PICK s \in Call : s = call[d]
      BY DEF Inv, TypeOK
    <3>2. call'[d] = s /\ Good(s)
      BY <2>2, <3>1 DEF Inv, TypeOK
    <3>3. Good(s)'
      BY <3>2, GoodStays
    <3>4. QED
      BY <3>2, <3>3 DEF Good, Asked, Referable, Stored
  <2>3. QED
    BY <2>1, <2>2
<1>3. QED
  BY <1>1, <1>2

\* A step that only moves one call.
LEMMA CallOnly ==
  ASSUME Inv, NEW c \in Callers, NEW q \in Call, Good(q),
         call' = [call EXCEPT ![c] = q],
         UNCHANGED <<backend, remote, events, lost>>,
         left' \in 0 .. MaxCalls, faults' \in 0 .. MaxFaults
  PROVE  Inv'
<1>1. TableKept
  BY DEF TableKept, Stored, remote
<1>2. Good(q)'
  BY <1>1, GoodStays
<1>3. call' \in [Callers -> Call] /\ \A d \in Callers : Good(call[d])'
  BY <1>1, <1>2, OneMoves
<1>4. TypeOK'
  BY <1>3 DEF Inv, TypeOK, remote, events
<1>5. Fresh' /\ ReferencesAreStored'
  BY DEF Inv, Fresh, ReferencesAreStored, Stored, remote, events
<1>6. QED
  BY <1>3, <1>4, <1>5 DEF Inv

\* Where a call is and what it holds.
LEMMA Held ==
  ASSUME Inv, NEW c \in Callers
  PROVE  \E q \in Call : q = call[c] /\ Good(q)
  BY DEF Inv, TypeOK

LEMMA Numbers ==
  ASSUME Inv
  PROVE  /\ left \in 0 .. MaxCalls /\ faults \in 0 .. MaxFaults /\ minted \in 0 .. MaxTasks
         /\ tasks \in [Ids -> Task \cup {None}]
  BY DEF Inv, TypeOK

-----------------------------------------------------------------------------
(* The steps that move one call and change nothing else.                   *)
LEMMA BeginInv ==
  ASSUME Inv, NEW c \in Callers, NEW q \in Call, Good(q), Begin(c, q)
  PROVE  Inv'
<1>1. left' \in 0 .. MaxCalls /\ faults' \in 0 .. MaxFaults
  BY Numbers, Constants DEF Begin
<1>2. QED
  BY <1>1, CallOnly DEF Begin

LEMMA CallRegisterInv ==
  ASSUME Inv, NEW c \in Callers, NEW k \in Keys, CallRegister(c, k)
  PROVE  Inv'
<1>1. PICK known \in BOOLEAN : known = (\E i \in Found(k) : Stored(i))
  OBVIOUS
<1>2. PICK q \in Call : q = [op |-> "register", at |-> "lookup", key |-> k, id |-> None,
                             copy |-> None, arg |-> None, known |-> known,
                             made |-> FALSE, hit |-> FALSE]
  BY DEF Call, Ops, Points
<1>3. Begin(c, q)
  BY <1>1, <1>2 DEF CallRegister, NewCall
<1>4. Good(q)
  BY <1>2 DEF Good
<1>5. QED
  BY <1>3, <1>4, BeginInv

LEMMA CallOnInv ==
  ASSUME Inv, NEW c \in Callers, NEW i \in Ids, NEW op, NEW arg, CallOn(c, i, op, arg),
         op \in {"set_status", "assign_node", "cancel"},
         arg \in Status \cup Nodes \cup {None},
         op = "set_status" => arg \in Statuses,
         op = "assign_node" => arg \in Nodes
  PROVE  Inv'
<1>1. PICK q \in Call : q = [op |-> op, at |-> "read", key |-> None, id |-> i,
                             copy |-> None, arg |-> arg, known |-> FALSE,
                             made |-> FALSE, hit |-> FALSE]
  BY DEF Call, Ops, Points
<1>2. Begin(c, q)
  BY <1>1 DEF CallOn, NewCall
<1>3. Good(q)
  BY <1>1 DEF Good, Asked
<1>4. QED
  BY <1>2, <1>3, BeginInv

LEMMA LookupInv ==
  ASSUME Inv, NEW c \in Callers, Lookup(c)
  PROVE  Inv'
<1>1. PICK q \in Call : q = call[c] /\ Good(q)
  BY Held
<1>2. q.at = "lookup" /\ UNCHANGED <<backend, remote, events, left, lost, faults>>
  BY <1>1 DEF Lookup
<1>3. CASE Goto(c, "create")
  <2>1. PICK r \in Call : r = At(q, "create")
    BY Moved DEF Points
  <2>2. Good(r)
    BY <1>1, <1>2, <2>1, Moved, IdleIsGood DEF Good, Fields, Points
  <2>3. call' = [call EXCEPT ![c] = r]
    BY <1>1, <1>3, <2>1 DEF Goto
  <2>4. QED
    BY <1>2, <2>2, <2>3, CallOnly, Numbers
<1>4. CASE \E i \in Found(call[c].key) :
                 call' = [call EXCEPT ![c] = At([@ EXCEPT !.id = i], "fetch")]
  <2>1. PICK i \in Found(call[c].key) : call' = [call EXCEPT ![c] = At([@ EXCEPT !.id = i], "fetch")]
    BY <1>4
  <2>2. i \in Ids
    BY <1>1, <1>2 DEF Found, Inv, TypeOK, Good
  <2>3. PICK p \in Call : p = Fields(q, q.at, i, q.copy, q.made, q.hit)
    BY <2>2, FieldTypes, FieldsTyped
  <2>4. PICK r \in Call : r = At(p, "fetch")
    BY Moved DEF Points
  <2>5. call' = [call EXCEPT ![c] = r]
    <3>1. p = [q EXCEPT !.id = i]
      BY <2>3, SetId
    <3>2. QED
      BY <1>1, <2>1, <2>4, <3>1
  <2>6. Good(r)
    BY <1>1, <1>2, <2>2, <2>3, <2>4, Moved, IdleIsGood DEF Good, Fields, Points
  <2>7. QED
    BY <1>2, <2>5, <2>6, CallOnly, Numbers
<1>5. QED
  BY <1>3, <1>4 DEF Lookup

\* A call that ends, or takes a step that asks for no more than it has.
LEMMA GotoInv ==
  ASSUME Inv, NEW c \in Callers, NEW q \in Call, q.at = call[c].at, q.op = call[c].op,
         q.key = call[c].key, q.id = call[c].id, q.copy = call[c].copy, q.arg = call[c].arg,
         NEW point \in Points, call' = [call EXCEPT ![c] = At(q, point)],
         \/ point = "done"
         \/ point = "create" /\ q.at \in {"lookup", "fetch"}
         \/ /\ point \in {"children", "listing", "publish", "tell"}
            /\ q.at \in {"index", "children", "listing", "publish"}
            /\ point \in {"children", "listing"} => q.at \in {"index", "children"}
         \/ point \in {"publish", "tell"} /\ q.at = "write",
         UNCHANGED <<backend, remote, events, left, lost>>, faults' \in 0 .. MaxFaults
  PROVE  Inv'
<1>1. Good(call[c])
  BY DEF Inv
<1>2. PICK r \in Call : r = At(q, point)
  BY Moved
<1>3. Good(r)
  BY <1>1, <1>2, Moved, IdleIsGood DEF Good, Asked, Referable, Fields
<1>4. QED
  BY <1>2, <1>3, CallOnly, Numbers

LEMMA FetchInv ==
  ASSUME Inv, NEW c \in Callers, Fetch(c)
  PROVE  Inv'
<1>1. PICK q \in Call : q = call[c] /\ Good(q)
  BY Held
<1>2. PICK point \in {"done", "create"} : Goto(c, point)
  BY DEF Fetch
<1>3. QED
  BY <1>1, <1>2, GotoInv, Numbers DEF Fetch, Goto, Points

LEMMA ReadInv ==
  ASSUME Inv, NEW c \in Callers, Read(c)
  PROVE  Inv'
<1>1. PICK q \in Call : q = call[c] /\ Good(q)
  BY Held
<1>2. q.at = "read" /\ UNCHANGED <<backend, remote, events, left, lost, faults>>
  BY <1>1 DEF Read
<1>3. CASE Goto(c, "done")
  BY <1>1, <1>2, <1>3, GotoInv, Numbers DEF Goto, Points
<1>4. CASE /\ Stored(call[c].id)
           /\ call' = [call EXCEPT ![c] = At([@ EXCEPT !.copy = tasks[call[c].id]], "write")]
  <2>1. PICK copy \in Task : copy = tasks[q.id]
    BY <1>1, <1>2, <1>4, Numbers DEF Good, Stored
  <2>2. PICK p \in Call : p = Fields(q, q.at, q.id, copy, q.made, q.hit)
    BY FieldTypes, FieldsTyped
  <2>3. PICK r \in Call : r = At(p, "write")
    BY Moved DEF Points
  <2>4. call' = [call EXCEPT ![c] = r]
    <3>1. p = [q EXCEPT !.copy = copy]
      BY <2>2, SetCopy
    <3>2. r = At([call[c] EXCEPT !.copy = tasks[call[c].id]], "write")
      BY <1>1, <2>1, <2>3, <3>1
    <3>3. QED
      BY <1>4, <3>2
  <2>5. Good(r)
    BY <1>1, <1>2, <1>4, <2>1, <2>2, <2>3, Moved, IdleIsGood DEF Good, Asked, Fields, Points
  <2>6. QED
    BY <1>2, <2>4, <2>5, CallOnly, Numbers
<1>5. QED
  BY <1>3, <1>4 DEF Read

LEMMA LoseRequestInv ==
  ASSUME Inv, NEW c \in Callers, LoseRequest(c)
  PROVE  Inv'
<1>1. PICK p \in Call : p = call[c] /\ Good(p)
  BY Held
<1>2. PICK q \in Call : q = Fields(p, p.at, p.id, p.copy, p.made, TRUE)
  BY FieldTypes, FieldsTyped
<1>3. q = [p EXCEPT !.hit = TRUE]
  BY <1>2, SetHit
<1>4. PICK point : point = Skipped(c)
  OBVIOUS
<1>5. call' = [call EXCEPT ![c] = At(q, point)] /\ faults' \in 0 .. MaxFaults
  BY <1>1, <1>3, <1>4, Numbers, Constants DEF LoseRequest, Fault
<1>6. /\ point \in Points
      /\ \/ point = "done"
         \/ point = "create" /\ q.at \in {"lookup", "fetch"}
         \/ /\ point \in {"children", "listing", "publish", "tell"}
            /\ q.at \in {"index", "children", "listing", "publish"}
            /\ point \in {"children", "listing"} => q.at \in {"index", "children"}
         \/ point \in {"publish", "tell"} /\ q.at = "write"
  BY <1>1, <1>2, <1>4 DEF LoseRequest, Skipped, AfterWrite, Points, Fields
<1>7. UNCHANGED <<backend, remote, events, left, lost>>
  BY DEF LoseRequest
<1>8. QED
  BY <1>1, <1>2, <1>5, <1>6, <1>7, GotoInv DEF Fields

-----------------------------------------------------------------------------
(* The steps that write to the store.                                      *)
(* What is written back is the task with its key: another status or node,  *)
(* and of Postgres no node less.                                           *)
LEMMA Written ==
  ASSUME Inv, NEW c \in Callers, Write(c)
  PROVE  /\ call[c].id \in Ids /\ Stored(call[c].id)
         /\ \E s \in Status, n \in Nodes \cup {None} :
               /\ tasks' = [tasks EXCEPT ![call[c].id] =
                               [key |-> tasks[call[c].id].key, status |-> s, node |-> n]]
               /\ backend = "postgres" /\ tasks[call[c].id].node # None => n # None
<1>1. PICK q \in Call : q = call[c] /\ Good(q)
  BY Held
<1>2. /\ q.at = "write" /\ q.id \in Ids /\ Stored(q.id) /\ Asked(q)
      /\ q.copy \in Task /\ q.copy.key = tasks[q.id].key
  BY <1>1 DEF Write, Good
<1>3. PICK old \in Task : old = IF Indexed THEN q.copy ELSE tasks[q.id]
  BY <1>2, Numbers DEF Stored
<1>4. old.key = tasks[q.id].key /\ (backend = "postgres" => old = tasks[q.id])
  BY <1>2, <1>3 DEF Indexed
<1>5. PICK new : new = Changed(c, old)
  OBVIOUS
<1>6. tasks' = [tasks EXCEPT ![q.id] = new]
  BY <1>1, <1>3, <1>5 DEF Write
<1>7. \E s \in Status, n \in Nodes \cup {None} :
         /\ new = [key |-> old.key, status |-> s, node |-> n]
         /\ old.node # None => n # None
  <2>1. old.status \in Status /\ old.node \in Nodes \cup {None}
    BY DEF Task
  <2>2. CASE q.op = "assign_node"
    <3>1. new = [old EXCEPT !.node = q.arg] /\ q.arg \in Nodes
      BY <1>1, <1>2, <1>5, <2>2 DEF Changed, Asked
    <3>2. new = [key |-> old.key, status |-> old.status, node |-> q.arg]
      BY <3>1 DEF Task
    <3>3. QED
      BY <2>1, <3>1, <3>2, Constants
  <2>3. CASE q.op = "cancel"
    <3>1. new = [old EXCEPT !.status = "canceled"]
      BY <1>1, <1>5, <2>3 DEF Changed
    <3>2. new = [key |-> old.key, status |-> "canceled", node |-> old.node]
      BY <3>1 DEF Task
    <3>3. QED
      BY <2>1, <3>2 DEF Status
  <2>4. CASE q.op = "set_status"
    <3>1. new = [old EXCEPT !.status = q.arg] /\ q.arg \in Status
      BY <1>1, <1>2, <1>5, <2>4 DEF Changed, Asked, Status
    <3>2. new = [key |-> old.key, status |-> q.arg, node |-> old.node]
      BY <3>1 DEF Task
    <3>3. QED
      BY <2>1, <3>1, <3>2
  <2>5. QED
    BY <1>2, <2>2, <2>3, <2>4 DEF Asked
<1>8. QED
  BY <1>1, <1>2, <1>4, <1>6, <1>7

LEMMA WriteInv ==
  ASSUME Inv, NEW c \in Callers, Write(c)
  PROVE  Inv'
<1>1. PICK q \in Call : q = call[c] /\ Good(q)
  BY Held
<1>2. PICK s \in Status, n \in Nodes \cup {None} :
         tasks' = [tasks EXCEPT ![q.id] = [key |-> tasks[q.id].key, status |-> s, node |-> n]]
  BY <1>1, Written
<1>3. q.id \in Ids /\ Stored(q.id) /\ tasks[q.id].key \in Keys
  BY <1>1, Written, Numbers DEF Stored, Task
<1>4. PICK new \in Task : new = [key |-> tasks[q.id].key, status |-> s, node |-> n]
  BY <1>3 DEF Task
<1>5. tasks' = [tasks EXCEPT ![q.id] = new] /\ new # None /\ new.key = tasks[q.id].key
  BY <1>2, <1>4, Constants
<1>6. \A i \in Ids : (Stored(i) => Stored(i)' /\ tasks'[i].key = tasks[i].key) /\ (Stored(i)' => Stored(i))
  BY <1>3, <1>5, Numbers DEF Stored
<1>7. /\ UNCHANGED <<backend, idem, kids, all, minted, left, wire, deaf, heard, lost, faults>>
      /\ q.at = "write"
      /\ call' = [call EXCEPT ![c] = At(q, AfterWrite(c))]
  BY <1>1 DEF Write, Goto, events
<1>8. TableKept
  BY <1>6, <1>7 DEF TableKept
<1>9. AfterWrite(c) \in {"done", "publish", "tell"}
  BY DEF AfterWrite
<1>10. PICK r \in Call : r = At(q, AfterWrite(c))
  BY <1>9, Moved DEF Points
<1>11. Good(r)
  BY <1>1, <1>3, <1>7, <1>9, <1>10, Moved, IdleIsGood DEF Good, Referable, Fields, Points
<1>12. call' \in [Callers -> Call] /\ \A d \in Callers : Good(call[d])'
  BY <1>7, <1>8, <1>10, <1>11, GoodStays, OneMoves
<1>13. tasks' \in [Ids -> Task \cup {None}]
  BY <1>5, Numbers
<1>14. TypeOK'
  BY <1>7, <1>12, <1>13 DEF Inv, TypeOK
<1>15. Fresh' /\ ReferencesAreStored'
  BY <1>6, <1>7 DEF Inv, Fresh, ReferencesAreStored
<1>16. QED
  BY <1>12, <1>14, <1>15 DEF Inv

\* Referable after the step.
StaysReferable(i) == (i # None /\ tasks'[i] # None) \/ i \in lost'

\* A reference that is new must be to a task that is stored, or lost.
LEMMA ReferencesStay ==
  ASSUME Inv, TableKept,
         \A i \in Ids : i \in (kids \cup all)' => i \in kids \cup all \/ StaysReferable(i),
         \A k \in Keys : idem'[k] = idem[k] \/ StaysReferable(idem'[k]),
         \A s \in Servers : \A n \in DOMAIN wire'[s] :
            \/ \E m \in DOMAIN wire[s] : wire'[s][n].id = wire[s][m].id
            \/ StaysReferable(wire'[s][n].id)
  PROVE  ReferencesAreStored'
<1>1. SUFFICES ASSUME NEW i \in Ids, ~StaysReferable(i)
               PROVE  /\ i \notin (kids \cup all)'
                      /\ \A k \in Keys : idem'[k] # i
                      /\ \A s \in Servers : \A n \in DOMAIN wire'[s] : wire'[s][n].id # i
  BY DEF ReferencesAreStored, StaysReferable, Stored
<1>2. ~Referable(i)
  BY <1>1 DEF TableKept, Referable, StaysReferable, Stored
<1>3. /\ i \notin kids \cup all
      /\ \A k \in Keys : idem[k] # i
      /\ \A s \in Servers : \A m \in DOMAIN wire[s] : wire[s][m].id # i
  BY <1>2 DEF Inv, ReferencesAreStored, Referable
<1>4. i \notin (kids \cup all)'
  BY <1>1, <1>3
<1>5. \A k \in Keys : idem'[k] # i
  BY <1>1, <1>3
<1>6. ASSUME NEW s \in Servers, NEW n \in DOMAIN wire'[s] PROVE wire'[s][n].id # i
  BY <1>1, <1>3
<1>7. QED
  BY <1>4, <1>5, <1>6

\* A call gets the next id.
LEMMA MintedCall ==
  ASSUME NEW q \in Call, minted + 1 \in Ids
  PROVE  \E r \in Call :
            /\ r = Minted(q)
            /\ \/ r = IdleCall
               \/ \E at \in {"index", "tell"} :
                     r = Fields(q, at, minted + 1, q.copy, TRUE, q.hit) /\ (at = "index" <=> Indexed)
<1>1. PICK p \in Call : p = Fields(q, q.at, minted + 1, q.copy, q.made, q.hit)
  BY FieldTypes, FieldsTyped
<1>2. PICK o \in Call : o = Fields(p, p.at, p.id, p.copy, TRUE, p.hit)
  BY FieldTypes, FieldsTyped
<1>3. o = [q EXCEPT !.id = minted + 1, !.made = TRUE]
  <2>1. p = [q EXCEPT !.id = minted + 1]
    BY <1>1, SetId
  <2>2. o = [p EXCEPT !.made = TRUE]
    BY <1>2, SetMade
  <2>3. QED
    BY <2>1, <2>2
<1>4. PICK at \in {"index", "tell"} : at = IF Indexed THEN "index" ELSE "tell"
  OBVIOUS
<1>5. PICK r \in Call : r = At(o, at)
  BY Moved DEF Points
<1>6. r = Minted(q)
  BY <1>3, <1>4, <1>5 DEF Minted
<1>7. Fields(o, at, o.id, o.copy, o.made, o.hit) = Fields(q, at, minted + 1, q.copy, TRUE, q.hit)
  BY <1>1, <1>2 DEF Fields
<1>8. r = IdleCall \/ r = Fields(q, at, minted + 1, q.copy, TRUE, q.hit)
  <2>1. at \in Points
    BY DEF Points
  <2>2. r = IdleCall \/ r = Fields(o, at, o.id, o.copy, o.made, o.hit)
    BY <1>5, <2>1, Moved
  <2>3. QED
    BY <1>7, <2>2
<1>9. QED
  BY <1>4, <1>6, <1>8

\* A task is created: its record is written, or the request that writes it lost.
LEMMA MintInv ==
  ASSUME Inv, NEW c \in Callers, call[c].at = "create", minted < MaxTasks,
         NEW q \in Call, q.op = call[c].op, q.key = call[c].key,
         call' = [call EXCEPT ![c] = Minted(q)], minted' = minted + 1,
         UNCHANGED <<backend, idem, kids, all, left, events>>,
         faults' \in 0 .. MaxFaults,
         \/ lost' = lost /\ tasks' = [tasks EXCEPT ![minted + 1] =
                               [key |-> call[c].key, status |-> "queued", node |-> None]]
         \/ lost' = lost \cup {minted + 1} /\ tasks' = tasks
  PROVE  Inv'
<1>1. PICK n \in Ids : n = minted + 1 /\ n \in 0 .. MaxTasks /\ minted \in Nat
  BY Numbers, Constants DEF Ids
<1>2. tasks[n] = None
  BY <1>1, Constants DEF Inv, Fresh, Stored
<1>3. call[c].key \in Keys /\ call[c].op = "register"
  BY DEF Inv, Good
<1>4. PICK new \in Task : new = [key |-> call[c].key, status |-> "queued", node |-> None]
  BY <1>3 DEF Task, Status
<1>5. /\ tasks' \in [Ids -> Task \cup {None}]
      /\ lost \subseteq lost' /\ lost' \subseteq Ids
      /\ \A i \in Ids \ {n} : tasks'[i] = tasks[i]
      /\ StaysReferable(n)
  <2>1. lost \subseteq Ids /\ tasks \in [Ids -> Task \cup {None}] /\ n # None /\ new # None
    BY Numbers, Constants DEF Inv, TypeOK
  <2>2. CASE lost' = lost /\ tasks' = [tasks EXCEPT ![n] = new]
    BY <2>1, <2>2 DEF StaysReferable
  <2>3. CASE lost' = lost \cup {n} /\ tasks' = tasks
    BY <2>1, <2>3 DEF StaysReferable
  <2>4. QED
    BY <1>1, <1>4, <2>2, <2>3
<1>6. TableKept
  BY <1>2, <1>5 DEF TableKept, Stored
<1>7. PICK r \in Call :
         /\ r = Minted(q)
         /\ \/ r = IdleCall
            \/ \E at \in {"index", "tell"} : r = Fields(q, at, n, q.copy, TRUE, q.hit)
  <2>1. minted + 1 \in Ids
    BY <1>1
  <2>2. QED
    BY <1>1, <2>1, MintedCall
<1>8. Good(r)'
  <2>1. CASE r = IdleCall
    BY <2>1, <1>6, IdleIsGood, GoodStays
  <2>2. CASE \E at \in {"index", "tell"} : r = Fields(q, at, n, q.copy, TRUE, q.hit)
    <3>1. r.at \in {"index", "tell"} /\ r.id = n /\ r.key \in Keys /\ r.op = "register"
      BY <2>2, <1>3 DEF Fields
    <3>2. Referable(r.id)'
      BY <3>1, <1>5 DEF StaysReferable, Referable, Stored
    <3>3. QED
      BY <3>1, <3>2 DEF Good
  <2>3. QED
    BY <1>7, <2>1, <2>2
<1>9. call' \in [Callers -> Call] /\ \A d \in Callers : Good(call[d])'
  BY <1>6, <1>7, <1>8, OneMoves
<1>10. TypeOK'
  BY <1>1, <1>5, <1>9 DEF Inv, TypeOK, events
<1>11. Fresh'
  <2>1. ASSUME NEW i \in Ids, Stored(i)' PROVE i <= minted'
    <3>1. i = n \/ Stored(i)
      BY <2>1, <1>5 DEF Stored
    <3>2. QED
      BY <3>1, <1>1 DEF Inv, Fresh, Ids
  <2>2. QED
    BY <2>1 DEF Fresh, Stored
<1>12. ReferencesAreStored'
  BY <1>6, ReferencesStay DEF events
<1>13. QED
  BY <1>9, <1>10, <1>11, <1>12 DEF Inv

LEMMA CreateInv ==
  ASSUME Inv, NEW c \in Callers, Create(c)
  PROVE  Inv'
<1>1. PICK q \in Call : q = call[c]
  BY Held
<1>2. call' = [call EXCEPT ![c] = Minted(q)]
  BY <1>1 DEF Create
<1>3. QED
  BY <1>1, <1>2, MintInv, Numbers DEF Create

LEMMA LoseRecordInv ==
  ASSUME Inv, NEW c \in Callers, LoseRecord(c)
  PROVE  Inv'
<1>1. PICK p \in Call : p = call[c]
  BY Held
<1>2. PICK q \in Call : q = Fields(p, p.at, p.id, p.copy, p.made, TRUE)
  BY FieldTypes, FieldsTyped
<1>3. q = [p EXCEPT !.hit = TRUE] /\ q.op = p.op /\ q.key = p.key
  BY <1>2, SetHit DEF Fields
<1>4. call' = [call EXCEPT ![c] = Minted(q)]
  BY <1>1, <1>3 DEF LoseRecord
<1>5. faults' \in 0 .. MaxFaults
  BY Numbers, Constants DEF LoseRecord, Fault
<1>6. /\ call[c].at = "create" /\ minted < MaxTasks /\ minted' = minted + 1
      /\ UNCHANGED <<backend, idem, kids, all, left, events>>
      /\ lost' = lost \cup {minted + 1} /\ tasks' = tasks
  BY DEF LoseRecord
<1>7. QED
  BY <1>1, <1>3, <1>4, <1>5, <1>6, MintInv

\* The steps after the record: the call goes on to where its id may be used.
LEMMA GoesOn ==
  ASSUME Inv, TableKept, NEW c \in Callers, NEW point \in Points, Goto(c, point),
         \/ point = "done"
         \/ /\ point \in {"children", "listing", "publish", "tell"}
            /\ call[c].at \in {"index", "children", "listing", "publish"}
            /\ point \in {"children", "listing"} => call[c].at \in {"index", "children"}
  PROVE  call' \in [Callers -> Call] /\ \A d \in Callers : Good(call[d])'
<1>1. PICK q \in Call : q = call[c] /\ Good(q)
  BY Held
<1>2. PICK r \in Call : r = At(q, point)
  BY Moved
<1>3. Good(r)
  BY <1>1, <1>2, Moved, IdleIsGood DEF Good, Referable, Fields
<1>4. call' = [call EXCEPT ![c] = r]
  BY <1>1, <1>2 DEF Goto
<1>5. QED
  BY <1>3, <1>4, GoodStays, OneMoves

LEMMA IndexInv ==
  ASSUME Inv, NEW c \in Callers, PutIndex(c) \/ PutChild(c) \/ PutListing(c)
  PROVE  Inv'
<1>1. UNCHANGED <<backend, tasks, minted, left, events, lost, faults>>
  BY DEF PutIndex, PutChild, PutListing
<1>2. TableKept
  BY <1>1 DEF TableKept, Stored
<1>3. /\ call[c].at \in {"index", "children", "listing"} /\ call[c].key \in Keys
      /\ call[c].id \in Ids /\ Referable(call[c].id)
  BY DEF PutIndex, PutChild, PutListing, Inv, Good
<1>4. StaysReferable(call[c].id)
  BY <1>1, <1>3 DEF Referable, StaysReferable, Stored
<1>5. /\ idem' \in [Keys -> Ids \cup {None}] /\ kids' \subseteq Ids /\ all' \subseteq Ids
      /\ \A i \in Ids : i \in (kids \cup all)' => i \in kids \cup all \/ StaysReferable(i)
      /\ \A k \in Keys : idem'[k] = idem[k] \/ StaysReferable(idem'[k])
  <2>1. CASE PutIndex(c)
    BY <2>1, <1>3, <1>4 DEF PutIndex, Inv, TypeOK
  <2>2. CASE PutChild(c)
    BY <2>2, <1>3, <1>4 DEF PutChild, Inv, TypeOK
  <2>3. CASE PutListing(c)
    BY <2>3, <1>3, <1>4 DEF PutListing, Inv, TypeOK
  <2>4. QED
    BY <2>1, <2>2, <2>3
<1>6. call' \in [Callers -> Call] /\ \A d \in Callers : Good(call[d])'
  <2>1. CASE PutIndex(c)
    BY <2>1, <1>2, GoesOn DEF PutIndex, Points
  <2>2. CASE PutChild(c)
    BY <2>2, <1>2, GoesOn DEF PutChild, Points
  <2>3. CASE PutListing(c)
    BY <2>3, <1>2, GoesOn DEF PutListing, Points
  <2>4. QED
    BY <2>1, <2>2, <2>3
<1>7. TypeOK'
  BY <1>1, <1>5, <1>6 DEF Inv, TypeOK, events
<1>8. Fresh'
  BY <1>1 DEF Inv, Fresh, Stored
<1>9. ReferencesAreStored'
  BY <1>1, <1>2, <1>5, ReferencesStay DEF events
<1>10. QED
  BY <1>6, <1>7, <1>8, <1>9 DEF Inv

\* A step that touches neither records nor indexes nor, but for what is said,
\* the events.
LEMMA EventsInv ==
  ASSUME Inv, UNCHANGED <<backend, remote, left>>, lost' = lost, faults' \in 0 .. MaxFaults,
         call' \in [Callers -> Call], \A d \in Callers : Good(call[d])',
         wire' \in [Servers -> Seq(Event)], deaf' \subseteq Servers,
         heard' \in [Servers -> [Ids -> Nat]],
         \A s \in Servers : \A n \in DOMAIN wire'[s] :
            \/ \E m \in DOMAIN wire[s] : wire'[s][n].id = wire[s][m].id
            \/ StaysReferable(wire'[s][n].id)
  PROVE  Inv'
<1>1. TableKept
  BY DEF TableKept, Stored, remote
<1>2. TypeOK'
  BY DEF Inv, TypeOK, remote
<1>3. Fresh'
  BY DEF Inv, Fresh, Stored, remote
<1>4. ReferencesAreStored'
  BY <1>1, ReferencesStay DEF remote
<1>5. QED
  BY <1>2, <1>3, <1>4 DEF Inv

LEMMA PublishInv ==
  ASSUME Inv, NEW c \in Callers, Publish(c)
  PROVE  Inv'
<1>1. UNCHANGED <<backend, remote, left, deaf, heard, lost, faults>> /\ TableKept
  BY DEF Publish, TableKept, Stored, remote
<1>2. call' \in [Callers -> Call] /\ \A d \in Callers : Good(call[d])'
  BY <1>1, GoesOn DEF Publish, Points
<1>3. call[c].id \in Ids /\ Referable(call[c].id) /\ StaysReferable(call[c].id)
  BY <1>1 DEF Publish, Inv, Good, Referable, StaysReferable, Stored, remote
<1>4. PICK ev \in Event : ev = EventOf(c) /\ ev.id = call[c].id
  <2>1. PICK kind \in {"submitted", "changed", "canceled"} :
           EventOf(c) = [origin |-> ServerOf[c], id |-> call[c].id, kind |-> kind]
    BY DEF EventOf
  <2>2. ServerOf[c] \in Servers
    BY Constants
  <2>3. QED
    BY <1>3, <2>1, <2>2 DEF Event
<1>5. wire' = [s \in Servers |-> IF s \in deaf THEN wire[s] ELSE Append(wire[s], ev)]
  BY <1>4 DEF Publish
<1>6. wire' \in [Servers -> Seq(Event)]
  BY <1>5 DEF Inv, TypeOK
<1>7. ASSUME NEW s \in Servers, NEW n \in DOMAIN wire'[s]
      PROVE  \/ \E m \in DOMAIN wire[s] : wire'[s][n].id = wire[s][m].id
             \/ StaysReferable(wire'[s][n].id)
  <2>1. wire[s] \in Seq(Event)
    BY DEF Inv, TypeOK
  <2>2. CASE s \in deaf
    BY <1>5, <2>2
  <2>3. CASE s \notin deaf
    <3>1. wire'[s] = Append(wire[s], ev)
      BY <1>5, <2>3
    <3>2. (n \in DOMAIN wire[s] /\ wire'[s][n] = wire[s][n]) \/ wire'[s][n] = ev
      BY <2>1, <3>1
    <3>3. QED
      BY <1>3, <1>4, <3>2
  <2>4. QED
    BY <2>2, <2>3
<1>8. QED
  BY <1>1, <1>2, <1>6, <1>7, EventsInv DEF Inv, TypeOK

\* Watchers are told of a task once more, or not.
LEMMA Told ==
  ASSUME Inv, NEW s \in Servers, NEW ev, ev.id \in Ids, Tell(s, ev)
  PROVE  heard' \in [Servers -> [Ids -> Nat]]
<1>1. PICK i \in Ids : i = ev.id
  OBVIOUS
<1>2. heard \in [Servers -> [Ids -> Nat]]
  BY DEF Inv, TypeOK
<1>3. CASE heard' = heard
  BY <1>2, <1>3
<1>4. CASE heard' = [heard EXCEPT ![s][i] = @ + 1]
  <2>1. PICK n \in Nat : n = heard[s][i] + 1
    BY <1>2
  <2>2. [heard[s] EXCEPT ![i] = n] \in [Ids -> Nat]
    BY <1>2
  <2>3. QED
    BY <1>2, <1>4, <2>1, <2>2
<1>5. QED
  BY <1>1, <1>3, <1>4 DEF Tell

LEMMA TellOwnInv ==
  ASSUME Inv, NEW c \in Callers, TellOwn(c)
  PROVE  Inv'
<1>1. UNCHANGED <<backend, remote, left, wire, deaf, lost, faults>> /\ TableKept
  BY DEF TellOwn, TableKept, Stored, remote
<1>2. call' \in [Callers -> Call] /\ \A d \in Callers : Good(call[d])'
  BY <1>1, GoesOn DEF TellOwn, Points
<1>3. ServerOf[c] \in Servers /\ EventOf(c).id \in Ids
  BY Constants DEF TellOwn, Inv, Good, EventOf
<1>4. heard' \in [Servers -> [Ids -> Nat]]
  BY <1>3, Told DEF TellOwn
<1>5. QED
  BY <1>1, <1>2, <1>4, EventsInv DEF Inv, TypeOK

LEMMA DeliverInv ==
  ASSUME Inv, NEW s \in Servers, Deliver(s)
  PROVE  Inv'
<1>1. UNCHANGED <<backend, remote, call, left, deaf, lost, faults>>
  BY DEF Deliver
<1>2. PICK w \in Seq(Event) : w = wire[s] /\ w # <<>>
  BY DEF Deliver, Inv, TypeOK
<1>3. Head(w) \in Event /\ Tail(w) \in Seq(Event)
  BY <1>2
<1>4. heard' \in [Servers -> [Ids -> Nat]]
  <2>1. CASE UNCHANGED heard
    BY <2>1 DEF Inv, TypeOK
  <2>2. CASE Tell(s, Head(w))
    BY <2>2, <1>3, Told DEF Event
  <2>3. QED
    BY <1>2, <2>1, <2>2 DEF Deliver
<1>5. wire' = [wire EXCEPT ![s] = Tail(w)]
  BY <1>2 DEF Deliver
<1>6. wire' \in [Servers -> Seq(Event)]
  BY <1>3, <1>5 DEF Inv, TypeOK
<1>7. ASSUME NEW t \in Servers, NEW n \in DOMAIN wire'[t]
      PROVE  \E m \in DOMAIN wire[t] : wire'[t][n].id = wire[t][m].id
  <2>1. CASE t = s
    <3>1. wire'[t] = Tail(w)
      BY <1>5, <2>1 DEF Inv, TypeOK
    <3>2. n + 1 \in DOMAIN w /\ Tail(w)[n] = w[n + 1]
      BY <1>2, <3>1
    <3>3. QED
      BY <1>2, <2>1, <3>1, <3>2
  <2>2. CASE t # s
    BY <1>5, <2>2 DEF Inv, TypeOK
  <2>3. QED
    BY <2>1, <2>2
<1>8. \A d \in Callers : Good(call[d])'
  BY <1>1 DEF Inv, Good, Asked, Referable, Stored, remote
<1>9. QED
  BY <1>1, <1>4, <1>6, <1>7, <1>8, EventsInv DEF Inv, TypeOK

LEMMA DeafenInv ==
  ASSUME Inv, NEW s \in Servers, Deafen(s)
  PROVE  Inv'
<1>1. UNCHANGED <<backend, remote, call, left, wire, heard, lost>> /\ deaf' = deaf \cup {s}
  BY DEF Deafen
<1>2. faults' \in 0 .. MaxFaults
  BY Numbers, Constants DEF Deafen, Fault
<1>3. \A d \in Callers : Good(call[d])'
  BY <1>1 DEF Inv, Good, Asked, Referable, Stored, remote
<1>4. QED
  BY <1>1, <1>2, <1>3, EventsInv DEF Inv, TypeOK

LEMMA RestartInv ==
  ASSUME Inv, NEW s \in Servers, Restart(s)
  PROVE  Inv'
<1>1. /\ UNCHANGED <<backend, remote, left, heard, lost>> /\ deaf' \subseteq Servers
      /\ call' = [c \in Callers |-> IF ServerOf[c] = s THEN IdleCall ELSE call[c]]
      /\ wire' = [wire EXCEPT ![s] = <<>>]
  BY DEF Restart, Inv, TypeOK
<1>2. faults' \in 0 .. MaxFaults
  BY Numbers, Constants DEF Restart, Fault
<1>3. TableKept
  BY <1>1 DEF TableKept, Stored, remote
<1>4. ASSUME NEW d \in Callers PROVE call'[d] \in Call /\ Good(call[d])'
  <2>1. PICK q \in Call : q = call'[d] /\ Good(q)
    BY <1>1, IdleIsGood, Held
  <2>2. Good(q)'
    BY <1>3, <2>1, GoodStays
  <2>3. QED
    BY <2>1, <2>2 DEF Good, Asked, Referable, Stored
<1>5. call' \in [Callers -> Call]
  BY <1>1, <1>4
<1>6. wire' \in [Servers -> Seq(Event)]
  BY <1>1 DEF Inv, TypeOK
<1>7. ASSUME NEW t \in Servers, NEW n \in DOMAIN wire'[t]
      PROVE  \E m \in DOMAIN wire[t] : wire'[t][n].id = wire[t][m].id
  BY <1>1 DEF Inv, TypeOK
<1>8. QED
  BY <1>1, <1>2, <1>4, <1>5, <1>6, <1>7, EventsInv DEF Inv, TypeOK

-----------------------------------------------------------------------------
LEMMA InitInv == Init => Inv
<1> SUFFICES ASSUME Init PROVE Inv
  OBVIOUS
<1>1. TypeOK
  BY Constants, IdleIsGood DEF Init, TypeOK
<1>2. Fresh /\ ReferencesAreStored
  BY Constants DEF Init, Fresh, ReferencesAreStored, Stored
<1>3. \A c \in Callers : Good(call[c])
  BY IdleIsGood DEF Init, Good, IdleCall, NewCall
<1>4. QED
  BY <1>1, <1>2, <1>3 DEF Inv

LEMMA CallerInv ==
  ASSUME Inv, NEW c \in Callers, Step(c) \/ LoseRequest(c) \/ LoseRecord(c)
  PROVE  Inv'
  BY LookupInv, FetchInv, CreateInv, IndexInv, ReadInv, WriteInv, PublishInv, TellOwnInv,
     LoseRequestInv, LoseRecordInv DEF Step, Register

LEMMA StepInv == Inv /\ [Next]_vars => Inv'
<1> SUFFICES ASSUME Inv, [Next]_vars PROVE Inv'
  OBVIOUS
<1>1. CASE UNCHANGED vars
  BY <1>1 DEF vars, remote, events, Inv, TypeOK, Fresh, ReferencesAreStored, Good, Asked,
              Referable, Stored
<1>2. ASSUME NEW c \in Callers, NEW k \in Keys, CallRegister(c, k) PROVE Inv'
  BY <1>2, CallRegisterInv
<1>3. ASSUME NEW c \in Callers, NEW i \in Ids, NEW s \in Statuses, CallOn(c, i, "set_status", s)
      PROVE  Inv'
  BY <1>3, CallOnInv DEF Status
<1>4. ASSUME NEW c \in Callers, NEW i \in Ids, NEW n \in Nodes, CallOn(c, i, "assign_node", n)
      PROVE  Inv'
  BY <1>4, CallOnInv
<1>5. ASSUME NEW c \in Callers, NEW i \in Ids, CallOn(c, i, "cancel", None) PROVE Inv'
  BY <1>5, CallOnInv
<1>6. ASSUME NEW c \in Callers, Step(c) \/ LoseRequest(c) \/ LoseRecord(c) PROVE Inv'
  BY <1>6, CallerInv
<1>7. ASSUME NEW s \in Servers, Deliver(s) \/ Deafen(s) \/ Restart(s) PROVE Inv'
  BY <1>7, DeliverInv, DeafenInv, RestartInv
<1>8. QED
  BY <1>1, <1>2, <1>3, <1>4, <1>5, <1>6, <1>7 DEF Next

LEMMA Invariance == Spec => []Inv
  BY InitInv, StepInv, PTL DEF Spec

-----------------------------------------------------------------------------
\* Records, indexes, calls, events and counters keep their types, whatever the
\* store, the interleaving and the faults (store_redis.rs, store_postgres.rs).
THEOREM StoresTyped == Spec => []TypeOK
<1>1. Inv => TypeOK
  BY DEF Inv
<1>2. QED
  BY <1>1, Invariance, PTL

\* What the key index, the children, the list or an event names can be read, or
\* the write of its record was lost: register writes the record first.
THEOREM NothingDangles == Spec => []ReferencesAreStored
<1>1. Inv => ReferencesAreStored
  BY DEF Inv
<1>2. QED
  BY <1>1, Invariance, PTL

\* A step creates one record, changes status and node of one, or none.
LEMMA TableSteps == Inv /\ [Next]_vars => [Table!Next]_tasks
<1> SUFFICES ASSUME Inv, [Next]_vars PROVE Table!Next \/ UNCHANGED tasks
  OBVIOUS
<1>1. ASSUME NEW c \in Callers, Create(c) PROVE Table!Next
  <2>1. PICK n \in Ids : n = minted + 1 /\ minted \in Nat
    BY <1>1, Numbers, Constants DEF Create, Ids
  <2>2. tasks[n] = None
    BY <2>1, Constants DEF Inv, Fresh, Stored
  <2>3. call[c].key \in Keys
    BY <1>1 DEF Create, Inv, Good
  <2>4. Table!Create(n, call[c].key)
    BY <1>1, <2>1, <2>2 DEF Create, Table!Create
  <2>5. QED
    BY <2>3, <2>4 DEF Table!Next
<1>2. ASSUME NEW c \in Callers, Write(c) PROVE Table!Next
  <2>1. PICK s \in Status, n \in Nodes \cup {None} :
           tasks' = [tasks EXCEPT ![call[c].id] =
                        [key |-> tasks[call[c].id].key, status |-> s, node |-> n]]
    BY <1>2, Written
  <2>2. call[c].id \in Ids /\ tasks[call[c].id] # None
    BY <1>2, Written DEF Stored
  <2>3. Table!Update(call[c].id, s, n)
    BY <2>1, <2>2 DEF Table!Update
  <2>4. QED
    BY <2>2, <2>3 DEF Table!Next
<1>3. ASSUME NEW c \in Callers, Step(c) PROVE Create(c) \/ Write(c) \/ UNCHANGED tasks
  BY <1>3 DEF Step, Register, Lookup, Fetch, PutIndex, PutChild, PutListing, Read, Publish,
              TellOwn, remote
<1>4. ASSUME NEW c \in Callers,
             \/ \E k \in Keys : CallRegister(c, k)
             \/ \E i \in Ids : \/ \E s \in Statuses : CallOn(c, i, "set_status", s)
                               \/ \E n \in Nodes : CallOn(c, i, "assign_node", n)
                               \/ CallOn(c, i, "cancel", None)
             \/ LoseRequest(c) \/ LoseRecord(c)
      PROVE  UNCHANGED tasks
  BY <1>4 DEF CallRegister, CallOn, Begin, LoseRequest, LoseRecord, remote
<1>5. ASSUME NEW s \in Servers, Deliver(s) \/ Deafen(s) \/ Restart(s) PROVE UNCHANGED tasks
  BY <1>5 DEF Deliver, Deafen, Restart, remote
<1>6. CASE UNCHANGED vars
  BY <1>6 DEF vars, remote
<1>7. QED
  BY <1>1, <1>2, <1>3, <1>4, <1>5, <1>6 DEF Next

LEMMA TableInit == Init => Table!Init
  BY DEF Init, Table!Init

\* However many control planes write to it, and whatever is lost, the shared
\* table is a TaskTable: a task is created once, never removed, and keeps its
\* key (the promise of trait TaskStore, store.rs).
THEOREM SharedTableImplements == Spec => IsTaskTable
<1>1. Spec => []Inv
  BY Invariance
<1>2. QED
  BY <1>1, TableInit, TableSteps, PTL DEF Spec, IsTaskTable, Table!Spec

\* Postgres updates one column: an assigned node is never taken back.
LEMMA NodeStays ==
  Inv /\ [Next]_vars
  => [\A i \in Ids : backend = "postgres" /\ Stored(i) /\ tasks[i].node # None
                     => tasks'[i].node # None]_vars
<1> SUFFICES ASSUME Inv, [Next]_vars, NEW i \in Ids,
                    backend = "postgres", Stored(i), tasks[i].node # None, ~UNCHANGED vars
             PROVE  tasks'[i].node # None
  OBVIOUS
<1>1. ASSUME NEW c \in Callers, Write(c) PROVE tasks'[i].node # None
  <2>1. PICK s \in Status, n \in Nodes \cup {None} :
           /\ tasks' = [tasks EXCEPT ![call[c].id] =
                           [key |-> tasks[call[c].id].key, status |-> s, node |-> n]]
           /\ tasks[call[c].id].node # None => n # None
    BY <1>1, Written
  <2>2. QED
    BY <2>1, Numbers
<1>2. ASSUME NEW c \in Callers, Create(c) PROVE tasks'[i] = tasks[i]
  <2>1. i # minted + 1
    BY Numbers DEF Inv, Fresh, Ids
  <2>2. QED
    BY <1>2, <2>1, Numbers DEF Create
<1>3. (\E c \in Callers : Write(c) \/ Create(c)) \/ tasks' = tasks
  <2>1. ASSUME NEW c \in Callers, Step(c) PROVE Create(c) \/ Write(c) \/ UNCHANGED tasks
    BY <2>1 DEF Step, Register, Lookup, Fetch, PutIndex, PutChild, PutListing, Read, Publish,
                TellOwn, remote
  <2>2. QED
    BY <2>1 DEF Next, CallRegister, CallOn, Begin, LoseRequest, LoseRecord, Deliver, Deafen,
                Restart, remote
<1>4. QED
  BY <1>1, <1>2, <1>3

\* No status change or cancel, however late, takes back a node assigned in the
\* meantime (UPDATE of one column, store_postgres.rs).
THEOREM NodesAreKept == Spec => PostgresKeepsNode
<1>1. Spec => []Inv
  BY Invariance
<1>2. QED
  BY <1>1, NodeStays, PTL DEF Spec, PostgresKeepsNode

-----------------------------------------------------------------------------
(***************************************************************************)
(* What register promises.  A call none of whose requests was lost is on   *)
(* the way to keeping its word: it began with a task stored for its key    *)
(* and cannot miss it (Reuses), or it made one, and what it has written so *)
(* far is still there (Lists).  Both survive the steps of all the other    *)
(* calls because the store only grows (StoreGrows).                        *)
(***************************************************************************)
Reuses(q) ==
    q.known /\ lost = {}
    => /\ ~q.made
       /\ q.at \in {"lookup", "fetch", "done"}
       /\ q.at = "lookup" => Found(q.key) # {}
       /\ q.at = "fetch" => Stored(q.id)

Lists(q) ==
    q.made
    => /\ Stored(q.id)
       /\ q.at \in {"index", "children", "listing", "publish", "tell", "done"}
       /\ Indexed /\ q.key \in ChildKeys /\ q.at \in {"listing", "publish", "tell", "done"}
          => q.id \in kids
       /\ Indexed /\ q.at \in {"publish", "tell", "done"} => q.id \in all

Word(q) == ~q.hit => Reuses(q) /\ Lists(q)

Promise == Inv /\ \A c \in Callers : Word(call[c])

StoreGrows ==
    /\ TableKept /\ backend' = backend
    /\ kids \subseteq kids' /\ all \subseteq all'
    /\ \A k \in Keys : idem[k] # None => idem'[k] # None

LEMMA Grows == Inv /\ [Next]_vars => StoreGrows
<1> SUFFICES ASSUME Inv, [Next]_vars PROVE StoreGrows
  OBVIOUS
<1>1. \A i \in Ids : Stored(i) => Stored(i)' /\ tasks'[i].key = tasks[i].key
  <2>1. [Table!Next]_tasks
    BY TableSteps
  <2>2. CASE UNCHANGED tasks
    BY <2>2 DEF Stored
  <2>3. ASSUME NEW j \in Ids, NEW k \in Keys, Table!Create(j, k)
        PROVE  \A i \in Ids : Stored(i) => Stored(i)' /\ tasks'[i].key = tasks[i].key
    BY <2>3, Numbers DEF Stored, Table!Create
  <2>4. ASSUME NEW j \in Ids, NEW s \in Status, NEW n \in Nodes \cup {None}, Table!Update(j, s, n)
        PROVE  \A i \in Ids : Stored(i) => Stored(i)' /\ tasks'[i].key = tasks[i].key
    <3>1. [key |-> tasks[j].key, status |-> s, node |-> n] \in Task
      BY <2>4, Numbers DEF Table!Update, Task
    <3>2. QED
      BY <2>4, <3>1, Numbers, Constants DEF Stored, Table!Update
  <2>5. QED
    BY <2>1, <2>2, <2>3, <2>4 DEF Table!Next
<1>2. ASSUME NEW c \in Callers, Step(c) \/ LoseRequest(c) \/ LoseRecord(c)
      PROVE  /\ lost \subseteq lost' /\ backend' = backend
             /\ kids \subseteq kids' /\ all \subseteq all'
             /\ PutIndex(c) \/ idem' = idem
  BY <1>2 DEF Step, Register, Lookup, Fetch, Create, PutIndex, PutChild, PutListing, Read,
              Write, Publish, TellOwn, LoseRequest, LoseRecord, remote
<1>3. ASSUME NEW c \in Callers, PutIndex(c)
      PROVE  \A k \in Keys : idem[k] # None => idem'[k] # None
  BY <1>3, Constants DEF PutIndex, Inv, TypeOK, Good
<1>4. \/ \E c \in Callers : Step(c) \/ LoseRequest(c) \/ LoseRecord(c)
      \/ UNCHANGED <<backend, remote, lost>>
  BY DEF Next, CallRegister, CallOn, Begin, Deliver, Deafen, Restart, vars
<1>5. QED
  BY <1>1, <1>2, <1>3, <1>4 DEF StoreGrows, TableKept, remote

\* The other calls: what they rely on stays.
LEMMA WordStays ==
  ASSUME Inv, StoreGrows, NEW q \in Call, Good(q), Word(q)
  PROVE  Word(q)'
<1>1. lost' = {} => lost = {}
  BY DEF StoreGrows, TableKept
<1>2. Stored(q.id) => Stored(q.id)'
  BY FieldTypes DEF StoreGrows, TableKept, Stored
<1>3. ASSUME q.key \in Keys, Found(q.key) # {} PROVE Found(q.key)' # {}
  <2>1. PICK k \in Keys : k = q.key
    BY <1>3
  <2>2. CASE Indexed
    <3>1. idem[k] # None /\ Indexed'
      BY <1>3, <2>1, <2>2 DEF StoreGrows, Found, Indexed
    <3>2. idem'[k] # None
      BY <3>1 DEF StoreGrows
    <3>3. QED
      BY <2>1, <3>1, <3>2 DEF Found
  <2>3. CASE ~Indexed
    <3>1. PICK i \in Ids : Stored(i) /\ tasks[i].key = k
      BY <1>3, <2>1, <2>3, Constants DEF Found, Stored
    <3>2. Stored(i)' /\ tasks'[i].key = k /\ ~Indexed'
      BY <2>3, <3>1 DEF StoreGrows, TableKept, Indexed
    <3>3. i \in Found(k)'
      BY <3>2 DEF Found, Stored
    <3>4. QED
      BY <2>1, <3>3 DEF Found
  <2>4. QED
    BY <2>2, <2>3
<1>4. ASSUME ~q.hit PROVE Reuses(q)'
  BY <1>1, <1>2, <1>3, <1>4 DEF Word, Reuses, Good
<1>5. ASSUME ~q.hit PROVE Lists(q)'
  BY <1>2, <1>5 DEF Word, Lists, StoreGrows, Indexed
<1>6. QED
  BY <1>4, <1>5 DEF Word

LEMMA IdleKeepsWord == Word(IdleCall) /\ Word(IdleCall)'
  BY DEF Word, Reuses, Lists, IdleCall, NewCall

\* The call that moves.
LEMMA MoverKeepsWord ==
  ASSUME Promise, StoreGrows, NEW c \in Callers, NEW r \in Call,
         call' = [call EXCEPT ![c] = r], Word(r)'
  PROVE  \A d \in Callers : Word(call[d])'
<1>1. ASSUME NEW d \in Callers, d # c PROVE Word(call[d])'
  <2>1. PICK q \in Call : q = call[d] /\ Good(q)
    BY Held DEF Promise
  <2>2. Word(q)'
    BY <2>1, WordStays DEF Promise
  <2>3. call'[d] = q
    BY <1>1, <2>1 DEF Promise, Inv, TypeOK
  <2>4. QED
    BY <2>2, <2>3 DEF Word, Reuses, Lists, Found, Stored, Indexed
<1>2. call'[c] = r
  BY DEF Promise, Inv, TypeOK
<1>3. Word(call[c])'
  BY <1>2 DEF Word, Reuses, Lists, Found, Stored, Indexed
<1>4. QED
  BY <1>1, <1>3

\* A call p that goes on to a point keeps its word if it does there.
LEMMA GoingKeepsWord ==
  ASSUME Promise, StoreGrows, NEW c \in Callers, NEW p \in Call, NEW point \in Points,
         call' = [call EXCEPT ![c] = At(p, point)],
         Word(Fields(p, point, p.id, p.copy, p.made, p.hit))'
  PROVE  \A d \in Callers : Word(call[d])'
<1>1. PICK r \in Call : r = At(p, point)
  BY Moved
<1>2. Word(r)'
  <2>1. CASE r = IdleCall
    BY <2>1, IdleKeepsWord DEF Word, Reuses, Lists, Found, Stored, Indexed
  <2>2. CASE r = Fields(p, point, p.id, p.copy, p.made, p.hit)
    BY <2>2 DEF Word, Reuses, Lists, Found, Stored, Indexed, Fields
  <2>3. QED
    BY <1>1, <2>1, <2>2, Moved
<1>3. QED
  BY <1>1, <1>2, MoverKeepsWord

LEMMA LookupKeepsWord ==
  ASSUME Promise, StoreGrows, NEW c \in Callers, Lookup(c)
  PROVE  \A d \in Callers : Word(call[d])'
<1>1. PICK q \in Call : q = call[c] /\ Good(q) /\ Word(q)
  BY Held DEF Promise
<1>2. /\ q.at = "lookup" /\ q.key \in Keys /\ UNCHANGED <<backend, remote, lost>>
  BY <1>1 DEF Lookup, Good
<1>3. CASE Found(q.key) = {} /\ Goto(c, "create")
  <2>1. Word(Fields(q, "create", q.id, q.copy, q.made, q.hit))'
    BY <1>1, <1>2, <1>3 DEF Word, Reuses, Lists, Fields
  <2>2. QED
    BY <1>1, <1>3, <2>1, GoingKeepsWord DEF Goto, Points
<1>4. CASE \E i \in Found(call[c].key) :
              call' = [call EXCEPT ![c] = At([@ EXCEPT !.id = i], "fetch")]
  <2>1. PICK i \in Found(q.key) : call' = [call EXCEPT ![c] = At([@ EXCEPT !.id = i], "fetch")]
    BY <1>1, <1>4
  <2>2. i \in Ids /\ (lost = {} => Stored(i))
    <3>1. PICK k \in Keys : k = q.key
      BY <1>2
    <3>2. CASE Indexed
      <4>1. i = idem[k] /\ i \in Ids
        BY <3>1, <3>2 DEF Found, Promise, Inv, TypeOK
      <4>2. QED
        BY <4>1 DEF Promise, Inv, ReferencesAreStored
    <3>3. CASE ~Indexed
      BY <3>3, Constants DEF Found, Stored
    <3>4. QED
      BY <3>2, <3>3
  <2>3. PICK p \in Call : p = Fields(q, q.at, i, q.copy, q.made, q.hit)
    BY <2>2, FieldTypes, FieldsTyped
  <2>4. call' = [call EXCEPT ![c] = At(p, "fetch")]
    BY <1>1, <2>1, <2>3, SetId
  <2>5. Word(Fields(p, "fetch", p.id, p.copy, p.made, p.hit))'
    BY <1>1, <1>2, <2>2, <2>3 DEF Word, Reuses, Lists, Fields, Stored, remote
  <2>6. QED
    BY <2>4, <2>5, GoingKeepsWord DEF Points
<1>5. QED
  BY <1>1, <1>3, <1>4 DEF Lookup

LEMMA FetchKeepsWord ==
  ASSUME Promise, StoreGrows, NEW c \in Callers, Fetch(c)
  PROVE  \A d \in Callers : Word(call[d])'
<1>1. PICK q \in Call : q = call[c] /\ Word(q)
  BY Held DEF Promise
<1>2. q.at = "fetch" /\ UNCHANGED <<backend, remote, lost>>
  BY <1>1 DEF Fetch
<1>3. PICK point \in {"done", "create"} :
         Goto(c, point) /\ (point = "create" => ~Stored(q.id))
  BY <1>1 DEF Fetch
<1>4. Word(Fields(q, point, q.id, q.copy, q.made, q.hit))'
  BY <1>1, <1>2, <1>3 DEF Word, Reuses, Lists, Fields
<1>5. QED
  BY <1>1, <1>3, <1>4, GoingKeepsWord DEF Goto, Points

LEMMA CreateKeepsWord ==
  ASSUME Promise, StoreGrows, NEW c \in Callers, Create(c)
  PROVE  \A d \in Callers : Word(call[d])'
<1>1. PICK q \in Call : q = call[c] /\ Good(q) /\ Word(q)
  BY Held DEF Promise
<1>2. q.at = "create" /\ q.key \in Keys /\ UNCHANGED <<backend, idem, kids, all, lost>>
  BY <1>1 DEF Create, Good
<1>3. PICK n \in Ids : n = minted + 1
  BY Numbers, Constants DEF Create, Promise, Ids
<1>4. PICK new \in Task : tasks' = [tasks EXCEPT ![n] = new]
  BY <1>1, <1>2, <1>3 DEF Create, Task, Status
<1>5. Stored(n)'
  BY <1>3, <1>4, Numbers, Constants DEF Promise, Stored
<1>6. PICK r \in Call :
         /\ r = Minted(q)
         /\ \/ r = IdleCall
            \/ \E at \in {"index", "tell"} :
                  r = Fields(q, at, n, q.copy, TRUE, q.hit) /\ (at = "index" <=> Indexed)
  BY <1>3, MintedCall
<1>7. Word(r)'
  <2>1. CASE r = IdleCall
    BY <2>1, IdleKeepsWord DEF Word, Reuses, Lists, Found, Stored, Indexed
  <2>2. CASE \E at \in {"index", "tell"} :
                r = Fields(q, at, n, q.copy, TRUE, q.hit) /\ (at = "index" <=> Indexed)
    <3>1. /\ r.hit = q.hit /\ r.known = q.known /\ r.id = n
          /\ r.at = "index" \/ (r.at = "tell" /\ ~Indexed)
      BY <2>2 DEF Fields
    <3>2. ~r.hit => Reuses(r)'
      BY <1>1, <1>2, <3>1 DEF Word, Reuses
    <3>3. Lists(r)'
      BY <1>2, <1>5, <3>1 DEF Lists, Stored, Indexed
    <3>4. QED
      BY <3>2, <3>3 DEF Word
  <2>3. QED
    BY <1>6, <2>1, <2>2
<1>8. call' = [call EXCEPT ![c] = r]
  BY <1>1, <1>6 DEF Create
<1>9. QED
  BY <1>7, <1>8, MoverKeepsWord

\* The steps after the record, and those of the other operations.
LEMMA AfterKeepsWord ==
  ASSUME Promise, StoreGrows, NEW c \in Callers,
         PutIndex(c) \/ PutChild(c) \/ PutListing(c) \/ Publish(c) \/ TellOwn(c) \/ Write(c)
  PROVE  \A d \in Callers : Word(call[d])'
<1>1. PICK q \in Call : q = call[c] /\ Word(q)
  BY Held DEF Promise
<1>2. Stored(q.id) => Stored(q.id)'
  BY FieldTypes DEF StoreGrows, TableKept, Stored
<1>3. lost' = lost /\ backend' = backend /\ kids \subseteq kids' /\ all \subseteq all'
  BY DEF PutIndex, PutChild, PutListing, Publish, TellOwn, Write, remote
<1>4. PICK point \in Points :
         /\ call' = [call EXCEPT ![c] = At(q, point)]
         /\ \/ q.at = "index" /\ point = "children"
            \/ q.at = "index" /\ point = "listing" /\ q.key \notin ChildKeys
            \/ q.at = "children" /\ point = "listing" /\ q.id \in kids'
            \/ q.at = "listing" /\ point = "publish" /\ q.id \in all'
            \/ q.at = "publish" /\ point = "tell"
            \/ q.at = "tell" /\ point = "done"
            \/ q.at = "write"
  <2>1. CASE PutIndex(c)
    BY <1>1, <2>1 DEF PutIndex, Goto, Points
  <2>2. CASE PutChild(c)
    BY <1>1, <2>2 DEF PutChild, Goto, Points
  <2>3. CASE PutListing(c)
    BY <1>1, <2>3 DEF PutListing, Goto, Points
  <2>4. CASE Publish(c)
    BY <1>1, <2>4 DEF Publish, Goto, Points
  <2>5. CASE TellOwn(c)
    BY <1>1, <2>5 DEF TellOwn, Goto, Points
  <2>6. CASE Write(c)
    BY <1>1, <2>6 DEF Write, AfterWrite, Goto, Points
  <2>7. QED
    BY <2>1, <2>2, <2>3, <2>4, <2>5, <2>6
<1>5. Word(Fields(q, point, q.id, q.copy, q.made, q.hit))'
  BY <1>1, <1>2, <1>3, <1>4 DEF Word, Reuses, Lists, Fields, Stored, Indexed
<1>6. QED
  BY <1>4, <1>5, GoingKeepsWord

LEMMA ReadKeepsWord ==
  ASSUME Promise, StoreGrows, NEW c \in Callers, Read(c)
  PROVE  \A d \in Callers : Word(call[d])'
<1>1. PICK q \in Call : q = call[c] /\ Word(q) /\ q.at = "read"
  BY Held DEF Promise, Read
<1>2. UNCHANGED <<backend, remote, lost>>
  BY DEF Read
<1>3. CASE Goto(c, "done")
  <2>1. Word(Fields(q, "done", q.id, q.copy, q.made, q.hit))'
    BY <1>1, <1>2 DEF Word, Reuses, Lists, Fields
  <2>2. QED
    BY <1>1, <1>3, <2>1, GoingKeepsWord DEF Goto, Points
<1>4. CASE /\ Stored(call[c].id)
           /\ call' = [call EXCEPT ![c] = At([@ EXCEPT !.copy = tasks[call[c].id]], "write")]
  <2>1. PICK copy \in Task \cup {None} : copy = tasks[q.id]
    BY <1>1, <1>4, FieldTypes, Numbers DEF Promise, Stored
  <2>2. PICK p \in Call : p = Fields(q, q.at, q.id, copy, q.made, q.hit)
    BY FieldTypes, FieldsTyped
  <2>3. call' = [call EXCEPT ![c] = At(p, "write")]
    <3>1. p = [q EXCEPT !.copy = copy]
      BY <2>2, SetCopy
    <3>2. At(p, "write") = At([call[c] EXCEPT !.copy = tasks[call[c].id]], "write")
      BY <1>1, <2>1, <3>1
    <3>3. QED
      BY <1>4, <3>2
  <2>4. Word(Fields(p, "write", p.id, p.copy, p.made, p.hit))'
    BY <1>1, <1>2, <2>2 DEF Word, Reuses, Lists, Fields
  <2>5. QED
    BY <2>3, <2>4, GoingKeepsWord DEF Points
<1>5. QED
  BY <1>3, <1>4 DEF Read

\* Of a call whose request was lost nothing is promised.
LEMMA LossKeepsWord ==
  ASSUME Promise, StoreGrows, NEW c \in Callers, LoseRequest(c) \/ LoseRecord(c)
  PROVE  \A d \in Callers : Word(call[d])'
<1>1. PICK q \in Call : q = call[c]
  BY Held DEF Promise
<1>2. PICK p \in Call : p = Fields(q, q.at, q.id, q.copy, q.made, TRUE)
  BY FieldTypes, FieldsTyped
<1>3. p = [q EXCEPT !.hit = TRUE] /\ p.hit
  BY <1>2, SetHit DEF Fields
<1>4. CASE LoseRequest(c)
  <2>1. PICK point : point = Skipped(c)
    OBVIOUS
  <2>2. point \in Points
    BY <1>4, <2>1 DEF LoseRequest, Skipped, AfterWrite, Points
  <2>3. call' = [call EXCEPT ![c] = At(p, point)]
    BY <1>1, <1>3, <1>4, <2>1 DEF LoseRequest
  <2>4. Word(Fields(p, point, p.id, p.copy, p.made, p.hit))'
    BY <1>3 DEF Word, Fields
  <2>5. QED
    BY <2>2, <2>3, <2>4, GoingKeepsWord
<1>5. CASE LoseRecord(c)
  <2>1. minted + 1 \in Ids
    BY <1>5, Numbers, Constants DEF LoseRecord, Promise, Ids
  <2>2. PICK r \in Call : r = Minted(p) /\ (r = IdleCall \/ r.hit)
    <3>1. PICK r \in Call :
             /\ r = Minted(p)
             /\ \/ r = IdleCall
                \/ \E at \in {"index", "tell"} : r = Fields(p, at, minted + 1, p.copy, TRUE, p.hit)
      BY <2>1, MintedCall
    <3>2. r = IdleCall \/ r.hit
      BY <1>3, <3>1 DEF Fields
    <3>3. QED
      BY <3>1, <3>2
  <2>3. Word(r)'
    BY <2>2, IdleKeepsWord DEF Word, Reuses, Lists, Found, Stored, Indexed
  <2>4. call' = [call EXCEPT ![c] = r]
    BY <1>1, <1>3, <1>5, <2>2 DEF LoseRecord
  <2>5. QED
    BY <2>3, <2>4, MoverKeepsWord
<1>6. QED
  BY <1>4, <1>5

LEMMA BeginKeepsWord ==
  ASSUME Promise, StoreGrows, NEW c \in Callers,
         \/ \E k \in Keys : CallRegister(c, k)
         \/ \E i \in Ids, arg \in Statuses \cup Nodes \cup {None},
               op \in {"set_status", "assign_node", "cancel"} : CallOn(c, i, op, arg)
  PROVE  \A d \in Callers : Word(call[d])'
<1>1. CASE \E k \in Keys : CallRegister(c, k)
  <2>1. PICK k \in Keys : CallRegister(c, k)
    BY <1>1
  <2>2. PICK known \in BOOLEAN : known = (\E i \in Found(k) : Stored(i))
    OBVIOUS
  <2>3. PICK r \in Call : r = NewCall("register", "lookup", k, None, None, known)
    BY DEF NewCall, Call, Ops, Points
  <2>4. call' = [call EXCEPT ![c] = r] /\ UNCHANGED <<backend, remote, lost>>
    BY <2>1, <2>2, <2>3 DEF CallRegister, Begin
  <2>5. Word(r)'
    BY <2>2, <2>3, <2>4 DEF Word, Reuses, Lists, NewCall, Found, Indexed, remote
  <2>6. QED
    BY <2>4, <2>5, MoverKeepsWord
<1>2. CASE \E i \in Ids, arg \in Statuses \cup Nodes \cup {None},
              op \in {"set_status", "assign_node", "cancel"} : CallOn(c, i, op, arg)
  <2>1. PICK i \in Ids, arg \in Statuses \cup Nodes \cup {None},
             op \in {"set_status", "assign_node", "cancel"} : CallOn(c, i, op, arg)
    BY <1>2
  <2>2. PICK r \in Call : r = NewCall(op, "read", None, i, arg, FALSE)
    BY DEF NewCall, Call, Ops, Points, Status
  <2>3. call' = [call EXCEPT ![c] = r]
    BY <2>1, <2>2 DEF CallOn, Begin
  <2>4. Word(r)'
    BY <2>2 DEF Word, Reuses, Lists, NewCall
  <2>5. QED
    BY <2>3, <2>4, MoverKeepsWord
<1>3. QED
  BY <1>1, <1>2

LEMMA PromiseInit == Init => Promise
<1>1. Init => \A c \in Callers : call[c] = IdleCall
  BY DEF Init
<1>2. QED
  BY <1>1, InitInv, IdleKeepsWord DEF Promise, Word, Reuses, Lists, IdleCall, NewCall

LEMMA PromiseStep == Promise /\ [Next]_vars => Promise'
<1> SUFFICES ASSUME Promise, [Next]_vars PROVE \A d \in Callers : Word(call[d])'
  BY StepInv DEF Promise
<1>1. StoreGrows
  BY Grows DEF Promise
<1>2. CASE UNCHANGED call
  <2>1. ASSUME NEW d \in Callers PROVE Word(call[d])'
    <3>1. PICK q \in Call : q = call[d] /\ Good(q) /\ Word(q)
      BY Held DEF Promise
    <3>2. Word(q)'
      BY <1>1, <3>1, WordStays DEF Promise
    <3>3. QED
      BY <1>2, <3>1, <3>2 DEF Word, Reuses, Lists, Found, Stored, Indexed
  <2>2. QED
    BY <2>1
<1>3. ASSUME NEW c \in Callers, Step(c) \/ LoseRequest(c) \/ LoseRecord(c)
      PROVE  \A d \in Callers : Word(call[d])'
  BY <1>1, <1>3, LookupKeepsWord, FetchKeepsWord, CreateKeepsWord, AfterKeepsWord,
     ReadKeepsWord, LossKeepsWord DEF Step, Register
<1>4. ASSUME NEW c \in Callers,
             \/ \E k \in Keys : CallRegister(c, k)
             \/ \E i \in Ids : \/ \E s \in Statuses : CallOn(c, i, "set_status", s)
                               \/ \E n \in Nodes : CallOn(c, i, "assign_node", n)
                               \/ CallOn(c, i, "cancel", None)
      PROVE  \A d \in Callers : Word(call[d])'
  BY <1>1, <1>4, BeginKeepsWord
<1>5. ASSUME NEW s \in Servers, Restart(s) PROVE \A d \in Callers : Word(call[d])'
  <2>1. ASSUME NEW d \in Callers PROVE Word(call[d])'
    <3>1. PICK q \in Call : q = call[d] /\ Good(q) /\ Word(q)
      BY Held DEF Promise
    <3>2. Word(q)'
      BY <1>1, <3>1, WordStays DEF Promise
    <3>3. call'[d] = IdleCall \/ call'[d] = q
      BY <1>5, <3>1 DEF Restart
    <3>4. QED
      BY <3>2, <3>3, IdleKeepsWord DEF Word, Reuses, Lists, Found, Stored, Indexed
  <2>2. QED
    BY <2>1
<1>6. QED
  BY <1>2, <1>3, <1>4, <1>5 DEF Next, Deliver, Deafen, vars

\* A register none of whose requests was lost, whatever the other servers do
\* meanwhile: a key whose task was stored when it began gets no second task, and
\* a task it made is in the list and among its parent's children when it answers
\* (register, store_redis.rs and store_postgres.rs).
THEOREM RegisterIsKept == Spec => []RegisterKeepsItsWord
<1>1. Spec => []Promise
  BY PromiseInit, PromiseStep, PTL DEF Spec
<1>2. Promise => RegisterKeepsItsWord
  <2> SUFFICES ASSUME Promise, NEW c \in Callers, ~call[c].hit
               PROVE  SettledKeyIsReused(c) /\ AnswerIsListed(c)
    BY DEF RegisterKeepsItsWord
  <2>1. PICK q \in Call : q = call[c] /\ Word(q)
    BY Held DEF Promise
  <2>2. SettledKeyIsReused(c)
    BY <2>1 DEF SettledKeyIsReused, Word, Reuses
  <2>3. AnswerIsListed(c)
    BY <2>1, FieldTypes DEF AnswerIsListed, Word, Lists, Listed, Stored
  <2>4. QED
    BY <2>2, <2>3
<1>3. QED
  BY <1>1, <1>2, PTL

-----------------------------------------------------------------------------
(***************************************************************************)
(* A task is announced by the call that made it, once: until that call has *)
(* published, nobody has heard of the task and no event names it; from     *)
(* then on the own watchers wait for the call, and those of another server *)
(* for the one event on its wire (OnceInv).                                *)
(***************************************************************************)
Announces(q) ==
    q.op = "register" /\ q.at \in {"index", "children", "listing", "publish", "tell"}
Submits(e, i) == e.kind = "submitted" /\ e.id = i

Unheard(i) ==
    \A s \in Servers : /\ heard[s][i] = 0
                       /\ \A n \in DOMAIN wire[s] : ~Submits(wire[s][n], i)
ToldBy(o, i) ==
    /\ heard[o][i] = 0
    /\ \A s \in Servers : \A n \in DOMAIN wire[s] :
          Submits(wire[s][n], i) => wire[s][n].origin = o
Secret(q, o) ==
    Announces(q) => /\ q.id \in Ids /\ q.id <= minted
                    /\ q.at = "tell" => ToldBy(o, q.id)
                    /\ q.at # "tell" => Unheard(q.id)
WireInv(s) ==
    /\ \A n, m \in DOMAIN wire[s] :
          wire[s][n].kind = "submitted" /\ Submits(wire[s][m], wire[s][n].id) => n = m
    /\ \A n \in DOMAIN wire[s] :
          wire[s][n].kind = "submitted" /\ wire[s][n].origin # s => heard[s][wire[s][n].id] = 0
Alone(c, d) ==
    Announces(call[c]) /\ Announces(call[d]) /\ call[c].id = call[d].id => c = d

OnceInv ==
    /\ SubmittedOnce
    /\ \A i \in Ids : i > minted => Unheard(i)
    /\ \A s \in Servers : WireInv(s)
    /\ \A c \in Callers : Secret(call[c], ServerOf[c])
    /\ \A c, d \in Callers : Alone(c, d)

Once == Inv /\ OnceInv

LEMMA OnceInit == Init => Once
<1> SUFFICES ASSUME Init PROVE OnceInv
  BY InitInv DEF Once
<1>1. SubmittedOnce /\ (\A i \in Ids : Unheard(i)) /\ \A s \in Servers : WireInv(s)
  BY DEF Init, SubmittedOnce, Unheard, WireInv
<1>2. \A c \in Callers : ~Announces(call[c])
  BY DEF Init, IdleCall, NewCall, Announces
<1>3. QED
  BY <1>1, <1>2 DEF OnceInv, Secret, Alone

\* A step that does not concern task i: nobody hears of it, no event is added.
Quiet(i) ==
    /\ \A s \in Servers : heard'[s][i] = heard[s][i]
    /\ \A s \in Servers : \A n \in DOMAIN wire'[s] :
          Submits(wire'[s][n], i) => \E m \in DOMAIN wire[s] : wire'[s][n] = wire[s][m]

LEMMA QuietKeeps ==
  ASSUME NEW i, Quiet(i)
  PROVE  /\ Unheard(i) => Unheard(i)'
         /\ \A o \in Servers : ToldBy(o, i) => ToldBy(o, i)'
  BY DEF Quiet, Unheard, ToldBy, Submits

LEMMA UnheardIsUntold ==
  ASSUME NEW o \in Servers, NEW i, Unheard(i)
  PROVE  ToldBy(o, i)
  BY DEF Unheard, ToldBy

\* Call c becomes r; of the others what was true of them stays true.
LEMMA OnceCalls ==
  ASSUME Once, NEW c \in Callers, NEW r \in Call, call' = [call EXCEPT ![c] = r],
         Secret(r, ServerOf[c])',
         \A d \in Callers \ {c} :
            Announces(call[d]) => /\ Secret(call[d], ServerOf[d]) => Quiet(call[d].id)
                                  /\ Announces(r) => call[d].id # r.id,
         minted' \in Nat, minted' >= minted
  PROVE  /\ \A d \in Callers : Secret(call[d], ServerOf[d])'
         /\ \A d, e \in Callers : Alone(d, e)'
<1>1. call'[c] = r /\ \A d \in Callers \ {c} : call'[d] = call[d]
  BY DEF Once, Inv, TypeOK
<1>2. ASSUME NEW d \in Callers PROVE Secret(call[d], ServerOf[d])'
  <2>1. CASE d = c
    BY <1>1, <2>1 DEF Secret, Announces, ToldBy, Unheard, Submits
  <2>2. CASE d # c
    <3>1. PICK q \in Call : q = call[d]
      BY Held DEF Once
    <3>2. PICK o \in Servers : o = ServerOf[d]
      BY Constants
    <3>3. Secret(q, o)'
      <4>1. CASE Announces(q)
        <5>1. Secret(q, o) /\ Quiet(q.id)
          BY <2>2, <3>1, <3>2, <4>1 DEF Once, OnceInv
        <5>2. q.id \in Ids /\ q.id <= minted /\ minted \in Nat
          BY <4>1, <5>1, Numbers, Constants DEF Secret, Once, Inv, TypeOK
        <5>3. q.id <= minted'
          BY <5>2, Constants DEF Ids
        <5>4. /\ q.at = "tell" => ToldBy(o, q.id)'
              /\ q.at # "tell" => Unheard(q.id)'
          BY <4>1, <5>1, QuietKeeps DEF Secret
        <5>5. QED
          BY <5>2, <5>3, <5>4 DEF Secret
      <4>2. CASE ~Announces(q)
        BY <4>2 DEF Secret, Announces
      <4>3. QED
        BY <4>1, <4>2
    <3>4. QED
      BY <1>1, <2>2, <3>1, <3>2, <3>3 DEF Secret, Announces, ToldBy, Unheard, Submits
  <2>3. QED
    BY <2>1, <2>2
<1>3. ASSUME NEW d \in Callers, NEW e \in Callers PROVE Alone(d, e)'
  BY <1>1 DEF Alone, Announces, Once, OnceInv
<1>4. QED
  BY <1>2, <1>3

\* A call goes on, and announces no task it did not announce before.
LEMMA OnceMoves ==
  ASSUME Once, NEW c \in Callers, NEW r \in Call, call' = [call EXCEPT ![c] = r],
         UNCHANGED <<minted, wire, heard>>,
         Announces(r) => Announces(call[c]) /\ r.id = call[c].id /\ call[c].at # "tell"
  PROVE  OnceInv'
<1>1. \A i : Quiet(i)
  BY DEF Quiet
<1>2. PICK o \in Servers : o = ServerOf[c]
  BY Constants
<1>3. Secret(r, o)'
  <2>1. CASE Announces(r)
    <3>1. Secret(call[c], o)
      BY <1>2 DEF Once, OnceInv
    <3>2. r.id \in Ids /\ r.id <= minted /\ Unheard(r.id)
      BY <2>1, <3>1 DEF Secret
    <3>3. Unheard(r.id)' /\ ToldBy(o, r.id)'
      BY <1>1, <1>2, <3>2, QuietKeeps, UnheardIsUntold
    <3>4. QED
      BY <3>2, <3>3 DEF Secret
  <2>2. CASE ~Announces(r)
    BY <2>2 DEF Secret, Announces
  <2>3. QED
    BY <2>1, <2>2
<1>4. \A d \in Callers \ {c} : Announces(call[d]) /\ Announces(r) => call[d].id # r.id
  BY DEF Once, OnceInv, Alone
<1>5. minted' \in Nat /\ minted' >= minted
  BY Numbers, Constants DEF Once
<1>6. /\ \A d \in Callers : Secret(call[d], ServerOf[d])'
      /\ \A d, e \in Callers : Alone(d, e)'
  BY <1>1, <1>2, <1>3, <1>4, <1>5, OnceCalls
<1>7. SubmittedOnce' /\ (\A i \in Ids : i > minted' => Unheard(i)') /\ \A s \in Servers : WireInv(s)'
  BY DEF Once, OnceInv, SubmittedOnce, Unheard, WireInv, Submits
<1>8. QED
  BY <1>6, <1>7 DEF OnceInv

\* The call p at c goes on to a point where it announces nothing, or further on
\* the way of a register to its announcement.
LEMMA OnceGoes ==
  ASSUME Once, NEW c \in Callers, NEW p \in Call, NEW point \in Points,
         call' = [call EXCEPT ![c] = At(p, point)],
         UNCHANGED <<minted, wire, heard>>,
         \/ point \in {"idle", "lookup", "fetch", "create", "read", "write", "done"}
         \/ p.op # "register"
         \/ Announces(call[c]) /\ call[c].at # "tell" /\ p.id = call[c].id
  PROVE  OnceInv'
<1>1. PICK r \in Call : r = At(p, point)
  BY Moved
<1>2. Announces(r) => Announces(call[c]) /\ r.id = call[c].id /\ call[c].at # "tell"
  <2>1. CASE r = IdleCall
    BY <2>1 DEF IdleCall, NewCall, Announces
  <2>2. CASE r = Fields(p, point, p.id, p.copy, p.made, p.hit)
    <3>1. r.op = p.op /\ r.at = point /\ r.id = p.id
      BY <2>2 DEF Fields
    <3>2. QED
      BY <3>1 DEF Announces
  <2>3. QED
    BY <1>1, <2>1, <2>2, Moved
<1>3. QED
  BY <1>1, <1>2, OnceMoves

LEMMA OnceBegin ==
  ASSUME Once, NEW c \in Callers, NEW op, NEW key, NEW id, NEW arg, NEW known,
         NEW at \in {"lookup", "read"}, NewCall(op, at, key, id, arg, known) \in Call,
         Begin(c, NewCall(op, at, key, id, arg, known))
  PROVE  OnceInv'
<1>1. PICK r \in Call : r = NewCall(op, at, key, id, arg, known)
  OBVIOUS
<1>2. ~Announces(r)
  BY <1>1 DEF NewCall, Announces
<1>3. call' = [call EXCEPT ![c] = r] /\ UNCHANGED <<minted, wire, heard>>
  BY <1>1 DEF Begin, remote, events
<1>4. QED
  BY <1>2, <1>3, OnceMoves

LEMMA OnceReads ==
  ASSUME Once, NEW c \in Callers,
         Lookup(c) \/ Fetch(c) \/ Read(c) \/ Write(c)
  PROVE  OnceInv'
<1>1. PICK q \in Call : q = call[c] /\ Good(q)
  BY Held DEF Once
<1>2. UNCHANGED <<minted, wire, heard>>
  BY DEF Lookup, Fetch, Read, Write, remote, events
<1>3. CASE Lookup(c)
  <2>1. CASE Goto(c, "create")
    BY <1>1, <1>2, <2>1, OnceGoes DEF Goto, Points
  <2>2. CASE \E i \in Found(call[c].key) :
                call' = [call EXCEPT ![c] = At([@ EXCEPT !.id = i], "fetch")]
    <3>1. PICK i \in Found(call[c].key) :
             call' = [call EXCEPT ![c] = At([@ EXCEPT !.id = i], "fetch")]
      BY <2>2
    <3>2. i \in Ids
      BY <1>1, <1>3 DEF Lookup, Found, Once, Inv, TypeOK, Good
    <3>3. PICK p \in Call : p = Fields(q, q.at, i, q.copy, q.made, q.hit)
      BY <3>2, FieldTypes, FieldsTyped
    <3>4. call' = [call EXCEPT ![c] = At(p, "fetch")]
      BY <1>1, <3>1, <3>3, SetId
    <3>5. QED
      BY <1>2, <3>4, OnceGoes DEF Points
  <2>3. QED
    BY <1>3, <2>1, <2>2 DEF Lookup
<1>4. CASE Fetch(c)
  <2>1. PICK point \in {"done", "create"} : Goto(c, point)
    BY <1>4 DEF Fetch
  <2>2. QED
    BY <1>1, <1>2, <2>1, OnceGoes DEF Goto, Points
<1>5. CASE Read(c)
  <2>1. CASE Goto(c, "done")
    BY <1>1, <1>2, <2>1, OnceGoes DEF Goto, Points
  <2>2. CASE /\ Stored(call[c].id)
             /\ call' = [call EXCEPT ![c] = At([@ EXCEPT !.copy = tasks[call[c].id]], "write")]
    <3>1. PICK copy \in Task : copy = tasks[q.id]
      BY <1>1, <1>5, <2>2, Numbers DEF Read, Once, Good, Stored
    <3>2. PICK p \in Call : p = Fields(q, q.at, q.id, copy, q.made, q.hit)
      BY FieldTypes, FieldsTyped
    <3>3. call' = [call EXCEPT ![c] = At(p, "write")]
      <4>1. p = [q EXCEPT !.copy = copy]
        BY <3>2, SetCopy
      <4>2. At(p, "write") = At([call[c] EXCEPT !.copy = tasks[call[c].id]], "write")
        BY <1>1, <3>1, <4>1
      <4>3. QED
        BY <2>2, <4>2
    <3>4. QED
      BY <1>2, <3>3, OnceGoes DEF Points
  <2>3. QED
    BY <1>5, <2>1, <2>2 DEF Read
<1>6. CASE Write(c)
  <2>1. q.op # "register"
    BY <1>1, <1>6 DEF Write, Good, Asked
  <2>2. PICK point \in Points : call' = [call EXCEPT ![c] = At(q, point)]
    BY <1>1, <1>6 DEF Write, AfterWrite, Goto, Points
  <2>3. QED
    BY <1>2, <2>1, <2>2, OnceGoes
<1>7. QED
  BY <1>3, <1>4, <1>5, <1>6

\* The indexes are written on the way to the announcement.
LEMMA OnceIndexes ==
  ASSUME Once, NEW c \in Callers, PutIndex(c) \/ PutChild(c) \/ PutListing(c)
  PROVE  OnceInv'
<1>1. PICK q \in Call : q = call[c] /\ Good(q)
  BY Held DEF Once
<1>2. UNCHANGED <<minted, wire, heard>> /\ Announces(q) /\ q.at # "tell"
  BY <1>1 DEF PutIndex, PutChild, PutListing, events, Good, Announces
<1>3. PICK point \in Points : call' = [call EXCEPT ![c] = At(q, point)]
  BY <1>1 DEF PutIndex, PutChild, PutListing, Goto, Points
<1>4. QED
  BY <1>1, <1>2, <1>3, OnceGoes

\* So does a call that lost its request, unless it had nothing to announce.
LEMMA OnceLoses ==
  ASSUME Once, NEW c \in Callers, LoseRequest(c)
  PROVE  OnceInv'
<1>1. PICK q \in Call : q = call[c] /\ Good(q)
  BY Held DEF Once
<1>2. PICK p \in Call : p = Fields(q, q.at, q.id, q.copy, q.made, TRUE)
  BY FieldTypes, FieldsTyped
<1>3. p = [q EXCEPT !.hit = TRUE] /\ p.op = q.op /\ p.id = q.id
  BY <1>2, SetHit DEF Fields
<1>4. PICK point : point = Skipped(c)
  OBVIOUS
<1>5. /\ point \in Points
      /\ \/ point \in {"create", "done"}
         \/ q.op # "register"
         \/ Announces(q) /\ q.at # "tell"
  BY <1>1, <1>4 DEF LoseRequest, Skipped, AfterWrite, Points, Good, Asked, Announces
<1>6. call' = [call EXCEPT ![c] = At(p, point)] /\ UNCHANGED <<minted, wire, heard>>
  BY <1>1, <1>3, <1>4 DEF LoseRequest, remote, events
<1>7. QED
  BY <1>1, <1>3, <1>5, <1>6, OnceGoes

\* A new task is unheard of.
LEMMA OnceMints ==
  ASSUME Once, NEW c \in Callers, minted < MaxTasks, NEW q \in Call,
         call' = [call EXCEPT ![c] = Minted(q)], minted' = minted + 1,
         UNCHANGED <<wire, heard>>
  PROVE  OnceInv'
<1>1. PICK n \in Ids : n = minted + 1 /\ minted \in Nat /\ n \in Nat
  BY Numbers, Constants DEF Ids, Once
<1>2. Unheard(n)
  BY <1>1 DEF Once, OnceInv
<1>3. PICK r \in Call :
         /\ r = Minted(q)
         /\ \/ r = IdleCall
            \/ \E at \in {"index", "tell"} : r = Fields(q, at, n, q.copy, TRUE, q.hit)
  <2>1. minted + 1 \in Ids
    BY <1>1
  <2>2. QED
    BY <1>1, <2>1, MintedCall
<1>4. Announces(r) => r.id = n
  BY <1>3 DEF IdleCall, NewCall, Fields, Announces
<1>5. \A i : Quiet(i)
  BY DEF Quiet
<1>6. PICK o \in Servers : o = ServerOf[c]
  BY Constants
<1>7. Unheard(n)' /\ ToldBy(o, n)'
  BY <1>2, <1>5, <1>6, QuietKeeps, UnheardIsUntold
<1>8. Secret(r, o)'
  <2>1. n <= minted'
    BY <1>1
  <2>2. CASE Announces(r)
    BY <1>1, <1>4, <1>7, <2>1, <2>2 DEF Secret
  <2>3. CASE ~Announces(r)
    BY <2>3 DEF Secret, Announces
  <2>4. QED
    BY <2>2, <2>3
<1>9. ASSUME NEW d \in Callers \ {c}, Announces(call[d]), Announces(r)
      PROVE  call[d].id # r.id
  <2>1. call[d].id \in Ids /\ call[d].id <= minted
    BY <1>9 DEF Once, OnceInv, Secret
  <2>2. QED
    BY <1>1, <1>4, <1>9, <2>1 DEF Ids
<1>10. /\ \A d \in Callers : Secret(call[d], ServerOf[d])'
       /\ \A d, e \in Callers : Alone(d, e)'
  <2>1. call' = [call EXCEPT ![c] = r] /\ minted' \in Nat /\ minted' >= minted
    BY <1>1, <1>3
  <2>2. QED
    BY <1>5, <1>6, <1>8, <1>9, <2>1, OnceCalls
<1>11. \A i \in Ids : i > minted' => Unheard(i)'
  BY <1>1, <1>5, QuietKeeps DEF Once, OnceInv, Ids
<1>12. SubmittedOnce' /\ \A s \in Servers : WireInv(s)'
  BY DEF Once, OnceInv, SubmittedOnce, WireInv, Submits
<1>13. QED
  BY <1>10, <1>11, <1>12 DEF OnceInv

LEMMA OnceCreates ==
  ASSUME Once, NEW c \in Callers, Create(c) \/ LoseRecord(c)
  PROVE  OnceInv'
<1>1. PICK q \in Call : q = call[c]
  BY Held DEF Once
<1>2. PICK p \in Call : p = Fields(q, q.at, q.id, q.copy, q.made, TRUE)
  BY FieldTypes, FieldsTyped
<1>3. p = [q EXCEPT !.hit = TRUE]
  BY <1>2, SetHit
<1>4. minted < MaxTasks /\ minted' = minted + 1 /\ UNCHANGED <<wire, heard>>
  BY DEF Create, LoseRecord, events
<1>5. call' = [call EXCEPT ![c] = Minted(q)] \/ call' = [call EXCEPT ![c] = Minted(p)]
  BY <1>1, <1>3 DEF Create, LoseRecord
<1>6. QED
  BY <1>4, <1>5, OnceMints

\* The event of a call that announces its task, and of one that does not.
LEMMA EventKind ==
  ASSUME NEW c \in Callers
  PROVE  /\ EventOf(c).id = call[c].id /\ EventOf(c).origin = ServerOf[c]
         /\ EventOf(c).kind = "submitted" <=> call[c].op = "register"
<1>1. EventOf(c).kind = "submitted" <=> call[c].op = "register"
  <2>1. CASE call[c].op = "register"
    BY <2>1 DEF EventOf
  <2>2. CASE call[c].op = "cancel"
    BY <2>2 DEF EventOf
  <2>3. CASE call[c].op \notin {"register", "cancel"}
    BY <2>3 DEF EventOf
  <2>4. QED
    BY <2>1, <2>2, <2>3
<1>2. QED
  BY <1>1 DEF EventOf

\* An event is published where nobody heard of its task.
LEMMA OncePublishes ==
  ASSUME Once, NEW c \in Callers, Publish(c)
  PROVE  OnceInv'
<1>1. PICK q \in Call : q = call[c] /\ Good(q)
  BY Held DEF Once
<1>2. PICK o \in Servers : o = ServerOf[c]
  BY Constants
<1>3. PICK ev : ev = EventOf(c)
  OBVIOUS
<1>4. /\ ev.id = q.id /\ ev.origin = o /\ (ev.kind = "submitted" <=> q.op = "register")
      /\ q.at = "publish"
  BY <1>1, <1>2, <1>3, EventKind DEF Publish
<1>5. /\ wire' = [s \in Servers |-> IF s \in deaf THEN wire[s] ELSE Append(wire[s], ev)]
      /\ call' = [call EXCEPT ![c] = At(q, "tell")]
      /\ UNCHANGED <<minted, heard>>
  BY <1>1, <1>3 DEF Publish, Goto, remote
<1>6. ASSUME NEW s \in Servers, NEW n \in DOMAIN wire'[s]
      PROVE  \/ n \in DOMAIN wire[s] /\ wire'[s][n] = wire[s][n]
             \/ n = Len(wire[s]) + 1 /\ wire'[s][n] = ev
  <2>1. wire[s] \in Seq(Event)
    BY DEF Once, Inv, TypeOK
  <2>2. CASE s \in deaf
    BY <1>5, <2>2
  <2>3. CASE s \notin deaf
    <3>1. wire'[s] = Append(wire[s], ev)
      BY <1>5, <2>3
    <3>2. QED
      BY <2>1, <3>1
  <2>4. QED
    BY <2>2, <2>3
<1>7. q.op = "register" => q.id \in Ids /\ q.id <= minted /\ Unheard(q.id)
  <2>1. Secret(q, o)
    BY <1>1, <1>2 DEF Once, OnceInv
  <2>2. QED
    BY <1>4, <2>1 DEF Secret, Announces
<1>8. ASSUME NEW i, ~(q.op = "register" /\ i = q.id) PROVE Quiet(i)
  BY <1>4, <1>5, <1>6, <1>8 DEF Quiet, Submits
<1>9. PICK r \in Call : r = At(q, "tell") /\ (r = IdleCall \/ (r.op = q.op /\ r.id = q.id /\ r.at = "tell"))
  BY Moved DEF Points, Fields
<1>10. Announces(r) => q.op = "register" /\ r.id = q.id /\ r.at = "tell" /\ Announces(q)
  BY <1>4, <1>9 DEF IdleCall, NewCall, Announces
<1>11. Secret(r, o)'
  <2>1. CASE Announces(r)
    <3>1. ToldBy(o, q.id)'
      <4>1. heard'[o][q.id] = 0
        BY <1>2, <1>5, <1>7, <1>10, <2>1 DEF Unheard
      <4>2. ASSUME NEW s \in Servers, NEW n \in DOMAIN wire'[s], Submits(wire'[s][n], q.id)
            PROVE  wire'[s][n].origin = o
        BY <1>4, <1>6, <1>7, <1>10, <2>1, <4>2 DEF Unheard
      <4>3. QED
        BY <4>1, <4>2 DEF ToldBy, Submits
    <3>2. q.id <= minted'
      BY <1>5, <1>7, <1>10, <2>1
    <3>3. QED
      BY <1>7, <1>10, <2>1, <3>1, <3>2 DEF Secret
  <2>2. CASE ~Announces(r)
    BY <2>2 DEF Secret, Announces
  <2>3. QED
    BY <2>1, <2>2
<1>12. ASSUME NEW d \in Callers \ {c}, Announces(call[d])
       PROVE  /\ Quiet(call[d].id)
              /\ Announces(r) => call[d].id # r.id
  <2>1. Announces(q) => call[d].id # q.id
    BY <1>1, <1>12 DEF Once, OnceInv, Alone
  <2>2. q.op = "register" => Announces(q)
    BY <1>4 DEF Announces
  <2>3. QED
    BY <1>8, <1>10, <2>1, <2>2
<1>13. /\ \A d \in Callers : Secret(call[d], ServerOf[d])'
       /\ \A d, e \in Callers : Alone(d, e)'
  <2>1. call' = [call EXCEPT ![c] = r] /\ minted' \in Nat /\ minted' >= minted
    BY <1>5, <1>9, Numbers, Constants DEF Once
  <2>2. QED
    BY <1>2, <1>11, <1>12, <2>1, OnceCalls
<1>14. ASSUME NEW i \in Ids, i > minted' PROVE Unheard(i)'
  <2>1. i > minted /\ Unheard(i)
    BY <1>5, <1>14 DEF Once, OnceInv
  <2>2. q.op = "register" => i # q.id
    BY <1>7, <2>1, Numbers, Constants DEF Ids, Once
  <2>3. QED
    BY <1>8, <2>1, <2>2, QuietKeeps
<1>15. ASSUME NEW s \in Servers PROVE WireInv(s)'
  <2>1. WireInv(s)
    BY DEF Once, OnceInv
  <2>2. ASSUME NEW n \in DOMAIN wire'[s], NEW m \in DOMAIN wire'[s],
               wire'[s][n].kind = "submitted", Submits(wire'[s][m], wire'[s][n].id)
        PROVE  n = m
    <3>1. CASE n \in DOMAIN wire[s] /\ wire'[s][n] = wire[s][n]
      BY <1>4, <1>6, <1>7, <2>1, <2>2, <3>1 DEF WireInv, Submits, Unheard
    <3>2. CASE n = Len(wire[s]) + 1 /\ wire'[s][n] = ev
      BY <1>4, <1>6, <1>7, <2>1, <2>2, <3>2 DEF WireInv, Submits, Unheard
    <3>3. QED
      BY <1>6, <3>1, <3>2
  <2>3. ASSUME NEW n \in DOMAIN wire'[s], wire'[s][n].kind = "submitted",
               wire'[s][n].origin # s
        PROVE  heard'[s][wire'[s][n].id] = 0
    BY <1>4, <1>5, <1>6, <1>7, <2>1, <2>3 DEF WireInv, Unheard
  <2>4. QED
    BY <2>2, <2>3 DEF WireInv, Submits
<1>16. SubmittedOnce'
  BY <1>5 DEF Once, OnceInv, SubmittedOnce
<1>17. QED
  BY <1>13, <1>14, <1>15, <1>16 DEF OnceInv

LEMMA WireEvents ==
  ASSUME Inv, NEW s \in Servers, NEW n \in DOMAIN wire[s]
  PROVE  wire[s][n] \in Event /\ wire[s][n].id \in Ids
<1>1. PICK w \in Seq(Event) : w = wire[s]
  BY DEF Inv, TypeOK
<1>2. w[n] \in Event
  BY <1>1
<1>3. QED
  BY <1>1, <1>2 DEF Event

\* One watcher more is told of task i, which it has not heard of.
LEMMA ToldOnce ==
  ASSUME Inv, SubmittedOnce, NEW s \in Servers, NEW i \in Ids, heard[s][i] = 0,
         heard' = [heard EXCEPT ![s][i] = @ + 1]
  PROVE  /\ SubmittedOnce'
         /\ \A t \in Servers, j \in Ids : t # s \/ j # i => heard'[t][j] = heard[t][j]
<1>1. heard \in [Servers -> [Ids -> Nat]]
  BY DEF Inv, TypeOK
<1>2. heard' = [heard EXCEPT ![s] = [heard[s] EXCEPT ![i] = 1]]
  BY <1>1
<1>3. QED
  BY <1>1, <1>2 DEF SubmittedOnce

\* The own watchers are told by the call alone.
LEMMA OnceTellsOwn ==
  ASSUME Once, NEW c \in Callers, TellOwn(c)
  PROVE  OnceInv'
<1>1. PICK q \in Call : q = call[c] /\ Good(q)
  BY Held DEF Once
<1>2. PICK o \in Servers : o = ServerOf[c]
  BY Constants
<1>3. PICK ev : ev = EventOf(c)
  OBVIOUS
<1>4. /\ ev.id = q.id /\ (ev.kind = "submitted" <=> q.op = "register")
      /\ q.at = "tell" /\ q.id \in Ids
  BY <1>1, <1>3, EventKind DEF TellOwn, Good
<1>5. /\ call' = [call EXCEPT ![c] = At(q, "done")] /\ UNCHANGED <<minted, wire>>
      /\ Tell(o, ev)
  BY <1>1, <1>2, <1>3 DEF TellOwn, Goto, remote
<1>6. CASE q.op # "register"
  <2>1. heard' = heard
    BY <1>4, <1>5, <1>6 DEF Tell
  <2>2. QED
    BY <1>1, <1>5, <2>1, OnceGoes DEF Points
<1>7. CASE q.op = "register"
  <2>1. Announces(q) /\ ToldBy(o, q.id) /\ q.id <= minted
    BY <1>1, <1>2, <1>4, <1>7 DEF Once, OnceInv, Secret, Announces
  <2>2. heard' = [heard EXCEPT ![o][q.id] = @ + 1] /\ heard[o][q.id] = 0
    BY <1>4, <1>5, <1>7, <2>1 DEF Tell, ToldBy
  <2>3. /\ SubmittedOnce'
        /\ \A t \in Servers, j \in Ids : t # o \/ j # q.id => heard'[t][j] = heard[t][j]
    BY <1>2, <1>4, <2>2, ToldOnce DEF Once, OnceInv
  <2>4. ASSUME NEW i \in Ids, i # q.id PROVE Quiet(i)
    BY <1>5, <2>3, <2>4 DEF Quiet
  <2>5. PICK r \in Call : r = At(q, "done") /\ ~Announces(r)
    BY Moved DEF Points, Fields, IdleCall, NewCall, Announces
  <2>6. ASSUME NEW d \in Callers \ {c}, Announces(call[d]), Secret(call[d], ServerOf[d])
        PROVE  Quiet(call[d].id)
    BY <1>1, <2>1, <2>4, <2>6 DEF Once, OnceInv, Alone, Secret
  <2>7. /\ \A d \in Callers : Secret(call[d], ServerOf[d])'
        /\ \A d, e \in Callers : Alone(d, e)'
    <3>1. call' = [call EXCEPT ![c] = r] /\ minted' \in Nat /\ minted' >= minted
      BY <1>5, <2>5, Numbers, Constants DEF Once
    <3>2. Secret(r, o)'
      BY <2>5 DEF Secret, Announces
    <3>3. QED
      BY <1>2, <2>5, <2>6, <3>1, <3>2, OnceCalls
  <2>8. ASSUME NEW i \in Ids, i > minted' PROVE Unheard(i)'
    <3>1. i > minted /\ Unheard(i) /\ i # q.id
      BY <1>4, <1>5, <2>1, <2>8, Numbers, Constants DEF Once, OnceInv, Ids
    <3>2. QED
      BY <2>4, <3>1, QuietKeeps
  <2>9. ASSUME NEW s \in Servers PROVE WireInv(s)'
    <3>1. WireInv(s) /\ wire[s] \in Seq(Event)
      BY DEF Once, OnceInv, Inv, TypeOK
    <3>2. ASSUME NEW n \in DOMAIN wire[s], wire[s][n].kind = "submitted", wire[s][n].origin # s
          PROVE  heard'[s][wire[s][n].id] = 0
      <4>1. wire[s][n].id \in Ids
        BY WireEvents DEF Once
      <4>2. s # o \/ wire[s][n].id # q.id
        BY <2>1, <3>2 DEF ToldBy, Submits
      <4>3. QED
        BY <2>3, <3>1, <3>2, <4>1, <4>2 DEF WireInv
    <3>3. QED
      BY <1>5, <3>1, <3>2 DEF WireInv, Submits
  <2>10. QED
    BY <2>3, <2>7, <2>8, <2>9 DEF OnceInv
<1>8. QED
  BY <1>6, <1>7

\* The watchers of another server are told by the one event on its wire.
LEMMA OnceDelivers ==
  ASSUME Once, NEW s \in Servers, Deliver(s)
  PROVE  OnceInv'
<1>1. PICK w \in Seq(Event) : w = wire[s] /\ w # <<>>
  BY DEF Deliver, Once, Inv, TypeOK
<1>2. PICK e \in Event : e = Head(w) /\ e = w[1] /\ 1 \in DOMAIN w
  BY <1>1
<1>3. /\ wire' = [wire EXCEPT ![s] = Tail(w)] /\ UNCHANGED <<call, minted>>
      /\ IF e.origin # s THEN Tell(s, e) ELSE UNCHANGED heard
  BY <1>1, <1>2 DEF Deliver, remote
<1>4. e.id \in Ids
  BY DEF Event
<1>5. ASSUME NEW t \in Servers, NEW n \in DOMAIN wire'[t]
      PROVE  /\ t = s => n + 1 \in DOMAIN wire[t] /\ wire'[t][n] = wire[t][n + 1] /\ n \in Nat \ {0}
             /\ t # s => n \in DOMAIN wire[t] /\ wire'[t][n] = wire[t][n]
  <2>1. CASE t = s
    <3>1. wire'[t] = Tail(w)
      BY <1>3, <2>1 DEF Once, Inv, TypeOK
    <3>2. n + 1 \in DOMAIN w /\ Tail(w)[n] = w[n + 1] /\ n \in Nat \ {0}
      BY <1>1, <3>1
    <3>3. QED
      BY <1>1, <2>1, <3>1, <3>2
  <2>2. CASE t # s
    BY <1>3, <2>2 DEF Once, Inv, TypeOK
  <2>3. QED
    BY <2>1, <2>2
<1>6. /\ SubmittedOnce'
      /\ \A t \in Servers, j \in Ids :
            heard'[t][j] = heard[t][j] \/ (t = s /\ Submits(e, j) /\ e.origin # s)
  <2>1. CASE e.kind = "submitted" /\ e.origin # s
    <3>1. heard' = [heard EXCEPT ![s][e.id] = @ + 1]
      BY <1>3, <2>1 DEF Tell
    <3>2. heard[s][e.id] = 0
      BY <1>1, <1>2, <2>1 DEF Once, OnceInv, WireInv
    <3>3. PICK i \in Ids : i = e.id
      BY <1>4
    <3>4. heard' = [heard EXCEPT ![s][i] = @ + 1] /\ heard[s][i] = 0
      BY <3>1, <3>2, <3>3
    <3>5. /\ SubmittedOnce'
          /\ \A t \in Servers, j \in Ids : t # s \/ j # i => heard'[t][j] = heard[t][j]
      BY <3>4, ToldOnce DEF Once, OnceInv
    <3>6. QED
      BY <2>1, <3>3, <3>5 DEF Submits
  <2>2. CASE ~(e.kind = "submitted" /\ e.origin # s)
    <3>1. heard' = heard
      BY <1>3, <2>2 DEF Tell
    <3>2. QED
      BY <3>1 DEF Once, OnceInv, SubmittedOnce
  <2>3. QED
    BY <2>1, <2>2
<1>7. ASSUME NEW i \in Ids, ~Submits(e, i) PROVE Quiet(i)
  <2>1. \A t \in Servers : heard'[t][i] = heard[t][i]
    BY <1>6, <1>7
  <2>2. \A t \in Servers : \A n \in DOMAIN wire'[t] :
           \E m \in DOMAIN wire[t] : wire'[t][n] = wire[t][m]
    BY <1>5
  <2>3. QED
    BY <2>1, <2>2 DEF Quiet
<1>8. ASSUME NEW i \in Ids, Unheard(i) PROVE Unheard(i)'
  <2>1. ~Submits(e, i)
    BY <1>1, <1>2, <1>8 DEF Unheard
  <2>2. QED
    BY <1>7, <1>8, <2>1, QuietKeeps
<1>9. ASSUME NEW i \in Ids, NEW o \in Servers, ToldBy(o, i) PROVE ToldBy(o, i)'
  <2>1. Submits(e, i) => e.origin = o
    BY <1>1, <1>2, <1>9 DEF ToldBy
  <2>2. heard'[o][i] = 0
    BY <1>6, <1>9, <2>1 DEF ToldBy
  <2>3. \A t \in Servers : \A n \in DOMAIN wire'[t] :
           Submits(wire'[t][n], i) => wire'[t][n].origin = o
    BY <1>5, <1>9 DEF ToldBy
  <2>4. QED
    BY <2>2, <2>3 DEF ToldBy, Submits
<1>10. ASSUME NEW c \in Callers PROVE Secret(call[c], ServerOf[c])'
  <2>1. PICK q \in Call : q = call[c]
    BY Held DEF Once
  <2>2. PICK o \in Servers : o = ServerOf[c]
    BY Constants
  <2>3. Secret(q, o)
    BY <2>1, <2>2 DEF Once, OnceInv
  <2>4. Secret(q, o)'
    BY <1>3, <1>8, <1>9, <2>2, <2>3 DEF Secret, Announces
  <2>5. QED
    BY <1>3, <2>1, <2>2, <2>4 DEF Secret, Announces, ToldBy, Unheard, Submits
<1>11. \A c, d \in Callers : Alone(c, d)'
  BY <1>3 DEF Once, OnceInv, Alone, Announces
<1>12. \A i \in Ids : i > minted' => Unheard(i)'
  BY <1>3, <1>8 DEF Once, OnceInv
<1>13. ASSUME NEW t \in Servers PROVE WireInv(t)'
  <2>1. WireInv(t)
    BY DEF Once, OnceInv
  <2>2. ASSUME NEW n \in DOMAIN wire'[t], NEW m \in DOMAIN wire'[t],
               wire'[t][n].kind = "submitted", Submits(wire'[t][m], wire'[t][n].id)
        PROVE  n = m
    <3>1. CASE t = s
      <4>1. n + 1 = m + 1
        BY <1>5, <2>1, <2>2, <3>1 DEF WireInv
      <4>2. n \in Nat /\ m \in Nat
        BY <1>5, <3>1
      <4>3. QED
        BY <4>1, <4>2
    <3>2. CASE t # s
      BY <1>5, <2>1, <2>2, <3>2 DEF WireInv
    <3>3. QED
      BY <3>1, <3>2
  <2>3. ASSUME NEW n \in DOMAIN wire'[t], wire'[t][n].kind = "submitted",
               wire'[t][n].origin # t
        PROVE  heard'[t][wire'[t][n].id] = 0
    <3>1. CASE t = s
      <4>1. n + 1 \in DOMAIN wire[t] /\ wire'[t][n] = wire[t][n + 1] /\ n \in Nat \ {0}
        BY <1>5, <3>1
      <4>2. heard[t][wire[t][n + 1].id] = 0
        BY <2>1, <2>3, <4>1 DEF WireInv
      <4>3. ~Submits(e, wire[t][n + 1].id)
        <5>1. SUFFICES ASSUME Submits(e, wire[t][n + 1].id) PROVE FALSE
          OBVIOUS
        <5>2. 1 = n + 1
          BY <1>1, <1>2, <2>1, <2>3, <3>1, <4>1, <5>1 DEF WireInv, Submits
        <5>3. QED
          BY <4>1, <5>2
      <4>4. wire[t][n + 1].id \in Ids
        BY <4>1, WireEvents DEF Once
      <4>5. QED
        BY <1>6, <4>1, <4>2, <4>3, <4>4
    <3>2. CASE t # s
      <4>1. n \in DOMAIN wire[t] /\ wire'[t][n] = wire[t][n]
        BY <1>5, <3>2
      <4>2. wire[t][n].id \in Ids /\ heard[t][wire[t][n].id] = 0
        BY <2>1, <2>3, <4>1, WireEvents DEF WireInv, Once
      <4>3. QED
        BY <1>6, <3>2, <4>1, <4>2
    <3>3. QED
      BY <3>1, <3>2
  <2>4. QED
    BY <2>2, <2>3 DEF WireInv, Submits
<1>14. QED
  BY <1>6, <1>10, <1>11, <1>12, <1>13 DEF OnceInv

\* A server that stops forgets calls and events, its watchers what they heard not.
LEMMA OnceRestarts ==
  ASSUME Once, NEW s \in Servers, Restart(s)
  PROVE  OnceInv'
<1>1. /\ UNCHANGED <<minted, heard>>
      /\ call' = [c \in Callers |-> IF ServerOf[c] = s THEN IdleCall ELSE call[c]]
      /\ wire' = [wire EXCEPT ![s] = <<>>]
  BY DEF Restart, remote
<1>2. wire'[s] = <<>> /\ \A t \in Servers \ {s} : wire'[t] = wire[t]
  BY <1>1 DEF Once, Inv, TypeOK
<1>3. \A i : Quiet(i)
  BY <1>1, <1>2 DEF Quiet
<1>4. ~Announces(IdleCall)
  BY DEF IdleCall, NewCall, Announces
<1>5. ASSUME NEW c \in Callers PROVE Secret(call[c], ServerOf[c])'
  <2>1. PICK q \in Call : q = call'[c] /\ (q = call[c] \/ q = IdleCall)
    BY <1>1, IdleIsGood, Held DEF Once
  <2>2. PICK o \in Servers : o = ServerOf[c]
    BY Constants
  <2>3. Secret(q, o)
    BY <1>4, <2>1, <2>2 DEF Once, OnceInv, Secret
  <2>4. Secret(q, o)'
    BY <1>1, <1>3, <2>2, <2>3, QuietKeeps DEF Secret, Announces
  <2>5. QED
    BY <2>1, <2>2, <2>4 DEF Secret, Announces, ToldBy, Unheard, Submits
<1>6. \A c, d \in Callers : Alone(c, d)'
  BY <1>1, <1>4 DEF Once, OnceInv, Alone, Announces
<1>7. \A i \in Ids : i > minted' => Unheard(i)'
  BY <1>1, <1>3, QuietKeeps DEF Once, OnceInv
<1>8. SubmittedOnce' /\ \A t \in Servers : WireInv(t)'
  BY <1>1, <1>2 DEF Once, OnceInv, SubmittedOnce, WireInv, Submits
<1>9. QED
  BY <1>5, <1>6, <1>7, <1>8 DEF OnceInv

LEMMA OnceStep == Once /\ [Next]_vars => Once'
<1> SUFFICES ASSUME Once, [Next]_vars PROVE OnceInv'
  BY StepInv DEF Once
<1>1. CASE UNCHANGED <<call, minted, wire, heard>>
  BY <1>1 DEF Once, OnceInv, SubmittedOnce, Unheard, WireInv, Secret, Announces, ToldBy,
              Submits, Alone
<1>2. ASSUME NEW c \in Callers, NEW k \in Keys, CallRegister(c, k) PROVE OnceInv'
  <2>1. PICK known \in BOOLEAN : known = (\E i \in Found(k) : Stored(i))
    OBVIOUS
  <2>2. NewCall("register", "lookup", k, None, None, known) \in Call
    BY DEF NewCall, Call, Ops, Points
  <2>3. QED
    BY <1>2, <2>1, <2>2, OnceBegin DEF CallRegister
<1>3. ASSUME NEW c \in Callers, NEW i \in Ids, NEW arg \in Statuses \cup Nodes \cup {None},
             NEW op \in {"set_status", "assign_node", "cancel"}, CallOn(c, i, op, arg)
      PROVE  OnceInv'
  <2>1. NewCall(op, "read", None, i, arg, FALSE) \in Call
    BY DEF NewCall, Call, Ops, Points, Status
  <2>2. QED
    BY <1>3, <2>1, OnceBegin DEF CallOn
<1>4. ASSUME NEW c \in Callers, Step(c) \/ LoseRequest(c) \/ LoseRecord(c) PROVE OnceInv'
  BY <1>4, OnceReads, OnceIndexes, OnceLoses, OnceCreates, OncePublishes, OnceTellsOwn
     DEF Step, Register
<1>5. ASSUME NEW s \in Servers, Deliver(s) \/ Restart(s) PROVE OnceInv'
  BY <1>5, OnceDelivers, OnceRestarts
<1>6. ASSUME NEW s \in Servers, Deafen(s) PROVE OnceInv'
  BY <1>1, <1>6 DEF Deafen, remote
<1>7. CASE UNCHANGED vars
  BY <1>1, <1>7 DEF vars, remote, events
<1>8. QED
  BY <1>2, <1>3, <1>4, <1>5, <1>6, <1>7 DEF Next

\* The watchers of a server are told at most once that a task was submitted: by
\* the call that made it, or by its event where another server published it,
\* whatever requests are lost and whichever servers restart (publish_event and
\* the subscribers of store_redis.rs and store_etcd.rs).
THEOREM ToldAtMostOnce == Spec => []SubmittedOnce
<1>1. Spec => []Once
  BY OnceInit, OnceStep, PTL DEF Spec
<1>2. Once => SubmittedOnce
  BY DEF Once, OnceInv
<1>3. QED
  BY <1>1, <1>2, PTL

-----------------------------------------------------------------------------
(***************************************************************************)
(* Without a fault, a stored task reaches the watchers of every server:    *)
(* they have heard of it, or its event is on their server's wire, or the   *)
(* call that made it has yet to publish the event or to tell its own.      *)
(***************************************************************************)
Coming(s, i) ==
    \/ heard[s][i] = 1
    \/ \E n \in DOMAIN wire[s] : Submits(wire[s][n], i) /\ wire[s][n].origin # s
    \/ \E c \in Callers : /\ Announces(call[c]) /\ call[c].id = i
                          /\ call[c].at = "tell" => ServerOf[c] = s

Faultless == Indexed /\ faults = 0

NothingIsLost == Faultless => \A i \in Ids, s \in Servers : Stored(i) => Coming(s, i)

\* Nothing is in flight: no register has still to announce its task, and every
\* subscriber has read what was published.
Settled == (\A c \in Callers : ~Announces(call[c])) /\ \A s \in Servers : wire[s] = <<>>

\* What SubmittedIsHeard promises in the end: when nothing is in flight, every
\* server has heard of every stored task.
AllHeard ==
    Faultless /\ Settled => \A i \in Ids, s \in Servers : Stored(i) => heard[s][i] = 1

Way == Once /\ NothingIsLost /\ (Faultless => deaf = {})

LEMMA WayInit == Init => Way
<1> SUFFICES ASSUME Init PROVE Way
  OBVIOUS
<1>1. \A i \in Ids : ~Stored(i)
  BY DEF Init, Stored
<1>2. QED
  BY <1>1, OnceInit DEF Init, Way, NothingIsLost

\* A call goes on and still announces what it announced, its own watchers untold.
LEMMA WayMoves ==
  ASSUME Once, NEW c \in Callers, NEW r \in Call, call' = [call EXCEPT ![c] = r],
         UNCHANGED <<wire, heard>>,
         Announces(call[c]) => Announces(r) /\ r.id = call[c].id /\ r.at # "tell",
         NEW s \in Servers, NEW i \in Ids, Coming(s, i)
  PROVE  Coming(s, i)'
<1>1. call'[c] = r /\ \A d \in Callers \ {c} : call'[d] = call[d]
  BY DEF Once, Inv, TypeOK
<1>2. QED
  BY <1>1 DEF Coming, Announces, Submits

LEMMA WayGoes ==
  ASSUME Once, NEW c \in Callers, NEW p \in Call, NEW point \in Points,
         call' = [call EXCEPT ![c] = At(p, point)],
         UNCHANGED <<wire, heard>>,
         \/ ~Announces(call[c])
         \/ /\ point \in {"children", "listing", "publish"}
            /\ p.op = call[c].op /\ p.id = call[c].id,
         NEW s \in Servers, NEW i \in Ids, Coming(s, i)
  PROVE  Coming(s, i)'
<1>1. PICK r \in Call : r = At(p, point)
  BY Moved
<1>2. CASE ~Announces(call[c])
  BY <1>1, <1>2, WayMoves
<1>3. CASE /\ Announces(call[c]) /\ point \in {"children", "listing", "publish"}
           /\ p.op = call[c].op /\ p.id = call[c].id
  <2>1. r = Fields(p, point, p.id, p.copy, p.made, p.hit)
    BY <1>1, <1>3, SetAt DEF At
  <2>2. Announces(r) /\ r.id = call[c].id /\ r.at # "tell"
    BY <1>3, <2>1 DEF Fields, Announces
  <2>3. QED
    BY <1>1, <2>2, WayMoves
<1>4. QED
  BY <1>2, <1>3

\* Calls that begin, look for a task, read or write one announce nothing.
LEMMA WayReads ==
  ASSUME Once, NEW c \in Callers,
         \/ \E q \in Call : Begin(c, q)
         \/ Lookup(c) \/ Fetch(c) \/ Read(c) \/ Write(c),
         NEW s \in Servers, NEW i \in Ids, Coming(s, i)
  PROVE  Coming(s, i)'
<1>1. PICK q \in Call : q = call[c] /\ Good(q)
  BY Held DEF Once
<1>2. UNCHANGED <<wire, heard>> /\ ~Announces(q)
  BY <1>1 DEF Begin, Lookup, Fetch, Read, Write, events, Good, Asked, Announces
<1>3. \A d \in Callers \ {c} : call'[d] = call[d]
  BY DEF Begin, Lookup, Fetch, Read, Write, Goto, Once, Inv, TypeOK
<1>4. QED
  BY <1>1, <1>2, <1>3 DEF Coming, Announces, Submits

LEMMA WayIndexes ==
  ASSUME Once, NEW c \in Callers, PutIndex(c) \/ PutChild(c) \/ PutListing(c),
         NEW s \in Servers, NEW i \in Ids, Coming(s, i)
  PROVE  Coming(s, i)'
<1>1. PICK q \in Call : q = call[c] /\ Good(q)
  BY Held DEF Once
<1>2. PICK point \in {"children", "listing", "publish"} :
         call' = [call EXCEPT ![c] = At(q, point)]
  BY <1>1 DEF PutIndex, PutChild, PutListing, Goto
<1>3. UNCHANGED <<wire, heard>> /\ point \in Points
  BY DEF PutIndex, PutChild, PutListing, events, Points
<1>4. QED
  BY <1>1, <1>2, <1>3, WayGoes

\* Who makes a task announces it.
LEMMA WayCreates ==
  ASSUME Once, Indexed, NEW c \in Callers, Create(c),
         NEW s \in Servers, NEW i \in Ids, Stored(i)', Stored(i) => Coming(s, i)
  PROVE  Coming(s, i)'
<1>1. PICK q \in Call : q = call[c] /\ Good(q)
  BY Held DEF Once
<1>2. q.op = "register" /\ ~Announces(q)
  BY <1>1 DEF Create, Good, Announces
<1>3. PICK n \in Ids : n = minted + 1
  BY Numbers, Constants DEF Create, Ids, Once
<1>4. PICK r \in Call : r = Minted(q) /\ (r = IdleCall \/ r = Fields(q, "index", n, q.copy, TRUE, q.hit))
  BY <1>3, MintedCall
<1>5. r = Fields(q, "index", n, q.copy, TRUE, q.hit)
  <2>1. r.at = "index"
    <3>1. PICK o : o = [q EXCEPT !.id = minted + 1, !.made = TRUE]
      OBVIOUS
    <3>2. r = [o EXCEPT !.at = "index"] /\ "at" \in DOMAIN o
      BY <1>4, <3>1 DEF Minted, At, Call
    <3>3. QED
      BY <3>2
  <2>2. IdleCall.at = "idle"
    BY DEF IdleCall, NewCall
  <2>3. r # IdleCall
    BY <2>1, <2>2
  <2>4. QED
    BY <1>4, <2>3
<1>6. Announces(r) /\ r.id = n /\ r.at # "tell"
  BY <1>2, <1>5 DEF Fields, Announces
<1>7. call' = [call EXCEPT ![c] = r] /\ UNCHANGED <<wire, heard>>
  BY <1>1, <1>4 DEF Create, events
<1>8. CASE i = n
  <2>1. call'[c] = r
    BY <1>7 DEF Once, Inv, TypeOK
  <2>2. QED
    BY <1>6, <1>8, <2>1 DEF Coming, Announces
<1>9. CASE i # n
  <2>1. Stored(i)
    BY <1>3, <1>9, Numbers DEF Create, Stored, Once
  <2>2. QED
    BY <1>1, <1>2, <1>7, <2>1, WayMoves
<1>10. QED
  BY <1>8, <1>9

\* Published: the event is on the wire of every other server.
LEMMA WayPublishes ==
  ASSUME Once, deaf = {}, NEW c \in Callers, Publish(c),
         NEW s \in Servers, NEW i \in Ids, Coming(s, i)
  PROVE  Coming(s, i)'
<1>1. PICK q \in Call : q = call[c] /\ Good(q)
  BY Held DEF Once
<1>2. PICK w \in Seq(Event) : w = wire[s]
  BY DEF Once, Inv, TypeOK
<1>3. PICK ev : ev = EventOf(c)
  OBVIOUS
<1>4. wire'[s] = Append(w, ev) /\ heard' = heard /\ call' = [call EXCEPT ![c] = At(q, "tell")]
  BY <1>1, <1>2, <1>3 DEF Publish, Goto
<1>5. PICK r \in Call : r = At(q, "tell") /\ r = Fields(q, "tell", q.id, q.copy, q.made, q.hit)
  BY Moved, SetAt DEF At, Points
<1>6. call'[c] = r /\ \A d \in Callers \ {c} : call'[d] = call[d]
  BY <1>4, <1>5 DEF Once, Inv, TypeOK
<1>7. /\ \A n \in DOMAIN w : n \in DOMAIN Append(w, ev) /\ Append(w, ev)[n] = w[n]
      /\ Len(w) + 1 \in DOMAIN Append(w, ev) /\ Append(w, ev)[Len(w) + 1] = ev
  BY <1>2
<1>8. CASE heard[s][i] = 1
  BY <1>4, <1>8 DEF Coming
<1>9. CASE \E n \in DOMAIN wire[s] : Submits(wire[s][n], i) /\ wire[s][n].origin # s
  BY <1>2, <1>4, <1>7, <1>9 DEF Coming, Submits
<1>10. ASSUME NEW d \in Callers, Announces(call[d]), call[d].id = i,
              call[d].at = "tell" => ServerOf[d] = s
       PROVE  Coming(s, i)'
  <2>1. CASE d # c
    BY <1>6, <1>10, <2>1 DEF Coming, Announces
  <2>2. CASE d = c /\ ServerOf[c] = s
    <3>1. Announces(r) /\ r.id = i
      BY <1>1, <1>5, <1>10, <2>2 DEF Fields, Announces
    <3>2. QED
      BY <1>6, <2>2, <3>1 DEF Coming, Announces
  <2>3. CASE d = c /\ ServerOf[c] # s
    <3>1. Submits(ev, i) /\ ev.origin # s
      BY <1>3, <1>10, <2>3, EventKind DEF Announces, Submits
    <3>2. QED
      BY <1>4, <1>7, <3>1 DEF Coming, Submits
  <2>4. QED
    BY <2>1, <2>2, <2>3
<1>11. QED
  BY <1>8, <1>9, <1>10 DEF Coming

\* Told by the call: the own watchers have heard.
LEMMA WayTellsOwn ==
  ASSUME Once, NEW c \in Callers, TellOwn(c),
         NEW s \in Servers, NEW i \in Ids, Coming(s, i)
  PROVE  Coming(s, i)'
<1>1. PICK q \in Call : q = call[c] /\ Good(q)
  BY Held DEF Once
<1>2. PICK o \in Servers : o = ServerOf[c]
  BY Constants
<1>3. PICK ev : ev = EventOf(c)
  OBVIOUS
<1>4. /\ ev.id = q.id /\ (ev.kind = "submitted" <=> q.op = "register")
      /\ q.at = "tell" /\ q.id \in Ids
  BY <1>1, <1>3, EventKind DEF TellOwn, Good
<1>5. /\ call' = [call EXCEPT ![c] = At(q, "done")] /\ wire' = wire
      /\ Tell(o, ev)
  BY <1>1, <1>2, <1>3 DEF TellOwn, Goto, remote
<1>6. CASE q.op # "register"
  <2>1. heard' = heard /\ ~Announces(call[c])
    BY <1>1, <1>4, <1>5, <1>6 DEF Tell, Announces
  <2>2. QED
    BY <1>5, <2>1, <1>1, WayGoes DEF Points
<1>7. CASE q.op = "register"
  <2>1. Announces(q) /\ ToldBy(o, q.id)
    BY <1>1, <1>2, <1>4, <1>7 DEF Once, OnceInv, Secret, Announces
  <2>2. PICK j \in Ids : j = q.id
    BY <1>4
  <2>3. heard' = [heard EXCEPT ![o][j] = @ + 1] /\ heard[o][j] = 0
    BY <1>4, <1>5, <1>7, <2>1, <2>2 DEF Tell, ToldBy
  <2>4. heard'[o][j] = 1 /\ \A t \in Servers, k \in Ids : t # o \/ k # j => heard'[t][k] = heard[t][k]
    <3>1. heard \in [Servers -> [Ids -> Nat]]
      BY DEF Once, Inv, TypeOK
    <3>2. heard' = [heard EXCEPT ![o] = [heard[o] EXCEPT ![j] = 1]]
      BY <2>3, <3>1
    <3>3. QED
      BY <3>1, <3>2
  <2>5. CASE s = o /\ i = j
    BY <2>4, <2>5 DEF Coming
  <2>6. CASE s # o \/ i # j
    <3>1. heard'[s][i] = heard[s][i]
      BY <2>4, <2>6
    <3>2. \A d \in Callers \ {c} : call'[d] = call[d]
      BY <1>5 DEF Once, Inv, TypeOK
    <3>3. ~(call[c].id = i /\ (call[c].at = "tell" => ServerOf[c] = s))
      BY <1>1, <1>2, <1>4, <2>2, <2>6
    <3>4. QED
      BY <1>5, <3>1, <3>2, <3>3 DEF Coming, Announces, Submits
  <2>7. QED
    BY <2>5, <2>6
<1>8. QED
  BY <1>6, <1>7

\* Told by the subscriber, or the event moves up on the wire.
LEMMA WayDelivers ==
  ASSUME Once, NEW t \in Servers, Deliver(t),
         NEW s \in Servers, NEW i \in Ids, Coming(s, i)
  PROVE  Coming(s, i)'
<1>1. PICK w \in Seq(Event) : w = wire[t] /\ w # <<>>
  BY DEF Deliver, Once, Inv, TypeOK
<1>2. PICK e \in Event : e = Head(w) /\ e = w[1] /\ 1 \in DOMAIN w
  BY <1>1
<1>3. /\ wire' = [wire EXCEPT ![t] = Tail(w)] /\ call' = call
      /\ IF e.origin # t THEN Tell(t, e) ELSE UNCHANGED heard
  BY <1>1, <1>2 DEF Deliver, remote
<1>4. PICK j \in Ids : j = e.id
  BY DEF Event
<1>5. heard \in [Servers -> [Ids -> Nat]]
  BY DEF Once, Inv, TypeOK
<1>6. CASE e.kind = "submitted" /\ e.origin # t /\ s = t /\ i = j
  <2>1. heard[t][j] = 0
    BY <1>1, <1>2, <1>4, <1>6 DEF Once, OnceInv, WireInv
  <2>2. heard' = [heard EXCEPT ![t] = [heard[t] EXCEPT ![j] = 1]]
    BY <1>3, <1>4, <1>5, <1>6, <2>1 DEF Tell
  <2>3. heard'[s][i] = 1
    BY <1>5, <1>6, <2>2
  <2>4. QED
    BY <2>3 DEF Coming
<1>7. CASE ~(e.kind = "submitted" /\ e.origin # t /\ s = t /\ i = j)
  <2>1. heard'[s][i] = heard[s][i]
    <3>1. CASE e.kind = "submitted" /\ e.origin # t
      <4>1. heard' = [heard EXCEPT ![t] = [heard[t] EXCEPT ![j] = @ + 1]]
        BY <1>3, <1>4, <1>5, <3>1 DEF Tell
      <4>2. QED
        BY <1>5, <1>7, <3>1, <4>1
    <3>2. CASE ~(e.kind = "submitted" /\ e.origin # t)
      BY <1>3, <3>2 DEF Tell
    <3>3. QED
      BY <3>1, <3>2
  <2>2. ASSUME NEW n \in DOMAIN wire[s], Submits(wire[s][n], i), wire[s][n].origin # s
        PROVE  \E m \in DOMAIN wire'[s] : wire'[s][m] = wire[s][n]
    <3>1. CASE s # t
      BY <1>3, <2>2, <3>1 DEF Once, Inv, TypeOK
    <3>2. CASE s = t
      <4>1. n \in DOMAIN w /\ n # 1
        BY <1>1, <1>2, <1>4, <1>7, <2>2, <3>2 DEF Submits
      <4>2. n - 1 \in DOMAIN Tail(w) /\ Tail(w)[n - 1] = w[n]
        BY <1>1, <4>1
      <4>3. wire'[s] = Tail(w)
        BY <1>3, <3>2 DEF Once, Inv, TypeOK
      <4>4. QED
        BY <1>1, <3>2, <4>2, <4>3
    <3>3. QED
      BY <3>1, <3>2
  <2>3. QED
    BY <1>3, <2>1, <2>2 DEF Coming, Announces, Submits
<1>8. QED
  BY <1>6, <1>7

\* Only Create stores a new task.
LEMMA StoredBefore ==
  ASSUME Inv, NEW c \in Callers, Step(c), ~Create(c), NEW i \in Ids, Stored(i)'
  PROVE  Stored(i)
<1>1. CASE Write(c)
  <2>1. Good(call[c]) /\ call[c].at = "write"
    BY <1>1 DEF Inv, Write
  <2>2. CASE i = call[c].id
    BY <2>1, <2>2 DEF Good
  <2>3. CASE i # call[c].id
    BY <1>1, <2>3, Numbers DEF Write, Stored
  <2>4. QED
    BY <2>2, <2>3
<1>2. CASE ~Write(c)
  <2>1. tasks' = tasks
    BY <1>2 DEF Step, Register, Lookup, Fetch, PutIndex, PutChild, PutListing, Read,
                Publish, TellOwn, remote
  <2>2. QED
    BY <2>1 DEF Stored
<1>3. QED
  BY <1>1, <1>2

LEMMA WayStep == Way /\ [Next]_vars => Way'
<1> SUFFICES ASSUME Way, [Next]_vars PROVE Way'
  OBVIOUS
<1>1. Once' /\ backend' = backend /\ faults \in Nat
  BY OnceStep, Grows, Numbers, Constants DEF Way, Once, StoreGrows
<1>2. SUFFICES ASSUME Faultless'
               PROVE  deaf' = {} /\ \A i \in Ids, s \in Servers : Stored(i)' => Coming(s, i)'
  BY <1>1 DEF Way, NothingIsLost
<1>3. Faultless /\ ~Fault
  <2>1. Indexed
    BY <1>1, <1>2 DEF Faultless, Indexed
  <2>2. faults' = faults \/ faults' = faults + 1
    BY DEF Next, CallRegister, CallOn, Begin, Step, Register, Lookup, Fetch, Create, PutIndex,
           PutChild, PutListing, Read, Write, Publish, TellOwn, LoseRequest, LoseRecord,
           Fault, Deliver, Deafen, Restart, vars
  <2>3. QED
    BY <1>1, <1>2, <2>1, <2>2 DEF Faultless, Fault
<1>4. Once /\ deaf = {} /\ Indexed /\ \A i \in Ids, s \in Servers : Stored(i) => Coming(s, i)
  BY <1>3 DEF Way, NothingIsLost, Faultless
<1>5. CASE UNCHANGED vars
  BY <1>4, <1>5 DEF vars, remote, events, Stored, Coming, Announces, Submits
<1>6. ASSUME NEW c \in Callers, Step(c)
      PROVE  deaf' = {} /\ \A i \in Ids, s \in Servers : Stored(i)' => Coming(s, i)'
  <2>1. deaf' = {}
    BY <1>4, <1>6 DEF Step, Register, Lookup, Fetch, Create, PutIndex, PutChild, PutListing,
                      Read, Write, Publish, TellOwn, events
  <2>2. ASSUME NEW i \in Ids, NEW s \in Servers, Stored(i)' PROVE Coming(s, i)'
    <3>1. CASE Create(c)
      BY <1>4, <2>2, <3>1, WayCreates
    <3>2. CASE ~Create(c)
      <4>1. Coming(s, i)
        BY <1>4, <1>6, <2>2, <3>2, StoredBefore DEF Once
      <4>2. QED
        BY <1>4, <1>6, <3>2, <4>1, WayReads, WayIndexes, WayPublishes, WayTellsOwn
           DEF Step, Register
    <3>3. QED
      BY <3>1, <3>2
  <2>3. QED
    BY <2>1, <2>2
<1>7. ASSUME NEW c \in Callers, NEW r, r \in Call, Begin(c, r)
      PROVE  deaf' = {} /\ \A i \in Ids, s \in Servers : Stored(i)' => Coming(s, i)'
  <2>1. deaf' = {} /\ \A i \in Ids : Stored(i)' => Stored(i)
    BY <1>4, <1>7 DEF Begin, events, remote, Stored
  <2>2. QED
    BY <1>4, <1>7, <2>1, WayReads
<1>8. ASSUME NEW t \in Servers, Deliver(t)
      PROVE  deaf' = {} /\ \A i \in Ids, s \in Servers : Stored(i)' => Coming(s, i)'
  <2>1. deaf' = {} /\ \A i \in Ids : Stored(i)' => Stored(i)
    BY <1>4, <1>8 DEF Deliver, remote, Stored
  <2>2. QED
    BY <1>4, <1>8, <2>1, WayDelivers
<1>9. ASSUME NEW c \in Callers, NEW k \in Keys, CallRegister(c, k)
      PROVE  \E r : r \in Call /\ Begin(c, r)
  <2>1. PICK known \in BOOLEAN : known = (\E i \in Found(k) : Stored(i))
    OBVIOUS
  <2>2. NewCall("register", "lookup", k, None, None, known) \in Call
    BY DEF NewCall, Call, Ops, Points
  <2>3. QED
    BY <1>9, <2>1, <2>2 DEF CallRegister
<1>10. ASSUME NEW c \in Callers, NEW i \in Ids, NEW arg \in Statuses \cup Nodes \cup {None},
              NEW op \in {"set_status", "assign_node", "cancel"}, CallOn(c, i, op, arg)
       PROVE  \E r : r \in Call /\ Begin(c, r)
  <2>1. NewCall(op, "read", None, i, arg, FALSE) \in Call
    BY DEF NewCall, Call, Ops, Points, Status
  <2>2. QED
    BY <1>10, <2>1 DEF CallOn
<1>11. \/ UNCHANGED vars
       \/ \E c \in Callers : Step(c) \/ \E r : r \in Call /\ Begin(c, r)
       \/ \E t \in Servers : Deliver(t)
  BY <1>3, <1>9, <1>10 DEF Next, LoseRequest, LoseRecord, Deafen, Restart
<1>12. QED
  BY <1>5, <1>6, <1>7, <1>8, <1>11

\* No submission is lost on the way to a watcher: without a fault, a stored task
\* was heard of by the watchers of a server, or is on the wire to them, or its
\* call has still to announce it; so when nothing is in flight, all have heard of
\* all (register, publish_event and the subscribers of store_redis.rs and
\* store_etcd.rs).  The safety half of SubmittedIsHeard.
THEOREM SubmissionsArrive == Spec => [](NothingIsLost /\ AllHeard)
<1>1. Spec => []Way
  BY WayInit, WayStep, PTL DEF Spec
<1>2. ASSUME Way PROVE NothingIsLost /\ AllHeard
  <2>1. ASSUME Faultless, Settled, NEW i \in Ids, NEW s \in Servers, Stored(i)
        PROVE  heard[s][i] = 1
    <3>1. Coming(s, i)
      BY <1>2, <2>1 DEF Way, NothingIsLost
    <3>2. DOMAIN wire[s] = {}
      BY <2>1 DEF Settled
    <3>3. QED
      BY <2>1, <3>1, <3>2 DEF Coming, Settled
  <2>2. QED
    BY <1>2, <2>1 DEF Way, AllHeard
<1>3. QED
  BY <1>1, <1>2, PTL
=============================================================================
