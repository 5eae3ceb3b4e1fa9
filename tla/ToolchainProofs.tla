-------------------------- MODULE ToolchainProofs --------------------------
(* Safety of the parts of the language that have steps of their own, each for *)
(* any value of its constants: the effect monitors, the audit log, the package *)
(* commands, the language server and the modules.                            *)
EXTENDS EffectMonitor, AuditLog, PackageProject, LanguageServer, Modules, FiniteSetTheorems,
        SequenceTheorems, WellFoundedInduction, TLAPS

-----------------------------------------------------------------------------
(* The effect monitors, for any number of sessions and monitors, any quota   *)
(* and any width of the counter.  The counter of a monitor is what the spawns *)
(* made of it; those are bounded, so it never reaches its width.              *)
\* One monitor: what its counter says of its spawns.
Accounted(m) ==
  /\ m.count = m.alive + m.refused
  /\ m.alive <= MaxChildren
  /\ m.alive + m.refused <= MaxAsked

MonitorInv == MonitorTypeOK /\ \A i \in DOMAIN monitors : Accounted(monitors[i])

\* What a step does to one monitor: each spawn counts one up, each child that is
\* done one down, in the numbers themselves and not modulo the width.
Counted(m, n) ==
  \/ n = m
  \/ /\ n.count = m.count + 1
     /\ \/ n.alive = m.alive + 1 /\ n.refused = m.refused
        \/ n.alive = m.alive /\ n.refused = m.refused + 1
  \/ n.count = m.count - 1 /\ n.alive = m.alive - 1 /\ n.refused = m.refused
CountedByOne == \A i \in DOMAIN monitors : Counted(monitors[i], monitors'[i])

-----------------------------------------------------------------------------
LEMMA Numbers == MaxChildren \in Nat /\ MaxAsked \in Nat /\ Word \in Nat /\ MaxAsked < Word
  BY MonitorAssumption

\* A new monitor accounts for no spawn.
LEMMA NewMonitor ==
  ASSUME NEW effect \in Effects
  PROVE  New(effect) \in Monitor /\ Accounted(New(effect))
  BY Numbers DEF New, Monitor, Accounted

\* One more spawn, admitted or refused, raises the counter by one.
LEMMA SpawnAccounted ==
  ASSUME NEW m \in Monitor, Accounted(m), m.alive + m.refused < MaxAsked
  PROVE  /\ Turned(m) \in Monitor /\ Accounted(Turned(m)) /\ Counted(m, Turned(m))
         /\ HasPlace(m) => /\ Admitted(m) \in Monitor /\ Accounted(Admitted(m))
                           /\ Counted(m, Admitted(m))
<1>1. /\ m.count \in Nat /\ m.alive \in Nat /\ m.refused \in Nat
      /\ m.count < Word - 1
  BY Numbers DEF Monitor, Accounted
<1>2. Raised(m.count) = m.count + 1 /\ m.count + 1 \in 0..Word - 1
  BY <1>1, Numbers DEF Raised
<1>3. Turned(m) = [context |-> m.context, count |-> m.count + 1,
                   alive |-> m.alive, refused |-> m.refused + 1]
  <2>1. Turned(m) = [m EXCEPT !.count = m.count + 1, !.refused = m.refused + 1]
    BY <1>2 DEF Turned
  <2>2. QED
    BY <2>1 DEF Monitor
<1>4. Admitted(m) = [context |-> m.context, count |-> m.count + 1,
                     alive |-> m.alive + 1, refused |-> m.refused]
  <2>1. Admitted(m) = [m EXCEPT !.count = m.count + 1, !.alive = m.alive + 1]
    BY <1>2 DEF Admitted
  <2>2. QED
    BY <2>1 DEF Monitor
<1>5. Turned(m) \in Monitor /\ Accounted(Turned(m))
  BY <1>1, <1>2, <1>3, Numbers DEF Monitor, Accounted
<1>6. ASSUME HasPlace(m) PROVE Admitted(m) \in Monitor /\ Accounted(Admitted(m))
  <2>1. m.alive < MaxChildren
    BY <1>1, <1>6, Numbers DEF HasPlace, Accounted
  <2>2. QED
    BY <1>1, <1>2, <1>4, <2>1, Numbers DEF Monitor, Accounted
<1>7. Counted(m, Turned(m)) /\ Counted(m, Admitted(m))
  BY <1>3, <1>4 DEF Counted
<1>8. QED
  BY <1>5, <1>6, <1>7

\* A child that is done gives its place back.
LEMMA ReleaseAccounted ==
  ASSUME NEW m \in Monitor, Accounted(m), m.alive > 0,
         NEW n, n = [m EXCEPT !.count = Lowered(@), !.alive = @ - 1]
  PROVE  n \in Monitor /\ Accounted(n) /\ Counted(m, n)
<1>1. /\ m.count \in Nat /\ m.alive \in Nat /\ m.refused \in Nat
      /\ 0 < m.count /\ m.count < Word
  BY Numbers DEF Monitor, Accounted
<1>2. Lowered(m.count) = m.count - 1 /\ m.count - 1 \in 0..Word - 1
  BY <1>1, Numbers DEF Lowered
<1>3. n = [context |-> m.context, count |-> m.count - 1,
           alive |-> m.alive - 1, refused |-> m.refused]
  BY <1>2 DEF Monitor
<1>4. n \in Monitor /\ Accounted(n)
  BY <1>1, <1>2, <1>3, Numbers DEF Monitor, Accounted
<1>5. Counted(m, n)
  BY <1>2, <1>3 DEF Counted, Monitor
<1>6. QED
  BY <1>4, <1>5

\* A step on one monitor that keeps it accounted keeps the invariant.
LEMMA OneMonitor ==
  ASSUME MonitorInv, NEW i \in DOMAIN monitors, NEW m \in Monitor, Accounted(m),
         Counted(monitors[i], m),
         monitors' = [monitors EXCEPT ![i] = m], UNCHANGED current
  PROVE  MonitorInv' /\ CountedByOne
<1>1. monitors' \in Seq(Monitor) /\ DOMAIN monitors' = DOMAIN monitors
  BY DEF MonitorInv, MonitorTypeOK
<1>2. \A j \in DOMAIN monitors' : Accounted(monitors'[j])
  BY <1>1 DEF MonitorInv
<1>3. CountedByOne
  BY <1>1 DEF CountedByOne, Counted
<1>4. QED
  BY <1>1, <1>2, <1>3 DEF MonitorInv, MonitorTypeOK, Accounted

LEMMA MonitorInitInv == MonitorInit => MonitorInv
  BY DEF MonitorInit, MonitorInv, MonitorTypeOK, Accounted

LEMMA MonitorStepInv == MonitorInv /\ [MonitorNext]_monitorVars => MonitorInv' /\ CountedByOne
<1> SUFFICES ASSUME MonitorInv, [MonitorNext]_monitorVars PROVE MonitorInv' /\ CountedByOne
  OBVIOUS
<1>1. CASE UNCHANGED monitorVars
  BY <1>1 DEF monitorVars, MonitorInv, MonitorTypeOK, Accounted, CountedByOne, Counted
<1>2. ASSUME NEW s \in Sessions, NEW effect \in Effects, GetOrCreate(s, effect)
      PROVE  MonitorInv' /\ CountedByOne
  <2>1. /\ monitors' \in Seq(Monitor)
        /\ DOMAIN monitors' = DOMAIN monitors \cup {Len(monitors) + 1}
        /\ monitors'[Len(monitors) + 1] = New(effect)
        /\ \A i \in DOMAIN monitors : monitors'[i] = monitors[i]
    BY <1>2, NewMonitor DEF GetOrCreate, MonitorInv, MonitorTypeOK
  <2>2. \A i \in DOMAIN monitors' : Accounted(monitors'[i])
    BY <2>1, NewMonitor DEF MonitorInv
  <2>3. /\ DOMAIN current' \subseteq Sessions
        /\ \A t \in DOMAIN current' : current'[t] \in DOMAIN monitors'
    BY <1>2, <2>1 DEF GetOrCreate, MonitorInv, MonitorTypeOK
  <2>4. CountedByOne
    BY <2>1 DEF CountedByOne, Counted
  <2>5. QED
    BY <2>1, <2>2, <2>3, <2>4 DEF MonitorInv, MonitorTypeOK, Accounted
<1>3. ASSUME NEW s \in Sessions, RemoveSession(s)
      PROVE  MonitorInv' /\ CountedByOne
  BY <1>3 DEF RemoveSession, MonitorInv, MonitorTypeOK, Accounted, CountedByOne, Counted
<1>4. ASSUME NEW i \in DOMAIN monitors, CheckSpawn(i)
      PROVE  MonitorInv' /\ CountedByOne
  <2>1. monitors[i] \in Monitor /\ Accounted(monitors[i])
    BY DEF MonitorInv, MonitorTypeOK
  <2>2. monitors[i].alive + monitors[i].refused < MaxAsked
    BY <1>4 DEF CheckSpawn
  <2> DEFINE m == IF HasPlace(monitors[i]) THEN Admitted(monitors[i]) ELSE Turned(monitors[i])
  <2>3. m \in Monitor /\ Accounted(m) /\ Counted(monitors[i], m)
    BY <2>1, <2>2, SpawnAccounted
  <2>4. monitors' = [monitors EXCEPT ![i] = m] /\ UNCHANGED current
    BY <1>4 DEF CheckSpawn
  <2> HIDE DEF m
  <2>5. QED
    BY <2>3, <2>4, OneMonitor
<1>5. ASSUME NEW i \in DOMAIN monitors, ReleaseChild(i)
      PROVE  MonitorInv' /\ CountedByOne
  <2>1. monitors[i] \in Monitor /\ Accounted(monitors[i]) /\ monitors[i].alive > 0
    BY <1>5 DEF MonitorInv, MonitorTypeOK, ReleaseChild
  <2> DEFINE m == [monitors[i] EXCEPT !.count = Lowered(@), !.alive = @ - 1]
  <2>2. m \in Monitor /\ Accounted(m) /\ Counted(monitors[i], m)
    BY <2>1, ReleaseAccounted
  <2>3. monitors' = [monitors EXCEPT ![i] = m] /\ UNCHANGED current
    BY <1>5 DEF ReleaseChild, MonitorInv, MonitorTypeOK
  <2> HIDE DEF m
  <2>4. QED
    BY <2>2, <2>3, OneMonitor
<1>6. QED
  BY <1>1, <1>2, <1>3, <1>4, <1>5 DEF MonitorNext

-----------------------------------------------------------------------------
LEMMA MonitorInvariance == MonitorSpec => []MonitorInv
  BY MonitorInitInv, MonitorStepInv, PTL DEF MonitorSpec

\* The counter never wraps while a monitor is asked for fewer spawns than it has
\* numbers (MonitorAssumption): every spawn, admitted or refused, raises it by one
\* and every child that is done lowers it by one, although each step computes
\* modulo the width; and monitors and sessions keep their types (check_spawn and
\* release_child of effect_monitor.rs).
THEOREM CounterNeverWraps == MonitorSpec => []MonitorTypeOK /\ [][CountedByOne]_monitorVars
<1>1. MonitorInv => MonitorTypeOK
  BY DEF MonitorInv
<1>2. MonitorInv /\ [MonitorNext]_monitorVars => [CountedByOne]_monitorVars
  BY MonitorStepInv
<1>3. QED
  BY <1>1, <1>2, MonitorInvariance, PTL DEF MonitorSpec

\* The counter is the children alive and the spawns refused;
\* never more than the quota are alive (check_spawn, release_child).
THEOREM QuotaKept == MonitorSpec => []QuotaAccounted
<1>1. MonitorInv => QuotaAccounted
  BY DEF MonitorInv, QuotaAccounted, Accounted
<1>2. QED
  BY <1>1, MonitorInvariance, PTL

-----------------------------------------------------------------------------
(* The audit log's one guarantee, for any number of processes, changes, days  *)
(* and commands: what the index lists is on disk.  Files are never removed    *)
(* and a snapshot is never unmade, so an entry that is filed stays filed      *)
(* (Grown); each process holds only entries that are filed by the time it     *)
(* saves them (Holds).                                                        *)
AllFiled(log) == \A i \in DOMAIN log : Filed(log[i])
\* What a process may rely on, where it is.
Holds(q) ==
  /\ q.at \in {"loaded", "filing", "filed", "saving"} => AllFiled(q.log)
  /\ q.at = "snapping" => snapshot # "none"
  /\ q.at = "deciding" /\ q.action = "revert" => snapshot # "none"
  /\ q.at \in {"loaded", "filing", "filed"} /\ q.entry.action = "revert" => snapshot # "none"
  /\ q.at = "loaded" => q.entry.day <= day
  /\ q.at = "filing" => /\ q.key \in DOMAIN files
                        /\ q.key[1] >= q.entry.day
                        /\ q.key = KeyOf(q.entry, q.key[1])
  /\ q.at = "filed" => Filed(q.entry)

LogInv == LogTypeOK /\ ListedIsFiled /\ \A p \in Procs : Holds(proc[p])

\* What every step does to the disk and the calendar.
Grown ==
  /\ DOMAIN files \subseteq DOMAIN files'
  /\ day' \in Nat /\ day <= day'
  /\ snapshot # "none" => snapshot' # "none"

-----------------------------------------------------------------------------
LEMMA FiledStays ==
  ASSUME Grown, NEW entry, Filed(entry)
  PROVE  Filed(entry)'
  BY DEF Grown, Filed, KeyOf

LEMMA AllFiledStay ==
  ASSUME Grown, NEW log, AllFiled(log)
  PROVE  AllFiled(log)'
  BY FiledStays DEF AllFiled

LEMMA HoldsStays ==
  ASSUME Grown, day \in Nat, NEW q \in Process, Holds(q)
  PROVE  Holds(q)'
<1>1. q.at \in {"loaded", "filing", "filed", "saving"} => AllFiled(q.log)'
  BY AllFiledStay DEF Holds
<1>2. q.at = "filed" => Filed(q.entry)'
  BY FiledStays DEF Holds
<1>3. q.at = "loaded" => q.entry.day <= day'
  <2>1. q.at = "loaded" => q.entry.day \in Nat
    BY DEF Process, Idle, Entry
  <2>2. QED
    BY <2>1 DEF Holds, Grown
<1>4. QED
  BY <1>1, <1>2, <1>3 DEF Holds, Grown, KeyOf

\* A step of one process: it is enough to look at where it gets, the index and
\* the files it leaves.
LEMMA StepOfOne ==
  ASSUME LogInv, NEW p \in Procs, NEW q \in Process,
         proc' = [proc EXCEPT ![p] = q], Grown, Holds(q)',
         runs' \in Nat, index' \in Contents(Log), ListedIsFiled',
         DOMAIN files' \subseteq Keys, \A k \in DOMAIN files' : files'[k] \in Contents(Entry),
         snapshot' \in {"none", "torn", "whole"}
  PROVE  LogInv'
<1>1. LogTypeOK'
  BY DEF LogInv, LogTypeOK, Grown
<1>2. ASSUME NEW r \in Procs PROVE Holds(proc[r])'
  <2>1. CASE r = p
    <3>1. proc'[r] = q
      BY <2>1 DEF LogInv, LogTypeOK
    <3>2. QED
      BY <3>1 DEF Holds, AllFiled, Filed
  <2>2. CASE r # p
    <3>1. PICK s \in Process : s = proc[r]
      BY DEF LogInv, LogTypeOK
    <3>2. proc'[r] = s /\ Holds(s)
      BY <2>2, <3>1 DEF LogInv, LogTypeOK
    <3>3. Holds(s)'
      BY <3>2, HoldsStays DEF LogInv, LogTypeOK
    <3>4. QED
      BY <3>2, <3>3 DEF Holds, AllFiled, Filed
  <2>3. QED
    BY <2>1, <2>2
<1>3. QED
  BY <1>1, <1>2 DEF LogInv

\* An index that a step leaves alone lists what it did.
LEMMA SameIndex ==
  ASSUME ListedIsFiled, Grown, index' = index
  PROVE  ListedIsFiled'
  BY FiledStays DEF ListedIsFiled, Listed

\* A process is somewhere it can be, with what it holds there.
LEMMA Whereabouts ==
  ASSUME LogInv, NEW p \in Procs
  PROVE  /\ proc[p] \in Process /\ Holds(proc[p])
         /\ At(p, "deciding") => /\ proc[p].run \in Nat /\ proc[p].action \in Actions
                                 /\ proc[p].id \in Changes
         /\ proc[p].at \in {"loaded", "filing", "filed"} => proc[p].log \in Log /\ proc[p].entry \in Entry
         /\ At(p, "snapping") => proc[p].run \in Nat
         /\ At(p, "filing") => proc[p].key \in Keys
         /\ At(p, "saving") => proc[p].log \in Log
<1>1. proc[p] \in Process /\ Holds(proc[p])
  BY DEF LogInv, LogTypeOK
<1>2. QED
  BY <1>1 DEF Process, Idle, At

LEMMA DecideInv ==
  ASSUME LogInv, NEW p \in Procs, NEW action \in Actions, NEW id \in Changes, Decide(p, action, id)
  PROVE  LogInv'
<1>1. Grown /\ runs' \in Nat /\ index' = index /\ files' = files
  BY DEF LogInv, LogTypeOK, Decide, Grown
<1>2. ListedIsFiled'
  BY <1>1, SameIndex DEF LogInv
<1>3. CASE action = "revert"
  <2>1. PICK q \in Process : q = [at |-> "snapping", run |-> runs]
    BY DEF Process, LogInv, LogTypeOK
  <2>2. proc' = [proc EXCEPT ![p] = q] /\ snapshot' = "torn"
    BY <1>3, <2>1 DEF Decide, Move
  <2>3. Holds(q)'
    BY <2>1, <2>2 DEF Holds
  <2>4. QED
    BY <1>1, <1>2, <2>1, <2>2, <2>3, StepOfOne DEF LogInv, LogTypeOK
<1>4. CASE action # "revert"
  <2>1. PICK q \in Process : q = [at |-> "deciding", run |-> runs, action |-> action, id |-> id]
    BY DEF Process, LogInv, LogTypeOK
  <2>2. proc' = [proc EXCEPT ![p] = q] /\ snapshot' = snapshot
    BY <1>4, <2>1 DEF Decide, Move
  <2>3. Holds(q)'
    BY <1>4, <2>1 DEF Holds
  <2>4. QED
    BY <1>1, <1>2, <2>1, <2>2, <2>3, StepOfOne DEF LogInv, LogTypeOK
<1>5. QED
  BY <1>3, <1>4

LEMMA SnapshotInv ==
  ASSUME LogInv, NEW p \in Procs, Snapshot(p)
  PROVE  LogInv'
<1>1. Grown /\ UNCHANGED <<runs, index, files>> /\ snapshot' \in {"whole", "torn"}
  BY DEF LogInv, LogTypeOK, Snapshot, Grown
<1>2. ListedIsFiled'
  BY <1>1, SameIndex DEF LogInv
<1>3. PICK q \in Process : q = [at |-> "deciding", run |-> proc[p].run, action |-> "revert", id |-> MaxId]
  BY Whereabouts, AuditAssumption DEF Snapshot, Process, Actions
<1>4. proc' = [proc EXCEPT ![p] = q]
  BY <1>3 DEF Snapshot, Move
<1>5. Holds(q)'
  BY <1>1, <1>3 DEF Holds
<1>6. QED
  BY <1>1, <1>2, <1>3, <1>4, <1>5, StepOfOne DEF LogInv, LogTypeOK

\* What is listed is a log of filed entries.
LEMMA ListedIsLog ==
  ASSUME LogInv
  PROVE  Listed \in Log /\ AllFiled(Listed)
  BY DEF LogInv, LogTypeOK, Listed, ListedIsFiled, AllFiled, Contents, Torn, Whole, Log

LEMMA LoadInv ==
  ASSUME LogInv, NEW p \in Procs, Load(p)
  PROVE  LogInv'
<1> DEFINE entry == [run |-> proc[p].run, day |-> day, action |-> proc[p].action, id |-> proc[p].id]
           q == [at |-> "loaded", log |-> Listed, entry |-> entry]
<1>1. Grown /\ UNCHANGED <<day, runs, index, files, snapshot>>
  BY DEF LogInv, LogTypeOK, Load, Grown
<1>2. ListedIsFiled'
  BY <1>1, SameIndex DEF LogInv
<1>3. entry \in Entry
  BY Whereabouts DEF Load, Entry, LogInv, LogTypeOK
<1>4. entry.action = "revert" => snapshot # "none"
  BY Whereabouts DEF Load, Holds, At
<1>5. PICK log \in Log : log = Listed
  BY ListedIsLog
<1>6. AllFiled(log)
  BY <1>5, ListedIsLog
<1>7. PICK e \in Entry : e = entry
  BY <1>3
<1>8. e.day = day /\ (e.action = "revert" => snapshot # "none")
  BY <1>4, <1>7
<1> DEFINE r == [at |-> "loaded", log |-> log, entry |-> e]
<1>9. r \in Process
  BY DEF Process
<1>10. proc' = [proc EXCEPT ![p] = r]
  BY <1>5, <1>7 DEF Load, Move
<1>11. AllFiled(log)'
  BY <1>1, <1>6, AllFiledStay
<1>12. Holds(r)'
  BY <1>1, <1>8, <1>11 DEF Holds, LogInv, LogTypeOK
<1> HIDE DEF r
<1>13. QED
  BY <1>1, <1>2, <1>9, <1>10, <1>12, StepOfOne DEF LogInv, LogTypeOK

\* The four steps that follow act on what the process holds, p's log and entry.
LEMMA CreateFileInv ==
  ASSUME LogInv, NEW p \in Procs, CreateFile(p)
  PROVE  LogInv'
<1>1. PICK log \in Log, e \in Entry : log = proc[p].log /\ e = proc[p].entry
  BY Whereabouts DEF CreateFile, At
<1>2. PICK k \in Keys : k = KeyOf(e, day)
  BY DEF Keys, KeyOf, Entry, LogInv, LogTypeOK
<1> DEFINE q == [at |-> "filing", log |-> log, entry |-> e, key |-> k]
<1>3. /\ files' = [j \in DOMAIN files \cup {k} |-> IF j = k THEN Torn ELSE files[j]]
      /\ UNCHANGED <<day, runs, index, snapshot>>
      /\ proc' = [proc EXCEPT ![p] = q]
  BY <1>1, <1>2 DEF CreateFile, Put, Move
<1>4. Grown
  BY <1>3 DEF Grown, LogInv, LogTypeOK
<1>5. ListedIsFiled'
  BY <1>3, <1>4, SameIndex DEF LogInv
<1>6. AllFiled(log) /\ e.day <= day /\ (e.action = "revert" => snapshot # "none")
  BY <1>1, Whereabouts DEF CreateFile, At, Holds
<1>7. AllFiled(log)'
  BY <1>4, <1>6, AllFiledStay
<1>8. k[1] = day /\ e.day \in Nat /\ day \in Nat
  BY <1>2 DEF KeyOf, Entry, LogInv, LogTypeOK
<1>9. Holds(q)'
  BY <1>2, <1>3, <1>6, <1>7, <1>8 DEF Holds
<1>10. q \in Process
  BY DEF Process
<1>11. DOMAIN files' \subseteq Keys /\ \A j \in DOMAIN files' : files'[j] \in Contents(Entry)
  BY <1>3 DEF LogInv, LogTypeOK, Contents
<1> HIDE DEF q
<1>12. QED
  BY <1>3, <1>4, <1>5, <1>9, <1>10, <1>11, StepOfOne DEF LogInv, LogTypeOK

LEMMA FillFileInv ==
  ASSUME LogInv, NEW p \in Procs, FillFile(p)
  PROVE  LogInv'
<1>1. PICK log \in Log, e \in Entry, k \in Keys :
        log = proc[p].log /\ e = proc[p].entry /\ k = proc[p].key
  BY Whereabouts DEF FillFile, At
<1>2. PICK content \in Over(files[k], e) : Put(k, content)
  BY <1>1 DEF FillFile
<1>3. content \in Contents(Entry)
  BY <1>2 DEF Over, Contents
<1> DEFINE q == [at |-> "filed", log |-> log, entry |-> e]
<1>4. /\ files' = [j \in DOMAIN files \cup {k} |-> IF j = k THEN content ELSE files[j]]
      /\ UNCHANGED <<day, runs, index, snapshot>>
      /\ proc' = [proc EXCEPT ![p] = q]
  BY <1>1, <1>2 DEF FillFile, Put, Move
<1>5. Grown
  BY <1>4 DEF Grown, LogInv, LogTypeOK
<1>6. ListedIsFiled'
  BY <1>4, <1>5, SameIndex DEF LogInv
<1>7. /\ AllFiled(log) /\ k \in DOMAIN files /\ k[1] >= e.day /\ k = KeyOf(e, k[1])
      /\ e.action = "revert" => snapshot # "none"
  BY <1>1, Whereabouts DEF FillFile, At, Holds
<1>8. AllFiled(log)'
  BY <1>5, <1>7, AllFiledStay
<1>9. Filed(e)
  BY <1>7 DEF Filed
<1>10. Filed(e)'
  BY <1>5, <1>9, FiledStays
<1>11. Holds(q)'
  BY <1>4, <1>7, <1>8, <1>10 DEF Holds
<1>12. q \in Process
  BY DEF Process
<1>13. DOMAIN files' \subseteq Keys /\ \A j \in DOMAIN files' : files'[j] \in Contents(Entry)
  BY <1>3, <1>4 DEF LogInv, LogTypeOK
<1> HIDE DEF q
<1>14. QED
  BY <1>4, <1>5, <1>6, <1>11, <1>12, <1>13, StepOfOne DEF LogInv, LogTypeOK

LEMMA CreateIndexInv ==
  ASSUME LogInv, NEW p \in Procs, CreateIndex(p)
  PROVE  LogInv'
<1>1. PICK log \in Log, e \in Entry : log = proc[p].log /\ e = proc[p].entry
  BY Whereabouts DEF CreateIndex, At
<1>2. PICK longer \in Log : longer = Append(log, e)
  <2>1. Append(log, e) \in Log
    BY DEF Log
  <2>2. QED
    BY <2>1
<1> DEFINE q == [at |-> "saving", log |-> longer]
<1>3. /\ index' = Torn
      /\ UNCHANGED <<day, runs, files, snapshot>>
      /\ proc' = [proc EXCEPT ![p] = q]
  BY <1>1, <1>2 DEF CreateIndex, Move
<1>4. Grown
  BY <1>3 DEF Grown, LogInv, LogTypeOK
<1>5. ListedIsFiled' /\ index' \in Contents(Log)
  BY <1>3 DEF ListedIsFiled, Listed, Torn, Contents
<1>6. AllFiled(log) /\ Filed(e)
  BY <1>1, Whereabouts DEF CreateIndex, At, Holds
<1>7. AllFiled(longer)
  <2>1. ASSUME NEW i \in DOMAIN longer PROVE Filed(longer[i])
    <3>1. (i \in DOMAIN log /\ longer[i] = log[i]) \/ longer[i] = e
      BY <1>2 DEF Log
    <3>2. QED
      BY <3>1, <1>6 DEF AllFiled
  <2>2. QED
    BY <2>1 DEF AllFiled
<1>8. AllFiled(longer)'
  BY <1>4, <1>7, AllFiledStay
<1>9. Holds(q)'
  BY <1>8 DEF Holds
<1>10. q \in Process
  BY DEF Process
<1> HIDE DEF q
<1>11. QED
  BY <1>3, <1>4, <1>5, <1>9, <1>10, StepOfOne DEF LogInv, LogTypeOK

LEMMA FillIndexInv ==
  ASSUME LogInv, NEW p \in Procs, FillIndex(p)
  PROVE  LogInv'
<1>1. PICK log \in Log : log = proc[p].log
  BY Whereabouts DEF FillIndex, At
<1>2. /\ index' \in {Torn, Whole(log)}
      /\ UNCHANGED <<day, runs, files, snapshot>>
      /\ proc' = [proc EXCEPT ![p] = Idle]
  BY <1>1 DEF FillIndex, Move, Over
<1>3. Grown
  BY <1>2 DEF Grown, LogInv, LogTypeOK
<1>4. AllFiled(log)
  BY <1>1, Whereabouts DEF FillIndex, At, Holds
<1>5. AllFiled(log)'
  BY <1>3, <1>4, AllFiledStay
<1>6. ListedIsFiled' /\ index' \in Contents(Log)
  <2>1. CASE index' = Torn
    BY <2>1 DEF ListedIsFiled, Listed, Torn, Contents
  <2>2. CASE index' = Whole(log)
    BY <1>5, <2>2 DEF ListedIsFiled, Listed, Whole, Contents, AllFiled
  <2>3. QED
    BY <1>2, <2>1, <2>2
<1>7. Holds(Idle)' /\ Idle \in Process
  BY DEF Holds, Idle, Process
<1>8. QED
  BY <1>2, <1>3, <1>6, <1>7, StepOfOne DEF LogInv, LogTypeOK

LEMMA CrashInv ==
  ASSUME LogInv, NEW p \in Procs, Crash(p)
  PROVE  LogInv'
<1>1. Grown /\ UNCHANGED <<day, runs, index, files, snapshot>>
  BY DEF Crash, Grown, LogInv, LogTypeOK
<1>2. ListedIsFiled'
  BY <1>1, SameIndex DEF LogInv
<1>3. Holds(Idle)' /\ Idle \in Process /\ proc' = [proc EXCEPT ![p] = Idle]
  BY DEF Holds, Idle, Process, Crash, Move
<1>4. QED
  BY <1>1, <1>2, <1>3, StepOfOne DEF LogInv, LogTypeOK

\* A day later, or after no step at all, everyone stands where they stood.
LEMMA QuietInv ==
  ASSUME LogInv, UNCHANGED <<runs, index, files, snapshot, proc>>, day' \in Nat, day <= day'
  PROVE  LogInv'
<1>1. Grown
  BY DEF Grown
<1>2. ListedIsFiled'
  BY <1>1, SameIndex DEF LogInv
<1>3. LogTypeOK'
  BY DEF LogInv, LogTypeOK
<1>4. ASSUME NEW r \in Procs PROVE Holds(proc[r])'
  <2>1. PICK s \in Process : s = proc[r]
    BY DEF LogInv, LogTypeOK
  <2>2. Holds(s)
    BY <2>1 DEF LogInv
  <2>3. Holds(s)'
    BY <1>1, <2>2, HoldsStays DEF LogInv, LogTypeOK
  <2>4. QED
    BY <2>1, <2>3 DEF Holds, AllFiled, Filed
<1>5. QED
  BY <1>2, <1>3, <1>4 DEF LogInv

LEMMA LogInitInv == LogInit => LogInv
<1> SUFFICES ASSUME LogInit PROVE LogInv
  OBVIOUS
<1>1. <<>> \in Log
  BY DEF Log
<1>2. LogTypeOK
  BY <1>1 DEF LogInit, LogTypeOK, Contents, Process
<1>3. ListedIsFiled
  BY DEF LogInit, ListedIsFiled, Listed, Whole
<1>4. \A p \in Procs : Holds(proc[p])
  BY DEF LogInit, Holds, Idle
<1>5. QED
  BY <1>2, <1>3, <1>4 DEF LogInv

LEMMA LogStepInv == LogInv /\ [LogNext]_logVars => LogInv'
<1> SUFFICES ASSUME LogInv, [LogNext]_logVars PROVE LogInv'
  OBVIOUS
<1>1. CASE UNCHANGED logVars
  BY <1>1, QuietInv DEF logVars, LogInv, LogTypeOK
<1>2. ASSUME NEW p \in Procs, NEW action \in Actions, NEW id \in Changes, Decide(p, action, id)
      PROVE  LogInv'
  BY <1>2, DecideInv
<1>3. ASSUME NEW p \in Procs,
             Snapshot(p) \/ Load(p) \/ CreateFile(p) \/ FillFile(p) \/ CreateIndex(p) \/ FillIndex(p) \/ Crash(p)
      PROVE  LogInv'
  BY <1>3, SnapshotInv, LoadInv, CreateFileInv, FillFileInv, CreateIndexInv, FillIndexInv, CrashInv
<1>4. CASE Midnight
  BY <1>4, QuietInv DEF Midnight, LogInv, LogTypeOK
<1>5. QED
  BY <1>1, <1>2, <1>3, <1>4 DEF LogNext

-----------------------------------------------------------------------------
LEMMA LogInvariance == LogSpec => []LogInv
  BY LogInitInv, LogStepInv, PTL DEF LogSpec

\* The files, the index and the processes keep their types (evolve.rs).
THEOREM LogTyped == LogSpec => []LogTypeOK
<1>1. LogInv => LogTypeOK
  BY DEF LogInv
<1>2. QED
  BY <1>1, LogInvariance, PTL

\* However many processes decide, revert and die at once, what the index lists
\* has its file, and a listed revert its snapshot (record_entry, cmd_revert).
THEOREM ListedStaysFiled == LogSpec => []ListedIsFiled
<1>1. LogInv => ListedIsFiled
  BY DEF LogInv
<1>2. QED
  BY <1>1, LogInvariance, PTL

-----------------------------------------------------------------------------
(* The package commands, for any packages, versions and manifests written by *)
(* hand.  What is written for the dependencies is read again (WrittenIsRead); *)
(* an entry only survives that unharmed when it is a version by itself, so   *)
(* the invariant says what else an entry may be (EntriesKept).               *)
IsText(lines) == Len(lines) \in Nat /\ DOMAIN lines = 1..Len(lines)
\* The entries of a manifest that is written and read again.
Reread(deps) == [n \in DOMAIN deps |-> ParsedDep(WrittenDep(deps[n]))]

LEMMA OneIsLatest ==
  ASSUME NEW i \in Int
  PROVE  Max({i}) = i
  BY DEF Max

LEMMA EachNameOnce ==
  ASSUME NEW S, IsFiniteSet(S)
  PROVE  /\ Cardinality(S) \in Nat
         /\ SetToSeq(S) \in [1..Cardinality(S) -> S]
         /\ IsInjective(SetToSeq(S))
         /\ \A x \in S : \E i \in 1..Cardinality(S) : SetToSeq(S)[i] = x
<1>1. Cardinality(S) \in Nat /\ ExistsBijection(1..Cardinality(S), S)
  BY FS_CardinalityType
<1>2. \E f \in [1..Cardinality(S) -> S] : IsInjective(f)
  BY <1>1 DEF ExistsBijection, Bijection, Injection
<1>3. SetToSeq(S) \in [1..Cardinality(S) -> S] /\ IsInjective(SetToSeq(S))
  BY <1>2 DEF SetToSeq
<1>4. SetToSeq(S) \in Injection(1..Cardinality(S), S)
  BY <1>3 DEF Injection
<1>5. Cardinality(1..Cardinality(S)) = Cardinality(S)
  BY <1>1, FS_Interval
<1>6. SetToSeq(S) \in Surjection(1..Cardinality(S), S)
  BY <1>4, <1>5, FS_Injection
<1>7. QED
  BY <1>1, <1>3, <1>6 DEF Surjection

LEMMA TwoJoined ==
  ASSUME NEW S, NEW p \in Seq(S), NEW q \in Seq(S)
  PROVE  /\ p \o q \in Seq(S) /\ Len(p \o q) = Len(p) + Len(q)
         /\ \A i \in 1..Len(p) : (p \o q)[i] = p[i]
         /\ \A i \in 1..Len(q) : (p \o q)[Len(p) + i] = q[i]
  OBVIOUS

\* k lines: one for each text, of the section, and no other.
Lists(lines, k, section, texts) ==
  /\ lines = [i \in 1..k |-> lines[i]]
  /\ \A i \in 1..k : /\ lines[i].section = section
                     /\ lines[i].key \in DOMAIN texts
                     /\ lines[i].text = texts[lines[i].key]
  /\ \A i, j \in 1..k : lines[i].key = lines[j].key => i = j
  /\ \A n \in DOMAIN texts : \E i \in 1..k : lines[i].key = n

LEMMA Joined ==
  ASSUME NEW h, NEW A, NEW B, NEW a \in Nat, NEW b \in Nat,
         NEW section, NEW texts, Lists(A, a, section, texts),
         NEW other, NEW more, Lists(B, b, other, more)
  PROVE  /\ IsText(<<h>> \o A \o B) /\ Len(<<h>> \o A \o B) = 1 + a + b
         /\ (<<h>> \o A \o B)[1] = h
         /\ \A i \in 1..a : (<<h>> \o A \o B)[1 + i] = A[i]
         /\ \A i \in 1..b : (<<h>> \o A \o B)[1 + a + i] = B[i]
<1> DEFINE S == {h} \cup {A[i] : i \in 1..a} \cup {B[i] : i \in 1..b}
<1>1. A \in [1..a -> S] /\ B \in [1..b -> S] /\ h \in S
  BY DEF Lists
<1> HIDE DEF S
<1>2. <<h>> \in Seq(S) /\ A \in Seq(S) /\ B \in Seq(S)
  BY <1>1, SeqDef
<1>3. Len(A) = a /\ Len(B) = b /\ Len(<<h>>) = 1 /\ <<h>>[1] = h
  BY <1>1, <1>2, LenProperties
<1>4. PICK p \in Seq(S) : p = <<h>> \o A
  BY <1>2, TwoJoined
<1>5. Len(p) = 1 + a /\ p[1] = h /\ \A i \in 1..a : p[1 + i] = A[i]
  BY <1>2, <1>3, <1>4, TwoJoined
<1>6. PICK w \in Seq(S) : w = p \o B
  BY <1>2, TwoJoined
<1>7. /\ Len(w) = 1 + a + b
      /\ \A i \in 1..1 + a : w[i] = p[i]
      /\ \A i \in 1..b : w[1 + a + i] = B[i]
  <2>1. /\ Len(w) = Len(p) + Len(B)
        /\ \A i \in 1..Len(p) : w[i] = p[i]
        /\ \A i \in 1..Len(B) : w[Len(p) + i] = B[i]
    BY <1>2, <1>6, TwoJoined
  <2>2. QED
    BY <1>3, <1>5, <2>1
<1>8. IsText(w)
  BY LenProperties DEF IsText
<1>9. w = <<h>> \o A \o B
  BY <1>4, <1>6
<1>10. w[1] = h /\ \A i \in 1..a : w[1 + i] = A[i]
  <2>1. 1 \in 1..1 + a /\ \A i \in 1..a : 1 + i \in 1..1 + a
    OBVIOUS
  <2>2. QED
    BY <1>5, <1>7, <2>1
<1>11. QED
  BY <1>7, <1>8, <1>9, <1>10

LEMMA ItsLines ==
  ASSUME NEW section, NEW texts, IsFiniteSet(DOMAIN texts)
  PROVE  \E k \in Nat : Lists(LinesOf(section, texts), k, section, texts)
<1> DEFINE names == SetToSeq(DOMAIN texts)
           k == Cardinality(DOMAIN texts)
<1>1. /\ k \in Nat /\ names \in [1..k -> DOMAIN texts] /\ IsInjective(names)
      /\ \A n \in DOMAIN texts : \E i \in 1..k : names[i] = n
  BY EachNameOnce
<1>2. LinesOf(section, texts) = [i \in 1..k |-> Line(section, names[i], texts[names[i]])]
  BY <1>1 DEF LinesOf
<1> DEFINE lines == LinesOf(section, texts)
<1> HIDE DEF names, k, lines
<1>3. /\ lines = [i \in 1..k |-> lines[i]]
      /\ \A i \in 1..k : lines[i] = Line(section, names[i], texts[names[i]])
  BY <1>2 DEF lines
<1>4. \A i \in 1..k : /\ lines[i].section = section
                      /\ lines[i].key = names[i] /\ names[i] \in DOMAIN texts
                      /\ lines[i].text = texts[names[i]]
  BY <1>1, <1>3 DEF Line
<1>5. \A i, j \in 1..k : lines[i].key = lines[j].key => i = j
  BY <1>1, <1>4 DEF IsInjective
<1>6. Lists(lines, k, section, texts)
  BY <1>1, <1>3, <1>4, <1>5 DEF Lists
<1>7. QED
  BY <1>1, <1>6 DEF lines

LEMMA WrittenIsRead ==
  ASSUME NEW m, IsFiniteSet(DOMAIN m.deps), IsFiniteSet(DOMAIN m.dev)
  PROVE  LET lines == WrittenManifest(m)
         IN /\ IsText(lines)
            /\ \E i \in DOMAIN lines : lines[i] = Heading
            /\ Manifest(lines).deps = Reread(m.deps)
<1> DEFINE texts == [n \in DOMAIN m.deps |-> WrittenDep(m.deps[n])]
           devTexts == [n \in DOMAIN m.dev |-> Plain(m.dev[n].version)]
           A == LinesOf("dependencies", texts)
           B == LinesOf("dev-dependencies", devTexts)
           lines == WrittenManifest(m)
<1>0. lines = <<Heading>> \o A \o B
  BY DEF WrittenManifest
<1>1. PICK a \in Nat : Lists(A, a, "dependencies", texts)
  BY ItsLines
<1>2. PICK b \in Nat : Lists(B, b, "dev-dependencies", devTexts)
  BY ItsLines
<1>3. DOMAIN texts = DOMAIN m.deps /\ \A n \in DOMAIN m.deps : texts[n] = WrittenDep(m.deps[n])
  OBVIOUS
<1> HIDE DEF texts, devTexts, A, B, lines
<1>4. /\ IsText(lines) /\ Len(lines) = 1 + a + b
      /\ lines[1] = Heading
      /\ \A i \in 1..a : lines[1 + i] = A[i]
      /\ \A i \in 1..b : lines[1 + a + i] = B[i]
  BY <1>0, <1>1, <1>2, Joined
<1>5. \A i \in DOMAIN lines : i = 1 \/ i - 1 \in 1..a \/ i - 1 - a \in 1..b
  BY <1>4 DEF IsText
<1> DEFINE own == {i \in DOMAIN lines : Belongs(lines[i], "dependencies")}
<1>6. own = {1 + i : i \in 1..a}
  <2>1. ~Belongs(lines[1], "dependencies")
    BY <1>4 DEF Belongs, Heading, Line
  <2>2. \A i \in 1..a : 1 + i \in DOMAIN lines /\ Belongs(lines[1 + i], "dependencies")
    BY <1>1, <1>4 DEF Belongs, IsText, Lists
  <2>3. \A i \in 1..b : ~Belongs(lines[1 + a + i], "dependencies")
    BY <1>2, <1>4 DEF Belongs, Lists
  <2>4. ASSUME NEW i \in own PROVE i - 1 \in 1..a /\ i = 1 + (i - 1)
    <3>1. PICK j \in Int : j = i - 1 - a
      BY <1>4 DEF IsText
    <3>2. i \in Int /\ i = 1 + a + j /\ Belongs(lines[i], "dependencies")
      BY <1>4, <3>1 DEF IsText
    <3>3. i # 1 /\ j \notin 1..b
      BY <2>1, <2>3, <3>2
    <3>4. QED
      BY <1>5, <3>1, <3>2, <3>3
  <2>5. QED
    BY <2>2, <2>4
<1>7. {lines[i].key : i \in own} = DOMAIN m.deps
  <2>1. ASSUME NEW n \in DOMAIN m.deps PROVE \E j \in own : lines[j].key = n
    <3>1. PICK i \in 1..a : A[i].key = n
      BY <1>1, <1>3 DEF Lists
    <3>2. QED
      BY <1>4, <1>6, <3>1
  <2>2. ASSUME NEW i \in own PROVE lines[i].key \in DOMAIN m.deps
    <3>1. PICK j \in 1..a : i = 1 + j
      BY <1>6
    <3>2. QED
      BY <1>1, <1>3, <1>4, <3>1 DEF Lists
  <2>3. QED
    BY <2>1, <2>2
<1>8. ASSUME NEW n \in DOMAIN m.deps
      PROVE  ParsedDep(lines[Max({i \in own : lines[i].key = n})].text) = ParsedDep(WrittenDep(m.deps[n]))
  <2>1. PICK i \in 1..a : A[i].key = n
    BY <1>1, <1>3 DEF Lists
  <2>2. {j \in own : lines[j].key = n} = {1 + i}
    BY <1>1, <1>4, <1>6, <2>1 DEF Lists
  <2>3. Max({j \in own : lines[j].key = n}) = 1 + i
    BY <2>2, OneIsLatest
  <2>4. lines[1 + i].text = WrittenDep(m.deps[n])
    BY <1>1, <1>3, <1>4, <2>1 DEF Lists
  <2>5. QED
    BY <2>3, <2>4
<1>9. Manifest(lines).deps = Reread(m.deps)
  BY <1>7, <1>8 DEF Manifest, Section, Reread
<1>10. 1 \in DOMAIN lines
  BY <1>4 DEF IsText
<1>11. QED
  BY <1>4, <1>9, <1>10 DEF lines

-----------------------------------------------------------------------------
(* The line that counts is there: a set of lines has a last one.             *)
LEMMA LatestIsThere ==
  ASSUME NEW k \in Nat, NEW S \in SUBSET (1..k), S # {}
  PROVE  Max(S) \in S
<1> DEFINE After == {n + 1..k : n \in S}
           R == StrictSubsetOrdering(Nat)
<1>1. After # {} /\ After \subseteq FiniteSubsetsOf(Nat)
  <2>1. \A n \in S : n + 1..k \in SUBSET Nat /\ IsFiniteSet(n + 1..k)
    BY FS_Interval
  <2>2. QED
    BY <2>1 DEF FiniteSubsetsOf
<1>2. IsWellFoundedOn(R, FiniteSubsetsOf(Nat))
  BY FS_StrictSubsetOrderingWellFounded
<1> HIDE DEF R, After
<1>3. PICK x \in After : \A y \in After : ~ (<<y, x>> \in R)
  BY <1>1, <1>2, WFMin
<1>4. PICK n \in S : x = n + 1..k
  BY DEF After
<1>5. ASSUME NEW m \in S, m > n PROVE FALSE
  <2>1. m + 1..k \in After
    BY DEF After
  <2>2. /\ m + 1..k \subseteq n + 1..k /\ m + 1..k # n + 1..k
        /\ m + 1..k \subseteq Nat /\ n + 1..k \subseteq Nat
    <3>1. m \in n + 1..k /\ m \notin m + 1..k
      BY <1>5
    <3>2. QED
      BY <3>1, <1>5
  <2>3. <<m + 1..k, n + 1..k>> \in R
    BY <2>2 DEF R, StrictSubsetOrdering
  <2>4. QED
    BY <1>3, <1>4, <2>1, <2>3
<1>6. \E i \in S : \A j \in S : i >= j
  BY <1>5
<1>7. QED
  BY <1>6 DEF Max

LEMMA FewNames ==
  ASSUME NEW lines, IsText(lines), NEW section
  PROVE  IsFiniteSet(DOMAIN Section(lines, section))
<1> DEFINE own == {i \in DOMAIN lines : Belongs(lines[i], section)}
           names == {lines[i].key : i \in own}
           name == [i \in own |-> lines[i].key]
<1>1. IsFiniteSet(own)
  <2>1. IsFiniteSet(DOMAIN lines)
    BY FS_Interval DEF IsText
  <2>2. QED
    BY <2>1, FS_Subset
<1>2. name \in Surjection(own, names)
  BY DEF Surjection
<1>3. IsFiniteSet(names)
  BY <1>1, <1>2, FS_Surjection
<1>4. QED
  BY <1>3 DEF Section

-----------------------------------------------------------------------------
(* What an entry may be, by what was asked for: what does not last is an     *)
(* option or a comparison, and is lost when it is written.                   *)
Fits(e, asked) ==
  /\ e.git = FALSE
  /\ e.version = IF asked.found THEN asked.version ELSE Star
  /\ asked.found /\ asked.lasts => ~e.optional /\ ~HasEqualsSign(e.version)
  /\ asked.found /\ ~asked.lasts => e.optional \/ HasEqualsSign(e.version)
EntriesFit(deps, asked) ==
  /\ DOMAIN deps = DOMAIN asked
  /\ \A n \in DOMAIN asked : Fits(deps[n], asked[n])
LockAsBuilt ==
  \A n \in DOMAIN lock :
    /\ n \in DOMAIN built
    /\ lock[n] = IF built[n].found /\ IsSemVer(built[n].version)
                 THEN SemVer(built[n].version) ELSE <<1, 0, 0>>
ProjectInv ==
  /\ ~made => toml = <<>> /\ wanted = Nothing
  /\ IsText(toml)
  /\ Readable => EntriesFit(Manifest(toml).deps, wanted)
  /\ LockAsBuilt

\* A text that is a version or in braces.
Usual(text) == text.form \in {"plain", "table"}

LEMMA StarIsNoNumber == ~HasEqualsSign(Star) /\ ~IsSemVer(Star)
<1>1. Star.op = "" /\ Star.num = <<>>
  BY DEF Star
<1>2. ~HasEqualsSign(Star)
  BY <1>1 DEF HasEqualsSign
<1>3. Len(<<>>) = 0 /\ 0 \notin 2..3
  OBVIOUS
<1>4. ~IsSemVer(Star)
  BY <1>1, <1>3, Zenon DEF IsSemVer
<1>5. QED
  BY <1>2, <1>4

LEMMA ReadFits ==
  ASSUME NEW text, Usual(text)
  PROVE  Fits(ParsedDep(text), Reading(text))
<1> DEFINE e == ParsedDep(text)
           asked == Reading(text)
<1>1. CASE text.form = "plain"
  <2>1. /\ asked.version = text.version
        /\ asked.found <=> ~HasEqualsSign(text.version)
        /\ asked.lasts <=> ~HasEqualsSign(text.version)
    BY <1>1 DEF Reading, Named
  <2>2. e = IF HasEqualsSign(text.version) THEN AnyEntry ELSE [AnyEntry EXCEPT !.version = text.version]
    BY <1>1 DEF ParsedDep
  <2>3. e.git = FALSE /\ e.optional = FALSE
        /\ e.version = IF HasEqualsSign(text.version) THEN Star ELSE text.version
    BY <2>2 DEF AnyEntry
  <2>4. QED
    BY <2>1, <2>3 DEF Fits, HasEqualsSign
<1>2. CASE text.form = "table"
  <2>1. PICK v : v = Part(text.parts, "version", Star)
    OBVIOUS
  <2>2. PICK o : o = Part(text.parts, "optional", "false")
    OBVIOUS
  <2>3. /\ asked.version = v
        /\ asked.lasts <=> ~HasEqualsSign(v) /\ o # "true"
        /\ asked.found <=> Named(text)
    BY <1>2, <2>1, <2>2 DEF Reading
  <2>4. e = [AnyEntry EXCEPT !.version = v, !.optional = (o = "true")]
    BY <1>2, <2>1, <2>2 DEF ParsedDep
  <2>5. e.version = v /\ e.optional = (o = "true") /\ e.git = FALSE
    BY <2>4 DEF AnyEntry
  <2>6. ~Named(text) => v = Star
    BY <1>2, <2>1 DEF Named, Part
  <2>7. QED
    BY <2>3, <2>5, <2>6 DEF Fits
<1>3. QED
  BY <1>1, <1>2 DEF Usual

LEMMA WrittenIsUsual ==
  ASSUME NEW e
  PROVE  Usual(WrittenDep(e))
  BY DEF WrittenDep, Plain, Table, Usual

LEMMA Pair ==
  ASSUME NEW a, NEW b
  PROVE  DOMAIN <<a, b>> = 1..2 /\ <<a, b>>[1] = a /\ <<a, b>>[2] = b
  OBVIOUS

\* What a command writes as a table names its version first, where it is not found.
LEMMA WrittenIsLost ==
  ASSUME NEW e, WrittenDep(e).form = "table"
  PROVE  ~Named(WrittenDep(e))
<1>1. ASSUME NEW a, NEW b, a[1] # "version", b[1] # "version"
      PROVE  \A j \in DOMAIN <<a, b>> : <<a, b>>[j][1] # "version"
  <2>1. \A j \in 1..2 : j = 1 \/ j = 2
    OBVIOUS
  <2>2. QED
    BY <1>1, <2>1, Pair
<1>2. <<"{ version", e.version>>[1] = "{ version"
  BY Pair
<1>3. <<"git", "url }">>[1] = "git" /\ <<"optional", "true }">>[1] = "optional"
  BY Pair
<1>4. /\ <<"{ version", e.version>>[1] # "version" /\ <<"git", "url }">>[1] # "version"
      /\ <<"optional", "true }">>[1] # "version"
  BY <1>2, <1>3
<1>5. \/ WrittenDep(e).parts = <<<<"{ version", e.version>>, <<"git", "url }">>>>
      \/ WrittenDep(e).parts = <<<<"{ version", e.version>>, <<"optional", "true }">>>>
  BY DEF WrittenDep, Plain, Table
<1>6. QED
  BY <1>1, <1>4, <1>5 DEF Named

\* Written and read again, an entry is what is left of what was asked for.
LEMMA RereadFits ==
  ASSUME NEW e, NEW asked, Fits(e, asked)
  PROVE  Fits(ParsedDep(WrittenDep(e)), Rewritten(asked))
<1>1. CASE asked.found /\ asked.lasts
  <2>1. WrittenDep(e) = Plain(e.version) /\ ~HasEqualsSign(e.version)
    BY <1>1 DEF Fits, WrittenDep
  <2>2. ParsedDep(Plain(e.version)) = [AnyEntry EXCEPT !.version = e.version]
    BY <2>1 DEF ParsedDep, Plain
  <2>3. PICK d : d = ParsedDep(WrittenDep(e)) /\ d = [AnyEntry EXCEPT !.version = e.version]
    BY <2>1, <2>2
  <2>4. d.version = e.version /\ d.git = FALSE /\ d.optional = FALSE
    BY <2>3 DEF AnyEntry
  <2>5. PICK left : left = Rewritten(asked)
    OBVIOUS
  <2>6. left.version = asked.version /\ left.found /\ left.lasts
    BY <1>1, <2>5 DEF Rewritten
  <2>7. QED
    BY <1>1, <2>1, <2>3, <2>4, <2>5, <2>6 DEF Fits
<1>2. CASE ~(asked.found /\ asked.lasts)
  <2>1. e.version = Star \/ e.optional \/ HasEqualsSign(e.version)
    BY <1>2 DEF Fits
  <2>2. Fits(ParsedDep(WrittenDep(e)), Reading(WrittenDep(e)))
    BY ReadFits, WrittenIsUsual
  <2>3. ParsedDep(WrittenDep(e)).version = Star
    <3>1. CASE WrittenDep(e).form = "plain"
      <4>1. WrittenDep(e) = Plain(e.version) /\ (e.version = Star \/ HasEqualsSign(e.version))
        BY <2>1, <3>1 DEF Fits, WrittenDep, Plain, Table
      <4>2. QED
        BY <4>1 DEF ParsedDep, Plain, AnyEntry
    <3>2. CASE WrittenDep(e).form = "table"
      BY <2>2, <3>2, WrittenIsLost DEF Fits, Reading
    <3>3. QED
      BY <3>1, <3>2, WrittenIsUsual DEF Usual
  <2>4. ~Rewritten(asked).found
    BY <1>2 DEF Rewritten
  <2>5. QED
    BY <2>2, <2>3, <2>4 DEF Fits
<1>3. QED
  BY <1>1, <1>2

-----------------------------------------------------------------------------
LEMMA NothingListed ==
  ASSUME NEW lines, lines = <<>> \/ lines = <<Heading>>
  PROVE  IsText(lines) /\ DOMAIN Manifest(lines).deps = {}
<1>1. IsText(lines)
  BY DEF IsText
<1>2. \A i \in DOMAIN lines : ~Belongs(lines[i], "dependencies")
  BY DEF Belongs, Heading, Line
<1>3. QED
  BY <1>1, <1>2 DEF Manifest, Section

\* A file that a command was writing when it died names no package.
LEMMA TornIsUnreadable ==
  ASSUME toml' = <<>>
  PROVE  ~Readable'
  BY DEF Readable

\* What a command that writes the manifest leaves: all of it or nothing.
LEMMA SavedFits ==
  ASSUME NEW lines, IsText(lines), EntriesFit(Manifest(lines).deps, wanted'), Save(lines),
         made, made' = made, LockAsBuilt, UNCHANGED <<lock, built>>
  PROVE  ProjectInv'
<1>1. LockAsBuilt'
  BY DEF LockAsBuilt
<1>2. CASE toml' = <<>>
  BY <1>1, <1>2, TornIsUnreadable, NothingListed DEF ProjectInv
<1>3. CASE toml' = lines
  BY <1>1, <1>3 DEF ProjectInv
<1>4. QED
  BY <1>2, <1>3 DEF Save

\* Who can read a manifest has a directory, and may write what he read.
LEMMA ReadableIsMade ==
  ASSUME ProjectInv, Readable
  PROVE  /\ made /\ EntriesFit(Manifest(toml).deps, wanted)
         /\ IsFiniteSet(DOMAIN Manifest(toml).deps)
         /\ IsFiniteSet(DOMAIN Manifest(toml).dev)
<1>1. IsText(toml) /\ toml # <<>>
  BY DEF ProjectInv, Readable
<1>2. QED
  BY <1>1, FewNames DEF ProjectInv, Manifest

LEMMA InitProjectInv ==
  ASSUME ProjectInv, InitProject
  PROVE  ProjectInv'
<1>1. wanted' = Nothing /\ DOMAIN wanted' = {}
  BY DEF ProjectInv, InitProject, Nothing
<1>2. IsText(toml') /\ DOMAIN Manifest(toml').deps = {}
  BY NothingListed DEF InitProject
<1>3. QED
  BY <1>1, <1>2 DEF ProjectInv, InitProject, EntriesFit, LockAsBuilt

LEMMA AddDepInv ==
  ASSUME ProjectInv, NEW n, NEW v, NEW git \in BOOLEAN, NEW optional \in BOOLEAN,
         AddDep(n, v, git, optional)
  PROVE  ProjectInv'
<1> DEFINE m == Manifest(toml)
           entry == [version |-> v, optional |-> optional, git |-> git]
           deps == Insert(m.deps, n, entry)
           written == [m EXCEPT !.deps = deps]
<1>1. made /\ EntriesFit(m.deps, wanted) /\ IsFiniteSet(DOMAIN m.deps) /\ IsFiniteSet(DOMAIN m.dev)
  BY ReadableIsMade DEF AddDep
<1>2. written.deps = deps /\ written.dev = m.dev
  BY DEF Manifest
<1>3. /\ DOMAIN deps = DOMAIN m.deps \cup {n} /\ IsFiniteSet(DOMAIN deps)
      /\ deps[n] = entry /\ \A k \in DOMAIN m.deps \ {n} : deps[k] = m.deps[k]
  BY <1>1, FS_AddElement DEF Insert
<1>4. PICK lines : lines = WrittenManifest(written)
  OBVIOUS
<1> HIDE DEF m, deps, written
<1>5. IsText(lines) /\ Manifest(lines).deps = Reread(deps)
  BY <1>1, <1>2, <1>3, <1>4, WrittenIsRead
<1>6. /\ Save(lines) /\ made' = made /\ UNCHANGED <<lock, built>>
      /\ wanted' = Insert([k \in DOMAIN wanted |-> Rewritten(wanted[k])], n, Reading(WrittenDep(entry)))
  BY <1>4 DEF AddDep, m, deps, written
<1>7. EntriesFit(Reread(deps), wanted')
  <2>1. DOMAIN wanted' = DOMAIN deps
    BY <1>1, <1>3, <1>6 DEF EntriesFit, Insert
  <2>2. Fits(ParsedDep(WrittenDep(deps[n])), wanted'[n])
    BY <1>3, <1>6, ReadFits, WrittenIsUsual DEF Insert
  <2>3. ASSUME NEW k \in DOMAIN deps, k # n PROVE Fits(ParsedDep(WrittenDep(deps[k])), wanted'[k])
    BY <1>1, <1>3, <1>6, <2>3, RereadFits DEF EntriesFit, Insert
  <2>4. QED
    BY <2>1, <2>2, <2>3 DEF EntriesFit, Reread
<1>8. QED
  BY <1>1, <1>5, <1>6, <1>7, SavedFits DEF ProjectInv

LEMMA RemoveDepInv ==
  ASSUME ProjectInv, NEW n, RemoveDep(n)
  PROVE  ProjectInv'
<1> DEFINE m == Manifest(toml)
           deps == [k \in DOMAIN m.deps \ {n} |-> m.deps[k]]
           written == [m EXCEPT !.deps = deps]
<1>1. made /\ EntriesFit(m.deps, wanted) /\ IsFiniteSet(DOMAIN m.deps) /\ IsFiniteSet(DOMAIN m.dev)
  BY ReadableIsMade DEF RemoveDep
<1>2. written.deps = deps /\ written.dev = m.dev
  BY DEF Manifest
<1>3. DOMAIN deps = DOMAIN m.deps \ {n} /\ IsFiniteSet(DOMAIN deps)
  BY <1>1, FS_Subset
<1>4. PICK lines : lines = WrittenManifest(written)
  OBVIOUS
<1>5. \A k \in DOMAIN deps : deps[k] = m.deps[k]
  OBVIOUS
<1> HIDE DEF m, deps, written
<1>6. IsText(lines) /\ Manifest(lines).deps = Reread(deps)
  BY <1>1, <1>2, <1>3, <1>4, WrittenIsRead
<1>7. /\ Save(lines) /\ made' = made /\ UNCHANGED <<lock, built>>
      /\ wanted' = [k \in DOMAIN wanted \ {n} |-> Rewritten(wanted[k])]
  BY <1>4 DEF RemoveDep, m, deps, written
<1>8. EntriesFit(Reread(deps), wanted')
  <2>1. DOMAIN wanted' = DOMAIN deps
    BY <1>1, <1>3, <1>7 DEF EntriesFit
  <2>2. ASSUME NEW k \in DOMAIN deps PROVE Fits(ParsedDep(WrittenDep(deps[k])), wanted'[k])
    BY <1>1, <1>3, <1>5, <1>7, RereadFits DEF EntriesFit
  <2>3. QED
    BY <2>1, <2>2 DEF EntriesFit, Reread
<1>9. QED
  BY <1>1, <1>6, <1>7, <1>8, SavedFits DEF ProjectInv

\* Of one version the newest is that one.
LEMMA NewestOfOne ==
  ASSUME NEW x
  PROVE  Newest({x}) = x
  BY DEF Newest, AtMost

LEMMA BuildInv ==
  ASSUME ProjectInv, Build
  PROVE  ProjectInv'
<1> DEFINE deps == Manifest(toml).deps
<1>1. EntriesFit(deps, wanted)
  BY ReadableIsMade DEF Build
<1>2. \A n \in DOMAIN deps :
        Newest(Available(deps[n]))
          = IF IsSemVer(deps[n].version) THEN SemVer(deps[n].version) ELSE <<1, 0, 0>>
  <2> TAKE n \in DOMAIN deps
  <2>1. PICK x : x = IF IsSemVer(deps[n].version) THEN SemVer(deps[n].version) ELSE <<1, 0, 0>>
    OBVIOUS
  <2>2. Available(deps[n]) = {x}
    BY <2>1 DEF Available
  <2>3. QED
    BY <2>1, <2>2, NewestOfOne
<1> HIDE DEF deps
<1>3. LockAsBuilt'
  <2>1. CASE lock' = Nothing
    BY <2>1 DEF LockAsBuilt, Nothing
  <2>2. CASE lock' = [n \in DOMAIN deps |-> Newest(Available(deps[n]))]
    <3>1. built' = wanted
      BY DEF Build
    <3>2. QED
      BY <1>1, <1>2, <2>2, <3>1, StarIsNoNumber DEF LockAsBuilt, EntriesFit, Fits
  <2>3. QED
    BY <2>1, <2>2 DEF Build, deps
<1>4. QED
  BY <1>3 DEF ProjectInv, Build, Readable, EntriesFit

LEMMA EditInv ==
  ASSUME ProjectInv, NEW lines \in HandWritten, Edit(lines)
  PROVE  ProjectInv'
<1> DEFINE own == {i \in DOMAIN lines : lines[i].section = "dependencies"}
           Latest(n) == Max({i \in own : lines[i].key = n})
<1>1. IsText(lines) /\ \A i \in DOMAIN lines : Usual(lines[i].text)
  BY HandWrittenAssumption DEF IsText, Usual
<1>2. /\ made' = made /\ made /\ toml' = lines /\ UNCHANGED <<lock, built>>
      /\ wanted' = [n \in {lines[i].key : i \in own} |-> Reading(lines[Latest(n)].text)]
  <2>1. \A n : {i \in DOMAIN lines : lines[i].section = "dependencies" /\ lines[i].key = n}
              = {i \in own : lines[i].key = n}
    OBVIOUS
  <2>2. QED
    BY <2>1 DEF Edit
<1>3. Manifest(lines).deps = [n \in {lines[i].key : i \in own} |-> ParsedDep(lines[Latest(n)].text)]
  BY DEF Manifest, Section, Belongs
<1>4. ASSUME NEW n \in {lines[i].key : i \in own} PROVE Usual(lines[Latest(n)].text)
  <2> DEFINE S == {i \in own : lines[i].key = n}
  <2>1. S # {} /\ S \subseteq 1..Len(lines) /\ Len(lines) \in Nat
    BY <1>1 DEF IsText
  <2> HIDE DEF S
  <2>2. Max(S) \in S
    BY <2>1, LatestIsThere
  <2>3. QED
    BY <1>1, <2>2 DEF S
<1> HIDE DEF own, Latest
<1>5. EntriesFit(Manifest(lines).deps, wanted')
  BY <1>2, <1>3, <1>4, ReadFits DEF EntriesFit
<1>6. LockAsBuilt'
  BY <1>2 DEF ProjectInv, LockAsBuilt
<1>7. QED
  BY <1>1, <1>2, <1>5, <1>6 DEF ProjectInv

LEMMA ProjectInitInv == ProjectInit => ProjectInv
<1> SUFFICES ASSUME ProjectInit PROVE ProjectInv
  OBVIOUS
<1>1. IsText(toml) /\ ~Readable
  BY NothingListed DEF ProjectInit, Readable
<1>2. QED
  BY <1>1 DEF ProjectInit, ProjectInv, LockAsBuilt, Nothing

LEMMA ProjectNextInv == ProjectInv /\ [ProjectNext]_projectVars => ProjectInv'
<1> SUFFICES ASSUME ProjectInv, [ProjectNext]_projectVars PROVE ProjectInv'
  OBVIOUS
<1>1. CASE UNCHANGED projectVars
  BY <1>1 DEF projectVars, ProjectInv, Readable, EntriesFit, LockAsBuilt
<1>2. CASE ProjectNext
  BY <1>2, InitProjectInv, AddDepInv, RemoveDepInv, BuildInv, EditInv DEF ProjectNext
<1>3. QED
  BY <1>1, <1>2

\* pkg.rs over package.rs: whatever was added, removed, built, edited and torn
\* before, a manifest that can be read lists what was asked for, and the lock has
\* the versions of its build.
THEOREM ProjectKept == ProjectSpec => []ProjectAsAsked
<1>1. ProjectInv => ProjectAsAsked
  BY DEF ProjectInv, EntriesFit, Fits, LockAsBuilt, ProjectAsAsked
<1>2. QED
  BY <1>1, ProjectInitInv, ProjectNextInv, PTL DEF ProjectSpec

-----------------------------------------------------------------------------
(* The language server, for any documents and texts, any number of changes,  *)
(* questions and servers, and pipes of any length.  Three facts carry it: of *)
(* what is on its way to the server the last edit of a document makes it the *)
(* text the user sees (Comes), of what is on its way back the last finding   *)
(* is that of the text the server has (Told), and the ids of the answers,    *)
(* the replies and the questions on their way follow each other (InTurn).    *)
(* First, what pipes and lists do, whatever they carry.                      *)
IsList(p) == p \in Seq({p[i] : i \in DOMAIN p})
\* q is p without its first k.
Drops(q, p, k) ==
  /\ IsList(q) /\ Len(q) = Len(p) - k
  /\ \A i \in 1..Len(q) : q[i] = p[i + k]
\* q is p with r behind it.
Adds(q, p, r) ==
  /\ IsList(q) /\ Len(q) = Len(p) + Len(r)
  /\ \A i \in 1..Len(p) : q[i] = p[i]
  /\ \A i \in 1..Len(r) : q[Len(p) + i] = r[i]
\* q is p with e behind it.
Gains(q, p, e) ==
  /\ IsList(q) /\ Len(q) = Len(p) + 1
  /\ \A i \in 1..Len(p) : q[i] = p[i]
  /\ q[Len(p) + 1] = e

\* The length of a list, and where it has elements.
LEMMA ListSize ==
  ASSUME NEW p, IsList(p)
  PROVE  Len(p) \in Nat /\ DOMAIN p = 1..Len(p) /\ (p = <<>> <=> Len(p) = 0)
  BY DEF IsList

\* A sequence is a list.
LEMMA ListOf ==
  ASSUME NEW S, NEW p \in Seq(S)
  PROVE  IsList(p)
<1>1. Len(p) \in Nat /\ p \in [1..Len(p) -> S] /\ DOMAIN p = 1..Len(p)
  BY LenProperties
<1>2. p \in [1..Len(p) -> {p[i] : i \in DOMAIN p}]
  BY <1>1
<1>3. QED
  BY <1>1, <1>2, SeqDef DEF IsList

\* What is left behind the k-th piece.
LEMMA RestDrops ==
  ASSUME NEW p, IsList(p), NEW k \in Nat, k <= Len(p)
  PROVE  Drops(SubSeq(p, k + 1, Len(p)), p, k)
<1> DEFINE S == {p[i] : i \in DOMAIN p}
<1>1. p \in Seq(S)
  BY DEF IsList
<1> HIDE DEF S
<1>2. PICK n \in Nat : n = Len(p)
  BY <1>1
<1>3. /\ SubSeq(p, k + 1, n) \in Seq(S) /\ Len(SubSeq(p, k + 1, n)) = n - k
      /\ \A i \in 1..n - k : SubSeq(p, k + 1, n)[i] = p[i + k]
  <2>1. DOMAIN p = 1..n /\ k + 1 \in 1..n + 1 /\ n \in k..n
    BY <1>1, <1>2
  <2>2. QED
    BY <1>1, <1>2, <2>1, SubSeqProperties
<1>4. QED
  BY <1>2, <1>3, ListOf DEF Drops

\* The first is taken.
LEMMA TailDrops ==
  ASSUME NEW p, IsList(p), p # <<>>
  PROVE  Drops(Tail(p), p, 1) /\ Head(p) = p[1] /\ 1 \in DOMAIN p
<1> DEFINE S == {p[i] : i \in DOMAIN p}
<1>1. p \in Seq(S)
  BY DEF IsList
<1> HIDE DEF S
<1>2. Tail(p) \in Seq(S) /\ Len(Tail(p)) = Len(p) - 1 /\ \A i \in 1..Len(Tail(p)) : Tail(p)[i] = p[i + 1]
  BY <1>1
<1>3. Head(p) = p[1] /\ 1 \in DOMAIN p
  BY <1>1
<1>4. QED
  BY <1>2, <1>3, ListOf DEF Drops

\* One list behind another.
LEMMA JoinAdds ==
  ASSUME NEW p, IsList(p), NEW r, IsList(r)
  PROVE  Adds(p \o r, p, r)
<1> DEFINE S == {p[i] : i \in DOMAIN p} \cup {r[i] : i \in DOMAIN r}
<1>1. p \in Seq(S) /\ r \in Seq(S)
  BY SeqMonotonic DEF IsList
<1> HIDE DEF S
<1>2. IsList(p \o r)
  BY <1>1, TwoJoined, ListOf
<1>3. /\ Len(p \o r) = Len(p) + Len(r)
      /\ \A i \in 1..Len(p) : (p \o r)[i] = p[i]
      /\ \A i \in 1..Len(r) : (p \o r)[Len(p) + i] = r[i]
  BY <1>1, TwoJoined
<1>4. QED
  BY <1>2, <1>3 DEF Adds

\* One more behind a list.
LEMMA AppendGains ==
  ASSUME NEW p, IsList(p), NEW e
  PROVE  Gains(Append(p, e), p, e)
<1> DEFINE S == {p[i] : i \in DOMAIN p} \cup {e}
<1>1. p \in Seq(S) /\ e \in S
  BY SeqMonotonic DEF IsList
<1> HIDE DEF S
<1>2. Append(p, e) \in Seq(S)
  BY <1>1
<1>3. /\ Len(Append(p, e)) = Len(p) + 1
      /\ \A i \in 1..Len(p) : Append(p, e)[i] = p[i]
      /\ Append(p, e)[Len(p) + 1] = e
  BY <1>1
<1>4. QED
  BY <1>2, <1>3, ListOf DEF Gains

-----------------------------------------------------------------------------
(* The editor's pipe: frames of four pieces, of which the server takes two   *)
(* at a time.                                                                *)
Header == [piece |-> "header"]
Body(m) == [piece |-> "body", message |-> m]
Lines(pipe) ==
  /\ IsList(pipe)
  /\ \E k \in Nat :
       /\ Len(pipe) = 2 * k
       /\ \A j \in 1..k : /\ pipe[2 * j] = End
                          /\ pipe[2 * j - 1].piece \in {"header", "body"}
Bodies(pipe) == {i \in DOMAIN pipe : pipe[i].piece = "body"}
\* The frames of the messages ms.
Frames(r, ms) ==
  /\ IsList(r) /\ Len(r) = 4 * Len(ms)
  /\ \A j \in 1..Len(ms) :
       /\ r[4 * j - 3] = Header /\ r[4 * j - 2] = End
       /\ r[4 * j - 1] = Body(ms[j]) /\ r[4 * j] = End

\* A message is one frame.
LEMMA OneFrame ==
  ASSUME NEW m, endsLine
  PROVE  Frames(Framed(m), <<m>>)
<1> DEFINE p == <<Header, End, Body(m)>>
           q == <<End>>
           S == {Header, End, Body(m)}
<1>1. Framed(m) = p \o q
  BY DEF Framed, Header, Body
<1>2. /\ p \in Seq(S) /\ q \in Seq(S) /\ Len(p) = 3 /\ Len(q) = 1
      /\ p[1] = Header /\ p[2] = End /\ p[3] = Body(m) /\ q[1] = End
  OBVIOUS
<1>3. Len(<<m>>) = 1 /\ <<m>>[1] = m
  OBVIOUS
<1> HIDE DEF p, q, S
<1>4. PICK r : r = p \o q /\ Adds(r, p, q)
  BY <1>2, ListOf, JoinAdds
<1>5. /\ Len(r) = 4
      /\ \A i \in 1..3 : r[i] = p[i]
      /\ \A i \in 1..1 : r[3 + i] = q[i]
  BY <1>2, <1>4 DEF Adds
<1>6. r[1] = Header /\ r[2] = End /\ r[3] = Body(m) /\ r[3 + 1] = End
  BY <1>2, <1>5
<1>7. IsList(r)
  BY <1>4 DEF Adds
<1>8. QED
  BY <1>1, <1>3, <1>4, <1>5, <1>6, <1>7 DEF Frames

\* Messages are as many frames.
LEMMA AllFrames ==
  ASSUME NEW ms, IsList(ms), endsLine
  PROVE  Frames(FramedAll(ms), ms)
<1>1. PICK k \in Nat : k = Len(ms)
  BY ListSize
<1> DEFINE r == FramedAll(ms)
           S == {r[n] : n \in 1..4 * k}
<1>2. r = [n \in 1..4 * k |-> Framed(ms[((n - 1) \div 4) + 1])[((n - 1) % 4) + 1]]
  BY <1>1 DEF FramedAll
<1> HIDE DEF r
<1>3. r \in [1..4 * k -> S] /\ 4 * k \in Nat
  BY <1>2
<1>4. r \in Seq(S)
  BY <1>3, SeqDef
<1>5. Len(r) = 4 * k
  BY <1>3, <1>4, LenProperties
<1>6. ASSUME NEW j \in 1..k
      PROVE  /\ r[4 * j - 3] = Framed(ms[j])[1] /\ r[4 * j - 2] = Framed(ms[j])[2]
             /\ r[4 * j - 1] = Framed(ms[j])[3] /\ r[4 * j] = Framed(ms[j])[4]
  <2>1. /\ (4 * j - 3 - 1) \div 4 = j - 1 /\ (4 * j - 3 - 1) % 4 = 0
        /\ (4 * j - 2 - 1) \div 4 = j - 1 /\ (4 * j - 2 - 1) % 4 = 1
        /\ (4 * j - 1 - 1) \div 4 = j - 1 /\ (4 * j - 1 - 1) % 4 = 2
        /\ (4 * j - 1) \div 4 = j - 1 /\ (4 * j - 1) % 4 = 3
    OBVIOUS
  <2>2. /\ 4 * j - 3 \in 1..4 * k /\ 4 * j - 2 \in 1..4 * k
        /\ 4 * j - 1 \in 1..4 * k /\ 4 * j \in 1..4 * k
    OBVIOUS
  <2>3. j - 1 + 1 = j /\ 0 + 1 = 1 /\ 1 + 1 = 2 /\ 2 + 1 = 3 /\ 3 + 1 = 4
    OBVIOUS
  <2>4. QED
    BY <1>2, <2>1, <2>2, <2>3
<1>7. ASSUME NEW j \in 1..k
      PROVE  /\ r[4 * j - 3] = Header /\ r[4 * j - 2] = End
             /\ r[4 * j - 1] = Body(ms[j]) /\ r[4 * j] = End
  <2>1. Frames(Framed(ms[j]), <<ms[j]>>)
    BY OneFrame
  <2>2. Len(<<ms[j]>>) = 1 /\ <<ms[j]>>[1] = ms[j] /\ 1 \in 1..1
    OBVIOUS
  <2>3. /\ Framed(ms[j])[1] = Header /\ Framed(ms[j])[2] = End
        /\ Framed(ms[j])[3] = Body(ms[j]) /\ Framed(ms[j])[4] = End
    BY <2>1, <2>2 DEF Frames
  <2>4. QED
    BY <1>6, <2>3
<1>8. QED
  BY <1>1, <1>4, <1>5, <1>7, ListOf DEF Frames, r

\* q is the pipe p with the messages ms behind it.
Sent(q, p, ms) ==
  /\ Lines(q)
  /\ Bodies(q) = Bodies(p) \cup {Len(p) + 4 * j - 1 : j \in 1..Len(ms)}
  /\ \A i \in Bodies(p) : q[i] = p[i] /\ i \in 1..Len(p)
  /\ \A j \in 1..Len(ms) : q[Len(p) + 4 * j - 1] = Body(ms[j])

LEMMA MoreLines ==
  ASSUME NEW p, Lines(p), NEW ms, IsList(ms), NEW r, Frames(r, ms)
  PROVE  Sent(p \o r, p, ms)
<1>1. PICK k \in Nat : /\ Len(p) = 2 * k
                       /\ \A j \in 1..k : /\ p[2 * j] = End
                                          /\ p[2 * j - 1].piece \in {"header", "body"}
  BY DEF Lines
<1>2. PICK n \in Nat : n = Len(ms) /\ Len(r) = 4 * n
  BY ListSize DEF Frames
<1>3. PICK q : q = p \o r
  OBVIOUS
<1>4. Adds(q, p, r)
  BY <1>3, JoinAdds DEF Lines, Frames
<1>5. DOMAIN p = 1..2 * k /\ DOMAIN q = 1..2 * k + 4 * n /\ IsList(q) /\ Len(q) = 2 * (k + 2 * n)
  <2>1. DOMAIN p = 1..2 * k
    BY <1>1, ListSize DEF Lines
  <2>2. IsList(q) /\ Len(q) = 2 * k + 4 * n
    BY <1>1, <1>2, <1>4 DEF Adds
  <2>3. DOMAIN q = 1..2 * k + 4 * n
    BY <2>2, ListSize
  <2>4. QED
    BY <2>1, <2>2, <2>3
<1>6. ASSUME NEW j \in 1..n
      PROVE  /\ q[2 * k + 4 * j - 3] = Header /\ q[2 * k + 4 * j - 2] = End
             /\ q[2 * k + 4 * j - 1] = Body(ms[j]) /\ q[2 * k + 4 * j] = End
  <2>1. /\ r[4 * j - 3] = Header /\ r[4 * j - 2] = End
        /\ r[4 * j - 1] = Body(ms[j]) /\ r[4 * j] = End
    BY <1>2 DEF Frames
  <2>2. \A i \in 1..4 * n : q[2 * k + i] = r[i]
    BY <1>1, <1>2, <1>4 DEF Adds
  <2>3. /\ 4 * j - 3 \in 1..4 * n /\ 4 * j - 2 \in 1..4 * n
        /\ 4 * j - 1 \in 1..4 * n /\ 4 * j \in 1..4 * n
        /\ 2 * k + 4 * j - 3 = 2 * k + (4 * j - 3)
        /\ 2 * k + 4 * j - 2 = 2 * k + (4 * j - 2)
        /\ 2 * k + 4 * j - 1 = 2 * k + (4 * j - 1)
    OBVIOUS
  <2>4. QED
    BY <2>1, <2>2, <2>3
<1>7. \A i \in 1..2 * k : q[i] = p[i]
  BY <1>1, <1>4 DEF Adds
<1>8. ASSUME NEW i \in 2 * k + 1..2 * k + 4 * n
      PROVE  \E j \in 1..n : \/ i = 2 * k + 4 * j - 3 \/ i = 2 * k + 4 * j - 2
                             \/ i = 2 * k + 4 * j - 1 \/ i = 2 * k + 4 * j
  <2>1. (i - 2 * k - 1) \div 4 + 1 \in 1..n
    OBVIOUS
  <2>2. PICK j \in 1..n : j = (i - 2 * k - 1) \div 4 + 1
    BY <2>1
  <2>3. \/ i = 2 * k + 4 * j - 3 \/ i = 2 * k + 4 * j - 2
        \/ i = 2 * k + 4 * j - 1 \/ i = 2 * k + 4 * j
    BY <2>2
  <2>4. QED
    BY <2>3
<1>9. Header.piece = "header" /\ End.piece = "end" /\ \A m : Body(m).piece = "body"
  BY DEF Header, End, Body
<1>10. ASSUME NEW j \in 1..k + 2 * n
       PROVE  q[2 * j] = End /\ q[2 * j - 1].piece \in {"header", "body"}
  <2>1. CASE j <= k
    <3>1. 2 * j \in 1..2 * k /\ 2 * j - 1 \in 1..2 * k /\ j \in 1..k
      BY <2>1
    <3>2. QED
      BY <1>1, <1>7, <3>1
  <2>2. CASE j > k
    <3>1. PICK h \in 1..n : j = k + 2 * h - 1 \/ j = k + 2 * h
      <4>1. (j - k - 1) \div 2 + 1 \in 1..n
        BY <2>2
      <4>2. PICK h \in 1..n : h = (j - k - 1) \div 2 + 1
        BY <4>1
      <4>3. j = k + 2 * h - 1 \/ j = k + 2 * h
        BY <4>2, <2>2
      <4>4. QED
        BY <4>3
    <3>2. CASE j = k + 2 * h - 1
      <4>1. 2 * j = 2 * k + 4 * h - 2 /\ 2 * j - 1 = 2 * k + 4 * h - 3
        BY <3>2
      <4>2. QED
        BY <1>6, <1>9, <4>1
    <3>3. CASE j = k + 2 * h
      <4>1. 2 * j = 2 * k + 4 * h /\ 2 * j - 1 = 2 * k + 4 * h - 1
        BY <3>3
      <4>2. QED
        BY <1>6, <1>9, <4>1
    <3>4. QED
      BY <3>1, <3>2, <3>3
  <2>3. QED
    BY <2>1, <2>2
<1>11. Lines(q)
  BY <1>5, <1>10, k + 2 * n \in Nat DEF Lines
<1>12. \A i \in Bodies(p) : i \in Bodies(q) /\ q[i] = p[i] /\ i \in 1..2 * k
  BY <1>5, <1>7 DEF Bodies
<1>13. \A j \in 1..n : 2 * k + 4 * j - 1 \in Bodies(q) /\ q[2 * k + 4 * j - 1] = Body(ms[j])
  <2> TAKE j \in 1..n
  <2>1. 2 * k + 4 * j - 1 \in 1..2 * k + 4 * n
    OBVIOUS
  <2>2. q[2 * k + 4 * j - 1] = Body(ms[j])
    BY <1>6
  <2>3. QED
    BY <1>5, <1>9, <2>1, <2>2 DEF Bodies
<1>14. ASSUME NEW i \in Bodies(q), i \notin Bodies(p)
       PROVE  \E j \in 1..n : i = 2 * k + 4 * j - 1
  <2>1. i \in 2 * k + 1..2 * k + 4 * n
    BY <1>5, <1>7, <1>14 DEF Bodies
  <2>2. PICK j \in 1..n : \/ i = 2 * k + 4 * j - 3 \/ i = 2 * k + 4 * j - 2
                          \/ i = 2 * k + 4 * j - 1 \/ i = 2 * k + 4 * j
    BY <1>8, <2>1
  <2>3. QED
    BY <1>6, <1>9, <2>2 DEF Bodies
<1>15. Bodies(q) = Bodies(p) \cup {2 * k + 4 * j - 1 : j \in 1..n}
  BY <1>12, <1>13, <1>14
<1>16. QED
  BY <1>1, <1>2, <1>3, <1>11, <1>12, <1>13, <1>15 DEF Sent

\* The server takes a line: the header of a message, or its body.
LEMMA FirstLine ==
  ASSUME Lines(stdin), HasLine
  PROVE  /\ stdin # <<>> /\ 1 \in DOMAIN stdin
         /\ IsMessage <=> stdin[1].piece = "body"
         /\ NextLine[1] = stdin[1]
         /\ Drops(RestOfInput, stdin, 2)
<1>1. PICK k \in Nat : /\ Len(stdin) = 2 * k
                       /\ \A j \in 1..k : /\ stdin[2 * j] = End
                                          /\ stdin[2 * j - 1].piece \in {"header", "body"}
  BY DEF Lines
<1> DEFINE I == {i \in 1..Len(stdin) : stdin[i].piece = "end"}
<1>2. LineEnd = IF I # {} THEN Min(I) ELSE 0
  BY DEF LineEnd, SelectInSeq
<1>3. k # 0
  <2>1. SUFFICES ASSUME k = 0 PROVE FALSE
    OBVIOUS
  <2>2. stdin = <<>> /\ I = {}
    BY <1>1, <2>1, ListSize DEF Lines
  <2>3. QED
    BY <1>2, <2>2 DEF HasLine
<1>4. stdin[2] = End /\ stdin[1].piece # "end" /\ 1 \in 1..Len(stdin) /\ 2 \in 1..Len(stdin)
  <2>1. 1 \in 1..k /\ 2 * 1 = 2 /\ 2 * 1 - 1 = 1
    BY <1>3
  <2>2. QED
    BY <1>1, <2>1
<1>5. 2 \in I /\ \A i \in I : 2 <= i
  BY <1>4 DEF End
<1>6. Min(I) = 2
  BY <1>5 DEF Min
<1>7. LineEnd = 2
  BY <1>2, <1>5, <1>6
<1>8. RestOfInput = SubSeq(stdin, 2 + 1, Len(stdin))
  BY <1>7 DEF RestOfInput
<1>9. Drops(RestOfInput, stdin, 2)
  <2>1. IsList(stdin)
    BY DEF Lines
  <2>2. 2 \in Nat /\ 2 <= Len(stdin)
    BY <1>1, <1>4
  <2>3. QED
    BY <1>8, <2>1, <2>2, RestDrops
<1>10. NextLine = SubSeq(stdin, 1, 1)
  BY <1>7 DEF NextLine
<1>11. Len(NextLine) = 1 /\ NextLine[1] = stdin[1]
  BY <1>4, <1>10 DEF Lines, IsList
<1>12. stdin # <<>> /\ 1 \in DOMAIN stdin
  BY <1>4, ListSize DEF Lines
<1>13. QED
  BY <1>9, <1>11, <1>12 DEF IsMessage

\* Without its first line a pipe is lines again; its bodies move up.
LEMMA LessLines ==
  ASSUME NEW p, Lines(p), p # <<>>, NEW q, Drops(q, p, 2)
  PROVE  /\ Lines(q)
         /\ \A i \in Bodies(q) : i \in Nat /\ i + 2 \in Bodies(p) /\ q[i] = p[i + 2]
         /\ \A i \in Bodies(p) : i = 1 \/ (i - 2 \in Bodies(q) /\ i \in Nat)
<1>1. PICK k \in Nat : /\ Len(p) = 2 * k
                       /\ \A j \in 1..k : /\ p[2 * j] = End
                                          /\ p[2 * j - 1].piece \in {"header", "body"}
  BY DEF Lines
<1>2. k # 0 /\ DOMAIN p = 1..2 * k
  BY <1>1, ListSize DEF Lines
<1>3. IsList(q) /\ Len(q) = 2 * (k - 1) /\ DOMAIN q = 1..2 * (k - 1)
  <2>1. IsList(q) /\ Len(q) = 2 * (k - 1)
    BY <1>1 DEF Drops
  <2>2. QED
    BY <2>1, ListSize
<1>4. \A i \in 1..2 * (k - 1) : q[i] = p[i + 2]
  BY <1>3 DEF Drops
<1>5. ASSUME NEW j \in 1..k - 1
      PROVE  q[2 * j] = End /\ q[2 * j - 1].piece \in {"header", "body"}
  <2>1. /\ j + 1 \in 1..k /\ 2 * (j + 1) = 2 * j + 2 /\ 2 * (j + 1) - 1 = (2 * j - 1) + 2
        /\ 2 * j \in 1..2 * (k - 1) /\ 2 * j - 1 \in 1..2 * (k - 1)
    OBVIOUS
  <2>2. QED
    BY <1>1, <1>4, <2>1
<1>6. k - 1 \in Nat
  BY <1>2
<1>7. Lines(q)
  BY <1>3, <1>5, <1>6 DEF Lines
<1>8. \A i \in Bodies(q) : i \in Nat /\ i + 2 \in Bodies(p) /\ q[i] = p[i + 2]
  BY <1>2, <1>3, <1>4 DEF Bodies
<1>9. ASSUME NEW i \in Bodies(p), i # 1
      PROVE  i - 2 \in Bodies(q) /\ i \in Nat
  <2>1. p[2] = End
    BY <1>1, <1>2, 1 \in 1..k, 2 * 1 = 2
  <2>2. i \in 3..2 * k
    BY <1>2, <1>9, <2>1 DEF Bodies, End
  <2>3. i - 2 \in 1..2 * (k - 1) /\ i - 2 + 2 = i
    BY <2>2
  <2>4. QED
    BY <1>3, <1>4, <2>2, <2>3 DEF Bodies
<1>10. QED
  BY <1>7, <1>8, <1>9

-----------------------------------------------------------------------------
(* What the messages on their way will make of the text of a document, and   *)
(* what the user will see of it last.                                        *)
Answered == {"initialize", "completion", "hover", "signatureHelp", "shutdown"}
Notices == {"didOpen", "didChange", "didClose"}
Edits(m, d) ==
  /\ m.method \in Notices /\ m.doc = d
  /\ m.method = "didClose" \/ m.texts # <<>>
Text(m) == IF m.method = "didClose" THEN Absent ELSE Last(m.texts)
EditsOf(pipe, d) == {i \in Bodies(pipe) : Edits(pipe[i].message, d)}
\* The text is what comes last, or what there is.
Comes(pipe, d, text, now) ==
  \/ EditsOf(pipe, d) = {} /\ now = text
  \/ \E i \in EditsOf(pipe, d) :
       /\ \A j \in EditsOf(pipe, d) : j <= i
       /\ Text(pipe[i].message) = text
Says(pipe, d) == {i \in DOMAIN pipe : pipe[i].type = "diagnostics" /\ pipe[i].doc = d}
Told(pipe, d, finding, now) ==
  \/ Says(pipe, d) = {} /\ now = finding
  \/ \E i \in Says(pipe, d) :
       /\ \A j \in Says(pipe, d) : j <= i
       /\ pipe[i].result = finding

\* Messages that say nothing of d change nothing for it.
LEMMA ComesLater ==
  ASSUME NEW p, Lines(p), NEW ms, IsList(ms), NEW q, Sent(q, p, ms), NEW d, NEW text, NEW now,
         Comes(p, d, text, now), \A j \in 1..Len(ms) : ~Edits(ms[j], d)
  PROVE  Comes(q, d, text, now)
<1>2. /\ Bodies(q) = Bodies(p) \cup {Len(p) + 4 * j - 1 : j \in 1..Len(ms)}
      /\ \A i \in Bodies(p) : q[i] = p[i] /\ i \in 1..Len(p)
      /\ \A j \in 1..Len(ms) : q[Len(p) + 4 * j - 1] = Body(ms[j])
  BY DEF Sent
<1>3. \A j \in 1..Len(ms) : q[Len(p) + 4 * j - 1].message = ms[j]
  <2>1. \A m : Body(m).message = m
    BY DEF Body
  <2>2. QED
    BY <1>2, <2>1
<1>4. EditsOf(q, d) = EditsOf(p, d) /\ \A i \in EditsOf(p, d) : q[i] = p[i]
  BY <1>2, <1>3 DEF EditsOf
<1>5. QED
  BY <1>4 DEF Comes

\* The one message among ms that says something of d is what counts.
LEMMA ComesNow ==
  ASSUME NEW p, Lines(p), NEW ms, IsList(ms), NEW q, Sent(q, p, ms), NEW d, NEW now,
         NEW n \in 1..Len(ms), Edits(ms[n], d), \A j \in 1..Len(ms) : Edits(ms[j], d) => j = n
  PROVE  Comes(q, d, Text(ms[n]), now)
<1>2. /\ Bodies(q) = Bodies(p) \cup {Len(p) + 4 * j - 1 : j \in 1..Len(ms)}
      /\ \A i \in Bodies(p) : q[i] = p[i] /\ i \in 1..Len(p)
      /\ \A j \in 1..Len(ms) : q[Len(p) + 4 * j - 1] = Body(ms[j])
  BY DEF Sent
<1>3. \A j \in 1..Len(ms) : q[Len(p) + 4 * j - 1].message = ms[j]
  <2>1. \A m : Body(m).message = m
    BY DEF Body
  <2>2. QED
    BY <1>2, <2>1
<1>4. Len(p) \in Nat /\ Len(ms) \in Nat
  BY ListSize DEF Lines
<1>5. PICK i : i = Len(p) + 4 * n - 1
  OBVIOUS
<1>6. i \in EditsOf(q, d) /\ Text(q[i].message) = Text(ms[n])
  BY <1>2, <1>3, <1>5 DEF EditsOf
<1>7. \A j \in EditsOf(q, d) : j <= i
  BY <1>2, <1>3, <1>4, <1>5 DEF EditsOf
<1>8. QED
  BY <1>6, <1>7 DEF Comes

\* A line is taken: what it made of the text is there.
LEMMA ComesCloser ==
  ASSUME NEW p, Lines(p), p # <<>>, NEW q, Drops(q, p, 2), NEW d, NEW text, NEW now, NEW next,
         Comes(p, d, text, now),
         IF 1 \in EditsOf(p, d) THEN next = Text(p[1].message) ELSE next = now
  PROVE  Comes(q, d, text, next)
<1>1. \A i \in EditsOf(q, d) : i \in Nat /\ i >= 1 /\ i + 2 \in EditsOf(p, d) /\ q[i] = p[i + 2]
  <2>1. \A i \in Bodies(q) : i \in Nat /\ i + 2 \in Bodies(p) /\ q[i] = p[i + 2]
    BY LessLines
  <2>2. \A i \in Bodies(q) : i >= 1
    <3>1. DOMAIN q = 1..Len(q) /\ Len(q) \in Nat
      BY ListSize DEF Drops
    <3>2. QED
      BY <3>1 DEF Bodies
  <2>3. QED
    BY <2>1, <2>2 DEF EditsOf
<1>2. \A i \in EditsOf(p, d) : i = 1 \/ (i - 2 \in EditsOf(q, d) /\ i \in Nat /\ q[i - 2] = p[i])
  <2> TAKE i \in EditsOf(p, d)
  <2>1. SUFFICES ASSUME i # 1 PROVE i - 2 \in EditsOf(q, d) /\ i \in Nat /\ q[i - 2] = p[i]
    OBVIOUS
  <2>2. i - 2 \in Bodies(q) /\ i \in Nat
    BY <2>1, LessLines DEF EditsOf
  <2>3. q[i - 2] = p[i - 2 + 2] /\ i - 2 + 2 = i
    BY <2>2, LessLines
  <2>4. QED
    BY <2>2, <2>3 DEF EditsOf
<1>3. CASE EditsOf(p, d) = {}
  BY <1>1, <1>3 DEF Comes
<1>4. CASE EditsOf(p, d) # {}
  <2>1. PICK i \in EditsOf(p, d) : /\ \A j \in EditsOf(p, d) : j <= i
                                  /\ Text(p[i].message) = text
    BY <1>4 DEF Comes
  <2>2. CASE i = 1
    <3>1. \A j \in EditsOf(q, d) : FALSE
      <4> TAKE j \in EditsOf(q, d)
      <4>1. j \in Nat /\ j >= 1 /\ j + 2 \in EditsOf(p, d)
        BY <1>1
      <4>2. j + 2 <= 1
        BY <2>1, <2>2, <4>1
      <4>3. QED
        BY <4>1, <4>2
    <3>2. QED
      BY <2>1, <2>2, <3>1 DEF Comes
  <2>3. CASE i # 1
    <3>1. i - 2 \in EditsOf(q, d) /\ q[i - 2] = p[i] /\ i \in Nat
      BY <1>2, <2>3
    <3>2. \A j \in EditsOf(q, d) : j <= i - 2
      BY <1>1, <2>1, <3>1
    <3>3. QED
      BY <2>1, <3>1, <3>2 DEF Comes
  <2>4. QED
    BY <2>2, <2>3
<1>5. QED
  BY <1>3, <1>4

\* The same of the pipe back: what is said last of d counts.
LEMMA ToldLater ==
  ASSUME NEW p, IsList(p), NEW e, NEW q, Gains(q, p, e), NEW d, NEW finding, NEW now,
         IF e.type = "diagnostics" /\ e.doc = d THEN finding = e.result
         ELSE Told(p, d, finding, now)
  PROVE  Told(q, d, finding, now)
<1>1. PICK n \in Nat : n = Len(p) /\ DOMAIN p = 1..n /\ DOMAIN q = 1..n + 1
  BY ListSize DEF Gains
<1>2. q[n + 1] = e /\ \A i \in 1..n : q[i] = p[i]
  BY <1>1 DEF Gains
<1>3. CASE e.type = "diagnostics" /\ e.doc = d
  <2>1. n + 1 \in Says(q, d) /\ \A j \in Says(q, d) : j <= n + 1
    BY <1>1, <1>2, <1>3 DEF Says
  <2>2. QED
    BY <1>2, <1>3, <2>1 DEF Told
<1>4. CASE ~(e.type = "diagnostics" /\ e.doc = d)
  <2>1. Says(q, d) = Says(p, d) /\ \A i \in Says(p, d) : q[i] = p[i]
    BY <1>1, <1>2, <1>4 DEF Says
  <2>2. QED
    BY <1>4, <2>1 DEF Told
<1>5. QED
  BY <1>3, <1>4

\* A reply is taken: what it said is shown.
LEMMA ToldSooner ==
  ASSUME NEW p, IsList(p), p # <<>>, NEW q, Drops(q, p, 1), NEW d, NEW finding, NEW now, NEW next,
         Told(p, d, finding, now),
         IF 1 \in Says(p, d) THEN next = p[1].result ELSE next = now
  PROVE  Told(q, d, finding, next)
<1>1. PICK n \in Nat : n = Len(p) /\ n # 0 /\ DOMAIN p = 1..n /\ DOMAIN q = 1..n - 1
  BY ListSize DEF Drops
<1>2. \A i \in 1..n - 1 : q[i] = p[i + 1]
  BY <1>1 DEF Drops
<1>3. \A i \in Says(q, d) : i \in Nat /\ i >= 1 /\ i + 1 \in Says(p, d) /\ q[i] = p[i + 1]
  BY <1>1, <1>2 DEF Says
<1>4. ASSUME NEW i \in Says(p, d), i # 1
      PROVE  i - 1 \in Says(q, d) /\ i \in Nat /\ q[i - 1] = p[i]
  <2>1. i - 1 \in 1..n - 1 /\ i - 1 + 1 = i /\ i \in Nat
    BY <1>1, <1>4 DEF Says
  <2>2. QED
    BY <1>1, <1>2, <2>1 DEF Says
<1>5. CASE Says(p, d) = {}
  BY <1>3, <1>5, Says(q, d) = {} DEF Told
<1>6. CASE Says(p, d) # {}
  <2>1. PICK i \in Says(p, d) : (\A j \in Says(p, d) : j <= i) /\ p[i].result = finding
    BY <1>6 DEF Told
  <2>2. CASE i = 1
    <3>1. \A j \in Says(q, d) : FALSE
      <4> TAKE j \in Says(q, d)
      <4>1. j \in Nat /\ j >= 1 /\ j + 1 \in Says(p, d)
        BY <1>3
      <4>2. j + 1 <= 1
        BY <2>1, <2>2, <4>1
      <4>3. QED
        BY <4>1, <4>2
    <3>2. QED
      BY <2>1, <2>2, <3>1 DEF Told
  <2>3. CASE i # 1
    <3>1. i - 1 \in Says(q, d) /\ q[i - 1] = p[i] /\ i \in Nat
      BY <1>4, <2>3
    <3>2. \A j \in Says(q, d) : j <= i - 1
      BY <1>3, <2>1, <3>1
    <3>3. QED
      BY <2>1, <3>1, <3>2 DEF Told
  <2>4. QED
    BY <2>2, <2>3
<1>7. QED
  BY <1>5, <1>6

-----------------------------------------------------------------------------
(* Requests are answered in their turn: the ids on their way are a run.      *)
Replies(pipe) == {i \in DOMAIN pipe : pipe[i].type = "response" /\ pipe[i].id # 0}
Asks(pipe) == {i \in Bodies(pipe) : pipe[i].message.id # 0}
\* The ids of the replies, of the questions, in a pipe are those above low up to high.
RepliesRun(pipe, low, high) ==
  /\ \A i \in Replies(pipe) : pipe[i].id \in low + 1..high
  /\ \A i \in Replies(pipe) : \A j \in Replies(pipe) : i < j => pipe[i].id < pipe[j].id
  /\ \A n \in low + 1..high : \E i \in Replies(pipe) : pipe[i].id = n
AsksRun(pipe, low, high) ==
  /\ \A i \in Asks(pipe) : pipe[i].message.id \in low + 1..high
  /\ \A i \in Asks(pipe) : \A j \in Asks(pipe) : i < j => pipe[i].message.id < pipe[j].message.id
  /\ \A n \in low + 1..high : \E i \in Asks(pipe) : pipe[i].message.id = n

\* In an empty pipe nothing is on its way.
LEMMA EmptyRuns ==
  ASSUME NEW low \in Nat, NEW high \in Nat, low <= high
  PROVE  /\ RepliesRun(<<>>, low, high) <=> low = high
         /\ AsksRun(<<>>, low, high) <=> low = high
<1>1. Replies(<<>>) = {} /\ Asks(<<>>) = {}
  BY DEF Replies, Asks, Bodies
<1>2. low < high => low + 1 \in low + 1..high
  OBVIOUS
<1>3. low = high => low + 1..high = {}
  OBVIOUS
<1>4. QED
  BY <1>1, <1>2, <1>3 DEF RepliesRun, AsksRun

\* What is written behind the replies.
LEMMA ReplyBehind ==
  ASSUME NEW p, IsList(p), NEW e, NEW q, Gains(q, p, e),
         NEW low \in Nat, NEW high \in Nat, low <= high, RepliesRun(p, low, high)
  PROVE  /\ e.type = "response" /\ e.id = high + 1 => RepliesRun(q, low, high + 1)
         /\ ~(e.type = "response" /\ e.id # 0) => RepliesRun(q, low, high)
<1>1. PICK n \in Nat : n = Len(p) /\ DOMAIN p = 1..n /\ DOMAIN q = 1..n + 1
  BY ListSize DEF Gains
<1>2. q[n + 1] = e /\ \A i \in 1..n : q[i] = p[i]
  BY <1>1 DEF Gains
<1>3. \A i \in Replies(p) : i \in Replies(q) /\ q[i] = p[i] /\ i \in 1..n
  BY <1>1, <1>2 DEF Replies
<1>4. \A i \in Replies(q) : i = n + 1 \/ i \in Replies(p)
  BY <1>1, <1>2 DEF Replies
<1>5. ASSUME e.type = "response", e.id = high + 1
      PROVE  RepliesRun(q, low, high + 1)
  <2>1. n + 1 \in Replies(q) /\ q[n + 1].id = high + 1 /\ n + 1 \notin 1..n
    BY <1>1, <1>2, <1>5 DEF Replies
  <2>2. \A i \in Replies(p) : q[i].id \in low + 1..high
    BY <1>3 DEF RepliesRun
  <2>3. \A i \in Replies(q) : q[i].id \in low + 1..high + 1
    <3> TAKE i \in Replies(q)
    <3>1. CASE i = n + 1
      BY <2>1, <3>1
    <3>2. CASE i \in Replies(p)
      BY <2>2, <3>2
    <3>3. QED
      BY <1>4, <3>1, <3>2
  <2>4. \A i \in Replies(q) : \A j \in Replies(q) : i < j => q[i].id < q[j].id
    <3> TAKE i \in Replies(q)
    <3> TAKE j \in Replies(q)
    <3> HAVE i < j
    <3>1. i \in Replies(p)
      BY <1>3, <1>4
    <3>2. CASE j = n + 1
      <4>1. q[i].id \in low + 1..high
        BY <2>2, <3>1
      <4>2. q[j].id = high + 1
        BY <2>1, <3>2
      <4>3. QED
        BY <4>1, <4>2
    <3>3. CASE j \in Replies(p)
      BY <1>3, <3>1, <3>3 DEF RepliesRun
    <3>4. QED
      BY <1>4, <3>2, <3>3
  <2>5. \A k \in low + 1..high + 1 : \E i \in Replies(q) : q[i].id = k
    <3> TAKE k \in low + 1..high + 1
    <3>1. CASE k = high + 1
      BY <2>1, <3>1
    <3>2. CASE k # high + 1
      <4>1. k \in low + 1..high
        BY <3>2
      <4>2. PICK i \in Replies(p) : p[i].id = k
        BY <4>1 DEF RepliesRun
      <4>3. QED
        BY <1>3, <4>2
    <3>3. QED
      BY <3>1, <3>2
  <2>6. QED
    BY <2>3, <2>4, <2>5 DEF RepliesRun
<1>6. ASSUME ~(e.type = "response" /\ e.id # 0)
      PROVE  RepliesRun(q, low, high)
  <2>1. Replies(q) = Replies(p)
    BY <1>1, <1>2, <1>3, <1>4, <1>6 DEF Replies
  <2>2. QED
    BY <1>3, <2>1 DEF RepliesRun
<1>7. QED
  BY <1>5, <1>6

\* What is read in front of the replies.
LEMMA ReplyInFront ==
  ASSUME NEW p, IsList(p), p # <<>>, NEW q, Drops(q, p, 1),
         NEW low \in Nat, NEW high \in Nat, low <= high, RepliesRun(p, low, high)
  PROVE  IF 1 \in Replies(p)
         THEN p[1].id = low + 1 /\ low + 1 <= high /\ RepliesRun(q, low + 1, high)
         ELSE RepliesRun(q, low, high)
<1>1. PICK n \in Nat : n = Len(p) /\ n # 0 /\ DOMAIN p = 1..n /\ DOMAIN q = 1..n - 1
  BY ListSize DEF Drops
<1>2. \A i \in 1..n - 1 : q[i] = p[i + 1]
  BY <1>1 DEF Drops
<1>3. \A i \in Replies(q) : i \in Nat /\ i >= 1 /\ i + 1 \in Replies(p) /\ q[i] = p[i + 1]
  BY <1>1, <1>2 DEF Replies
<1>4. \A i \in Replies(p) : i \in Nat /\ i >= 1 /\ (i = 1 \/ (i - 1 \in Replies(q) /\ q[i - 1] = p[i]))
  <2> TAKE i \in Replies(p)
  <2>1. i \in 1..n
    BY <1>1 DEF Replies
  <2>2. i # 1 => i - 1 \in 1..n - 1 /\ i - 1 + 1 = i
    BY <2>1
  <2>3. QED
    BY <1>1, <1>2, <2>1, <2>2 DEF Replies
<1>5. \A i \in Replies(q) : \A j \in Replies(q) : i < j => q[i].id < q[j].id
  BY <1>3 DEF RepliesRun
<1>6. \A i \in Replies(q) : q[i].id \in low + 1..high
  BY <1>3 DEF RepliesRun
<1>7. CASE 1 \in Replies(p)
  <2>1. p[1].id \in low + 1..high /\ low + 1 \in low + 1..high
    BY <1>7 DEF RepliesRun
  <2>2. PICK i \in Replies(p) : p[i].id = low + 1
    BY <2>1 DEF RepliesRun
  <2>3. p[1].id = low + 1
    <3>1. CASE i = 1
      BY <2>2, <3>1
    <3>2. CASE i # 1
      <4>1. 1 < i
        BY <1>4, <3>2
      <4>2. p[1].id < p[i].id
        BY <1>7, <4>1 DEF RepliesRun
      <4>3. QED
        BY <2>1, <2>2, <4>2
    <3>3. QED
      BY <3>1, <3>2
  <2>4. \A j \in Replies(q) : q[j].id \in low + 1 + 1..high
    <3> TAKE j \in Replies(q)
    <3>1. p[1].id < p[j + 1].id
      BY <1>3, <1>7 DEF RepliesRun
    <3>2. QED
      BY <1>3, <1>6, <2>3, <3>1
  <2>5. \A k \in low + 1 + 1..high : \E j \in Replies(q) : q[j].id = k
    <3> TAKE k \in low + 1 + 1..high
    <3>1. PICK j \in Replies(p) : p[j].id = k
      BY k \in low + 1..high DEF RepliesRun
    <3>2. j # 1
      BY <2>3, <3>1
    <3>3. QED
      BY <1>4, <3>1, <3>2
  <2>6. QED
    BY <1>5, <1>7, <2>1, <2>3, <2>4, <2>5 DEF RepliesRun
<1>8. CASE 1 \notin Replies(p)
  <2>1. \A k \in low + 1..high : \E j \in Replies(q) : q[j].id = k
    <3> TAKE k \in low + 1..high
    <3>1. PICK j \in Replies(p) : p[j].id = k
      BY DEF RepliesRun
    <3>2. QED
      BY <1>4, <1>8, <3>1
  <2>2. QED
    BY <1>5, <1>6, <1>8, <2>1 DEF RepliesRun
<1>9. QED
  BY <1>7, <1>8

\* What the editor writes behind its questions.
LEMMA NoticesBehind ==
  ASSUME NEW p, Lines(p), NEW ms, IsList(ms), NEW q, Sent(q, p, ms),
         NEW low, NEW high, AsksRun(p, low, high), \A j \in 1..Len(ms) : ms[j].id = 0
  PROVE  AsksRun(q, low, high)
<1>1. \A m : Body(m).message = m
  BY DEF Body
<1>2. \A j \in 1..Len(ms) : q[Len(p) + 4 * j - 1].message = ms[j]
  BY <1>1 DEF Sent
<1>3. Asks(q) = Asks(p) /\ \A i \in Asks(p) : q[i] = p[i]
  BY <1>2 DEF Asks, Sent
<1>4. QED
  BY <1>3 DEF AsksRun

\* A question behind the others.
LEMMA AskBehind ==
  ASSUME NEW p, Lines(p), NEW m, NEW q, Sent(q, p, <<m>>),
         NEW low \in Nat, NEW high \in Nat, low <= high, AsksRun(p, low, high), m.id = high + 1
  PROVE  AsksRun(q, low, high + 1)
<1>1. Len(p) \in Nat /\ Len(<<m>>) = 1 /\ <<m>>[1] = m
  BY ListSize DEF Lines
<1>2. PICK n \in Nat : n = Len(p) + 4 * 1 - 1 /\ n > Len(p)
  BY <1>1
<1>3. \A y : Body(y).message = y
  BY DEF Body
<1>4. q[n].message = m
  BY <1>1, <1>2, <1>3, 1 \in 1..1 DEF Sent
<1>5. Bodies(q) = Bodies(p) \cup {n}
  BY <1>1, <1>2 DEF Sent
<1>6. \A i \in Asks(p) : i \in Asks(q) /\ q[i] = p[i] /\ i \in 1..Len(p)
  BY <1>5 DEF Asks, Sent
<1>7. n \in Asks(q) /\ \A i \in Asks(q) : i = n \/ i \in Asks(p)
  <2>1. n \in Asks(q)
    BY <1>4, <1>5 DEF Asks
  <2>2. \A i \in Bodies(p) : q[i] = p[i]
    BY DEF Sent
  <2>3. QED
    BY <1>5, <2>1, <2>2 DEF Asks
<1>8. \A i \in Asks(p) : q[i].message.id \in low + 1..high
  BY <1>6 DEF AsksRun
<1>9. \A i \in Asks(q) : q[i].message.id \in low + 1..high + 1
  <2> TAKE i \in Asks(q)
  <2>1. CASE i = n
    BY <1>4, <2>1
  <2>2. CASE i \in Asks(p)
    BY <1>8, <2>2
  <2>3. QED
    BY <1>7, <2>1, <2>2
<1>10. \A i \in Asks(q) : \A j \in Asks(q) : i < j => q[i].message.id < q[j].message.id
  <2> TAKE i \in Asks(q)
  <2> TAKE j \in Asks(q)
  <2> HAVE i < j
  <2>1. i \in Asks(p)
    BY <1>1, <1>2, <1>6, <1>7
  <2>2. CASE j = n
    <3>1. q[i].message.id \in low + 1..high
      BY <1>8, <2>1
    <3>2. q[j].message.id = high + 1
      BY <1>4, <2>2
    <3>3. QED
      BY <3>1, <3>2
  <2>3. CASE j \in Asks(p)
    BY <1>6, <2>1, <2>3 DEF AsksRun
  <2>4. QED
    BY <1>7, <2>2, <2>3
<1>11. \A k \in low + 1..high + 1 : \E i \in Asks(q) : q[i].message.id = k
  <2> TAKE k \in low + 1..high + 1
  <2>1. CASE k = high + 1
    BY <1>4, <1>7, <2>1
  <2>2. CASE k # high + 1
    <3>1. k \in low + 1..high
      BY <2>2
    <3>2. PICK i \in Asks(p) : p[i].message.id = k
      BY <3>1 DEF AsksRun
    <3>3. QED
      BY <1>6, <3>2
  <2>3. QED
    BY <2>1, <2>2
<1>12. QED
  BY <1>9, <1>10, <1>11 DEF AsksRun

\* What the server takes in front of them.
LEMMA AskInFront ==
  ASSUME NEW p, Lines(p), p # <<>>, NEW q, Drops(q, p, 2),
         NEW low \in Nat, NEW high \in Nat, low <= high, AsksRun(p, low, high)
  PROVE  IF 1 \in Asks(p)
         THEN p[1].message.id = low + 1 /\ low + 1 <= high /\ AsksRun(q, low + 1, high)
         ELSE AsksRun(q, low, high)
<1>1. Bodies(q) \subseteq Nat /\ \A i \in Bodies(q) : i >= 1
  <2>1. DOMAIN q = 1..Len(q) /\ Len(q) \in Nat
    BY ListSize DEF Drops
  <2>2. QED
    BY <2>1 DEF Bodies
<1>2. Bodies(p) \subseteq Nat /\ \A i \in Bodies(p) : i >= 1
  <2>1. DOMAIN p = 1..Len(p) /\ Len(p) \in Nat
    BY ListSize DEF Lines
  <2>2. QED
    BY <2>1 DEF Bodies
<1>3. \A i \in Asks(q) : i \in Nat /\ i >= 1 /\ i + 2 \in Asks(p) /\ q[i] = p[i + 2]
  BY <1>1, LessLines DEF Asks
<1>4. \A i \in Asks(p) : i \in Nat /\ i >= 1 /\ (i = 1 \/ (i - 2 \in Asks(q) /\ q[i - 2] = p[i]))
  <2> TAKE i \in Asks(p)
  <2>1. i \in Bodies(p) /\ i \in Nat /\ i >= 1
    BY <1>2 DEF Asks
  <2>2. SUFFICES ASSUME i # 1 PROVE i - 2 \in Asks(q) /\ q[i - 2] = p[i]
    BY <2>1
  <2>3. i - 2 \in Bodies(q)
    BY <2>1, <2>2, LessLines
  <2>4. q[i - 2] = p[i - 2 + 2] /\ i - 2 + 2 = i
    BY <2>1, <2>3, LessLines
  <2>5. QED
    BY <2>3, <2>4 DEF Asks
<1>5. \A i \in Asks(q) : \A j \in Asks(q) : i < j => q[i].message.id < q[j].message.id
  BY <1>3 DEF AsksRun
<1>6. \A i \in Asks(q) : q[i].message.id \in low + 1..high
  BY <1>3 DEF AsksRun
<1>7. CASE 1 \in Asks(p)
  <2>1. p[1].message.id \in low + 1..high /\ low + 1 \in low + 1..high
    BY <1>7 DEF AsksRun
  <2>2. PICK i \in Asks(p) : p[i].message.id = low + 1
    BY <2>1 DEF AsksRun
  <2>3. p[1].message.id = low + 1
    <3>1. CASE i = 1
      BY <2>2, <3>1
    <3>2. CASE i # 1
      <4>1. 1 < i
        BY <1>4, <3>2
      <4>2. p[1].message.id < p[i].message.id
        BY <1>7, <4>1 DEF AsksRun
      <4>3. QED
        BY <2>1, <2>2, <4>2
    <3>3. QED
      BY <3>1, <3>2
  <2>4. \A j \in Asks(q) : q[j].message.id \in low + 1 + 1..high
    <3> TAKE j \in Asks(q)
    <3>1. p[1].message.id < p[j + 2].message.id
      BY <1>3, <1>7 DEF AsksRun
    <3>2. QED
      BY <1>3, <1>6, <2>3, <3>1
  <2>5. \A k \in low + 1 + 1..high : \E j \in Asks(q) : q[j].message.id = k
    <3> TAKE k \in low + 1 + 1..high
    <3>1. PICK j \in Asks(p) : p[j].message.id = k
      BY k \in low + 1..high DEF AsksRun
    <3>2. j # 1
      BY <2>3, <3>1
    <3>3. QED
      BY <1>4, <3>1, <3>2
  <2>6. QED
    BY <1>5, <1>7, <2>1, <2>3, <2>4, <2>5 DEF AsksRun
<1>8. CASE 1 \notin Asks(p)
  <2>1. \A k \in low + 1..high : \E j \in Asks(q) : q[j].message.id = k
    <3> TAKE k \in low + 1..high
    <3>1. PICK j \in Asks(p) : p[j].message.id = k
      BY DEF AsksRun
    <3>2. QED
      BY <1>4, <1>8, <3>1
  <2>2. QED
    BY <1>5, <1>6, <1>8, <2>1 DEF AsksRun
<1>9. QED
  BY <1>7, <1>8

-----------------------------------------------------------------------------
(* What holds all along, with an editor that ends its messages with a line   *)
(* end.                                                                      *)

\* What the editor sends.
Proper(m) ==
  \/ m.id = 0 /\ m.method \in {"initialized", "exit"}
  \/ /\ m.id = 0 /\ m.method \in Notices /\ m.doc \in Docs
     /\ m.method # "didClose" /\ m.texts # <<>> => Last(m.texts) \in Sources
     /\ m.method = "didOpen" => m.texts # <<>> /\ m.texts[1] = Last(m.texts)
  \/ m.id # 0 /\ m.method \in Answered

WellBehaved(pipe) == \A i \in Bodies(pipe) : Proper(pipe[i].message)

EndsTyped ==
  /\ docs \in [Docs -> Sources \cup {Absent}] /\ editor \in [Docs -> Sources \cup {Absent}]
  /\ DOMAIN shown = Docs
  /\ IsList(stdout) /\ IsList(requests) /\ IsList(answers)

Off ==
  /\ ~running /\ stdin = <<>> /\ stdout = <<>> /\ shown = Closed
  /\ requests = <<>> /\ answers = <<>>

\* The first request initializes, and the editor waits for its answer.
Connection ==
  /\ phase = "off" => Off
  /\ closed => phase = "stopped"
  /\ \A n \in DOMAIN requests :
        /\ requests[n].message.method \in Answered
        /\ requests[n].message.method = "initialize" <=> n = 1
  /\ phase = "ready" => requests # <<>>
  /\ requests # <<>> => (answers = <<>> <=> phase = "waiting")

\* Answers, replies and questions, in this order, have the ids of the requests.
InTurn ==
  /\ \A n \in DOMAIN answers : answers[n].id = n
  /\ \E b \in Len(answers)..Len(requests) :
        /\ RepliesRun(stdout, Len(answers), b)
        /\ running => AsksRun(stdin, b, Len(requests))

\* Until the server is ready it is told of no text.
Wish(where, texts, d) == IF where = "ready" THEN texts[d] ELSE Absent

\* What the server has, or will have of what is on its way, is what the user
\* sees; and what it said last of a text it has is what that text deserves.
InTouch ==
  running =>
    /\ Lines(stdin) /\ WellBehaved(stdin)
    /\ requests # <<>>
    /\ \A d \in Docs : docs[d] # Absent => Told(stdout, d, Diagnosis[docs[d]], shown[d])
    /\ phase \in {"waiting", "ready"} =>
          \A d \in Docs : Comes(stdin, d, Wish(phase, editor, d), docs[d])

LsInv == endsLine => EndsTyped /\ Connection /\ InTurn /\ InTouch

\* A pipe with nothing in it.
LEMMA EmptyPipe ==
  /\ IsList(<<>>) /\ Lines(<<>>) /\ Bodies(<<>>) = {} /\ Len(<<>>) = 0
  /\ \A d : EditsOf(<<>>, d) = {} /\ Says(<<>>, d) = {}
<1>1. IsList(<<>>) /\ Len(<<>>) = 0 /\ DOMAIN <<>> = {}
  <2>1. <<>> \in Seq({}) /\ Len(<<>>) = 0 /\ DOMAIN <<>> = {}
    OBVIOUS
  <2>2. QED
    BY <2>1, ListOf
<1>2. Lines(<<>>)
  BY <1>1, 0 \in Nat DEF Lines
<1>3. QED
  BY <1>1, <1>2 DEF Bodies, EditsOf, Says

\* One message is sent.
LEMMA SendOne ==
  ASSUME NEW p, Lines(p), NEW m, endsLine
  PROVE  /\ Sent(p \o Framed(m), p, <<m>>)
         /\ IsList(<<m>>) /\ Len(<<m>>) = 1 /\ <<m>>[1] = m
<1>1. <<m>> \in Seq({m}) /\ Len(<<m>>) = 1 /\ <<m>>[1] = m
  OBVIOUS
<1>2. IsList(<<m>>)
  BY <1>1, ListOf
<1>3. Frames(Framed(m), <<m>>)
  BY OneFrame
<1>4. QED
  BY <1>1, <1>2, <1>3, MoreLines

\* What is sent is proper, and so is the pipe.
LEMMA SentProper ==
  ASSUME NEW p, NEW ms, NEW q, Sent(q, p, ms),
         WellBehaved(p), \A j \in 1..Len(ms) : Proper(ms[j])
  PROVE  Lines(q) /\ WellBehaved(q)
<1>1. \A m : Body(m).message = m
  BY DEF Body
<1>2. \A j \in 1..Len(ms) : q[Len(p) + 4 * j - 1].message = ms[j]
  BY <1>1 DEF Sent
<1>3. QED
  BY <1>2 DEF Sent, WellBehaved

\* A request is filed, and sent.
LEMMA Asking ==
  ASSUME NEW method, NEW doc, NEW cursor, endsLine, IsList(requests), Ask(method, doc, cursor)
  PROVE  /\ IsList(requests') /\ requests' # <<>>
         /\ Len(requests) \in Nat /\ Len(requests') = Len(requests) + 1
         /\ DOMAIN requests = 1..Len(requests) /\ DOMAIN requests' = 1..Len(requests) + 1
         /\ \A n \in DOMAIN requests : requests'[n] = requests[n]
         /\ requests'[Len(requests) + 1].message.method = method
         /\ Lines(stdin) =>
              \E m : m.id = Len(requests) + 1 /\ m.method = method /\ Sent(stdin', stdin, <<m>>)
<1> DEFINE m == Requested(Len(requests) + 1, method, doc, cursor)
           e == [message |-> m, text |-> IF doc = Absent THEN Absent ELSE editor[doc]]
<1>1. requests' = Append(requests, e) /\ stdin' = stdin \o Framed(m)
  BY DEF Ask
<1>2. m.id = Len(requests) + 1 /\ m.method = method
  BY DEF Requested, Notice
<1>3. e.message = m
  OBVIOUS
<1> HIDE DEF m, e
<1>4. Gains(requests', requests, e)
  BY <1>1, AppendGains
<1>5. Len(requests) \in Nat /\ DOMAIN requests = 1..Len(requests)
  BY ListSize
<1>6. IsList(requests') /\ Len(requests') = Len(requests) + 1
  BY <1>4 DEF Gains
<1>7. DOMAIN requests' = 1..Len(requests) + 1 /\ requests' # <<>>
  BY <1>5, <1>6, ListSize
<1>8. ASSUME Lines(stdin) PROVE Sent(stdin', stdin, <<m>>)
  BY <1>1, <1>8, SendOne
<1>9. QED
  BY <1>2, <1>3, <1>4, <1>5, <1>6, <1>7, <1>8 DEF Gains

\* The ids on their way are one more.
LEMMA AskingRun ==
  ASSUME Lines(stdin), NEW low \in Nat, NEW high \in Nat, low <= high, AsksRun(stdin, low, high),
         NEW m, m.id = high + 1, Sent(stdin', stdin, <<m>>)
  PROVE  AsksRun(stdin', low, high + 1)
  BY AskBehind

-----------------------------------------------------------------------------
(* The steps of the editor.                                                  *)
\* A server is started, and asked to initialize.
LEMMA StartKeeps ==
  ASSUME LsInv, endsLine, Start
  PROVE  LsInv'
<1>1. EndsTyped /\ Off /\ ~closed
  BY DEF LsInv, Connection, Start
<1>2. /\ Ask("initialize", Absent, Absent) /\ running' = TRUE /\ docs' = Closed /\ phase' = "waiting"
      /\ closed' = closed /\ stdout' = stdout /\ shown' = shown /\ answers' = answers
      /\ editor' = editor /\ endsLine' = endsLine
  BY DEF Start
<1>3. stdin = <<>> /\ stdout = <<>> /\ shown = Closed /\ requests = <<>> /\ answers = <<>> /\ ~running
  BY <1>1 DEF Off
<1>4. Lines(stdin) /\ Len(requests) = 0 /\ Len(answers) = 0
  BY <1>3, EmptyPipe
<1>5. /\ IsList(requests') /\ Len(requests') = 1 /\ DOMAIN requests' = 1..1 /\ requests' # <<>>
      /\ requests'[1].message.method = "initialize"
      /\ \E m : m.id = 1 /\ m.method = "initialize" /\ Sent(stdin', stdin, <<m>>)
  BY <1>1, <1>2, <1>4, Asking DEF EndsTyped
<1>6. PICK m : m.id = 1 /\ m.method = "initialize" /\ Sent(stdin', stdin, <<m>>)
  BY <1>5
<1>7. EndsTyped'
  BY <1>1, <1>2, <1>5 DEF EndsTyped, Closed
<1>8. Connection'
  BY <1>1, <1>2, <1>3, <1>5 DEF Connection, Answered
<1>9. InTurn'
  <2>1. AsksRun(stdin, 0, 0) /\ RepliesRun(stdout, 0, 0)
    BY <1>3, EmptyRuns
  <2>2. AsksRun(stdin', 0, 0 + 1)
    BY <1>4, <1>6, <2>1, AskingRun
  <2>3. QED
    BY <1>2, <1>3, <1>4, <1>5, <2>1, <2>2 DEF InTurn
<1>10. InTouch'
  <2>1. Len(<<m>>) = 1 /\ <<m>>[1] = m /\ IsList(<<m>>) /\ Proper(m) /\ \A d : ~Edits(m, d)
    BY <1>6, SendOne, <1>4 DEF Proper, Answered, Edits, Notices
  <2>2. Lines(stdin') /\ WellBehaved(stdin')
    <3>1. WellBehaved(stdin)
      BY <1>3, EmptyPipe DEF WellBehaved
    <3>2. QED
      BY <1>6, <2>1, <3>1, SentProper
  <2>3. \A d \in Docs : docs'[d] = Absent
    BY <1>2 DEF Closed
  <2>4. \A d \in Docs : Comes(stdin', d, Absent, Absent)
    <3> TAKE d \in Docs
    <3>1. Comes(stdin, d, Absent, Absent)
      BY <1>3, EmptyPipe DEF Comes
    <3>2. QED
      BY <1>4, <1>6, <2>1, <3>1, ComesLater
  <2>5. \A d \in Docs : Wish(phase', editor', d) = Absent
    BY <1>2 DEF Wish
  <2>6. QED
    BY <1>5, <2>2, <2>3, <2>4, <2>5 DEF InTouch
<1>11. QED
  BY <1>7, <1>8, <1>9, <1>10 DEF LsInv

\* A question, or the request to shut down.
LEMMA AskKeeps ==
  ASSUME LsInv, endsLine, phase = "ready", phase' \in {"ready", "stopping"},
         NEW method \in Answered \ {"initialize"}, NEW doc, NEW cursor, Ask(method, doc, cursor),
         UNCHANGED <<closed, stdout, running, docs, shown, answers, editor, endsLine>>
  PROVE  LsInv'
<1>1. EndsTyped /\ Connection /\ InTurn /\ InTouch
  BY DEF LsInv
<1>2. requests # <<>> /\ answers # <<>> /\ ~closed
  BY <1>1 DEF Connection
<1>3. /\ IsList(requests') /\ requests' # <<>>
      /\ Len(requests) \in Nat /\ Len(requests') = Len(requests) + 1
      /\ DOMAIN requests = 1..Len(requests) /\ DOMAIN requests' = 1..Len(requests) + 1
      /\ \A n \in DOMAIN requests : requests'[n] = requests[n]
      /\ requests'[Len(requests) + 1].message.method = method
      /\ Lines(stdin) =>
           \E m : m.id = Len(requests) + 1 /\ m.method = method /\ Sent(stdin', stdin, <<m>>)
  BY <1>1, Asking DEF EndsTyped
<1>4. Len(requests) # 0 /\ Len(answers) \in Nat
  BY <1>1, <1>2, ListSize DEF EndsTyped
<1>5. EndsTyped'
  BY <1>1, <1>3 DEF EndsTyped
<1>6. Connection'
  <2>1. \A n \in DOMAIN requests' : /\ requests'[n].message.method \in Answered
                                    /\ requests'[n].message.method = "initialize" <=> n = 1
    <3> TAKE n \in DOMAIN requests'
    <3>1. CASE n = Len(requests) + 1
      BY <1>3, <1>4, <3>1
    <3>2. CASE n \in DOMAIN requests
      BY <1>1, <1>3, <3>2 DEF Connection
    <3>3. QED
      BY <1>3, <3>1, <3>2
  <2>2. QED
    BY <1>2, <1>3, <2>1 DEF Connection
<1>7. PICK b \in Len(answers)..Len(requests) :
        /\ RepliesRun(stdout, Len(answers), b)
        /\ running => AsksRun(stdin, b, Len(requests))
  BY <1>1 DEF InTurn
<1>8. InTurn'
  <2>1. ASSUME running PROVE AsksRun(stdin', b, Len(requests) + 1)
    <3>1. Lines(stdin) /\ AsksRun(stdin, b, Len(requests))
      BY <1>1, <1>7, <2>1 DEF InTouch
    <3>2. PICK m : m.id = Len(requests) + 1 /\ Sent(stdin', stdin, <<m>>)
      BY <1>3, <3>1
    <3>3. b \in Nat /\ b <= Len(requests)
      BY <1>3, <1>4, <1>7
    <3>4. QED
      BY <1>3, <3>1, <3>2, <3>3, AskingRun
  <2>2. b \in Len(answers)..Len(requests) + 1
    BY <1>3, <1>4, <1>7
  <2>3. QED
    BY <1>1, <1>3, <1>7, <2>1, <2>2 DEF InTurn
<1>9. ASSUME running PROVE InTouch'
  <2>1. Lines(stdin)
    BY <1>1, <1>9 DEF InTouch
  <2>2. PICK m : m.id = Len(requests) + 1 /\ m.method = method /\ Sent(stdin', stdin, <<m>>)
    BY <1>3, <2>1
  <2>3. Len(<<m>>) = 1 /\ <<m>>[1] = m /\ IsList(<<m>>)
    BY <2>1, SendOne
  <2>4. Proper(m) /\ \A d : ~Edits(m, d)
    BY <1>3, <2>2 DEF Proper, Answered, Edits, Notices
  <2>5. Lines(stdin') /\ WellBehaved(stdin')
    <3>1. WellBehaved(stdin)
      BY <1>1, <1>9 DEF InTouch
    <3>2. QED
      BY <2>2, <2>3, <2>4, <3>1, SentProper
  <2>6. ASSUME phase' = "ready", NEW d \in Docs
        PROVE  Comes(stdin', d, Wish(phase', editor', d), docs'[d])
    <3>1. Comes(stdin, d, Wish(phase', editor', d), docs'[d])
      BY <1>1, <1>9, <2>6 DEF InTouch
    <3>2. QED
      BY <2>1, <2>2, <2>3, <2>4, <3>1, ComesLater
  <2>7. QED
    BY <1>1, <1>3, <1>9, <2>5, <2>6 DEF InTouch
<1>10. InTouch'
  BY <1>9 DEF InTouch
<1>11. QED
  BY <1>5, <1>6, <1>8, <1>10 DEF LsInv

\* A change as the editor makes it.
Tidy(method, texts) ==
  /\ method # "didClose" /\ texts # <<>> => Last(texts) \in Sources
  /\ method = "didOpen" => texts # <<>> /\ texts[1] = Last(texts)

\* The user opens, types or closes.
LEMMA ChangeKeeps ==
  ASSUME LsInv, endsLine, NEW d \in Docs, NEW method \in Notices, NEW texts,
         Change(d, method, texts), Tidy(method, texts)
  PROVE  LsInv'
<1> DEFINE m == Notice(method, d, texts)
<1>1. EndsTyped /\ Connection /\ InTurn /\ InTouch
  BY DEF LsInv
<1>2. /\ phase \in {"waiting", "ready"} /\ phase' = phase
      /\ editor' = [editor EXCEPT ![d] = IF method = "didClose" THEN Absent
                                         ELSE IF texts = <<>> THEN @ ELSE Last(texts)]
      /\ stdin' = IF phase = "ready" THEN stdin \o Framed(m) ELSE stdin
      /\ UNCHANGED <<closed, stdout, running, docs, shown, requests, answers, endsLine>>
  BY DEF Change, server
<1>3. /\ m.id = 0 /\ m.method = method /\ m.doc = d /\ m.texts = texts
  BY DEF Notice
<1> HIDE DEF m
<1>4. Proper(m)
  BY <1>3 DEF Proper, Tidy
<1>5. editor' \in [Docs -> Sources \cup {Absent}]
  BY <1>1, <1>2 DEF EndsTyped, Tidy
<1>6. /\ \A e \in Docs : Edits(m, e) => e = d /\ Text(m) = editor'[e]
      /\ \A e \in Docs : ~Edits(m, e) => editor'[e] = editor[e]
  BY <1>1, <1>2, <1>3 DEF EndsTyped, Edits, Text
<1>7. EndsTyped'
  BY <1>1, <1>2, <1>5 DEF EndsTyped
<1>8. Connection'
  BY <1>1, <1>2 DEF Connection
<1>9. Len(<<m>>) = 1 /\ <<m>>[1] = m /\ IsList(<<m>>)
  BY <1>3, SendOne, EmptyPipe
<1>10. ASSUME running, phase = "ready" PROVE Lines(stdin) /\ Sent(stdin', stdin, <<m>>)
  <2>1. Lines(stdin)
    BY <1>1, <1>10 DEF InTouch
  <2>2. QED
    BY <1>2, <1>10, <2>1, SendOne
<1>11. InTurn'
  <2>1. PICK b \in Len(answers)..Len(requests) :
          /\ RepliesRun(stdout, Len(answers), b)
          /\ running => AsksRun(stdin, b, Len(requests))
    BY <1>1 DEF InTurn
  <2>2. ASSUME running PROVE AsksRun(stdin', b, Len(requests))
    <3>1. AsksRun(stdin, b, Len(requests))
      BY <2>1, <2>2
    <3>2. CASE phase = "ready"
      BY <1>3, <1>9, <1>10, <2>2, <3>1, <3>2, NoticesBehind
    <3>3. QED
      BY <1>2, <3>1, <3>2
  <2>3. QED
    BY <1>1, <1>2, <2>1, <2>2 DEF InTurn
<1>12. ASSUME running PROVE InTouch'
  <2>1. Lines(stdin') /\ WellBehaved(stdin')
    <3>1. Lines(stdin) /\ WellBehaved(stdin)
      BY <1>1, <1>12 DEF InTouch
    <3>2. CASE phase = "ready"
      BY <1>4, <1>9, <1>10, <1>12, <3>1, <3>2, SentProper
    <3>3. QED
      BY <1>2, <3>1, <3>2
  <2>2. ASSUME NEW e \in Docs PROVE Comes(stdin', e, Wish(phase', editor', e), docs'[e])
    <3>1. Comes(stdin, e, Wish(phase, editor, e), docs[e])
      BY <1>1, <1>2, <1>12 DEF InTouch
    <3>2. CASE phase = "waiting"
      BY <1>2, <3>1, <3>2 DEF Wish
    <3>3. CASE phase = "ready"
      <4>1. Lines(stdin) /\ Sent(stdin', stdin, <<m>>)
        BY <1>10, <1>12, <3>3
      <4>2. CASE Edits(m, e)
        <5>1. Comes(stdin', e, Text(<<m>>[1]), docs[e])
          <6>1. 1 \in 1..Len(<<m>>) /\ Edits(<<m>>[1], e)
            BY <1>9, <4>2
          <6>2. \A j \in 1..Len(<<m>>) : Edits(<<m>>[j], e) => j = 1
            BY <1>9
          <6>3. QED
            BY <1>9, <4>1, <6>1, <6>2, ComesNow
        <5>2. QED
          BY <1>2, <1>6, <1>9, <3>3, <4>2, <5>1 DEF Wish
      <4>3. CASE ~Edits(m, e)
        <5>1. Comes(stdin', e, Wish(phase, editor, e), docs[e])
          BY <1>9, <3>1, <4>1, <4>3, ComesLater
        <5>2. QED
          BY <1>2, <1>6, <3>3, <4>3, <5>1 DEF Wish
      <4>4. QED
        BY <4>2, <4>3
    <3>4. QED
      BY <1>2, <3>2, <3>3
  <2>3. QED
    BY <1>1, <1>2, <1>12, <2>1, <2>2 DEF InTouch
<1>13. InTouch'
  BY <1>2, <1>12 DEF InTouch
<1>14. QED
  BY <1>7, <1>8, <1>11, <1>13 DEF LsInv

\* What the editor opens once the server is ready: one message for each text.
\* Nothing is asked, and each text is opened by one message.
OpensEachOnce(ms) ==
  /\ IsList(ms)
  /\ \A j \in 1..Len(ms) :
        /\ ms[j].id = 0
        /\ \/ ms[j].method = "initialized"
           \/ /\ ms[j].method = "didOpen" /\ ms[j].doc \in Docs
              /\ editor[ms[j].doc] # Absent /\ ms[j].texts = <<editor[ms[j].doc]>>
  /\ \A d \in Docs : editor[d] # Absent =>
        \E n \in 1..Len(ms) : /\ ms[n].method = "didOpen" /\ ms[n].doc = d
                              /\ \A j \in 1..Len(ms) :
                                   ms[j].method = "didOpen" /\ ms[j].doc = d => j = n

\* That is what the editor writes.
LEMMA OpeningOpens ==
  ASSUME IsFiniteSet(Docs)
  PROVE  OpensEachOnce(<<Notice("initialized", Absent, <<>>)>> \o OpenDocs)
<1> DEFINE Opened == {e \in Docs : editor[e] # Absent}
           S == {Notice("didOpen", d, <<editor[d]>>) : d \in Opened}
           k == Cardinality(S)
           o == OpenDocs
           first == Notice("initialized", Absent, <<>>)
<1>1. IsFiniteSet(S)
  <2>1. IsFiniteSet(Opened)
    BY FS_Subset
  <2> DEFINE f == [d \in Opened |-> Notice("didOpen", d, <<editor[d]>>)]
  <2>2. f \in Surjection(Opened, S)
    BY DEF Surjection
  <2> HIDE DEF f, Opened, S
  <2>3. QED
    BY <2>1, <2>2, FS_Surjection
<1>2. \A x \in S : \E d \in Docs : /\ editor[d] # Absent /\ x.id = 0 /\ x.method = "didOpen"
                                   /\ x.doc = d /\ x.texts = <<editor[d]>>
  BY DEF Notice
<1>3. \A d \in Docs : editor[d] # Absent => \E x \in S : x.doc = d
  <2> TAKE d \in Docs
  <2> HAVE editor[d] # Absent
  <2>1. Notice("didOpen", d, <<editor[d]>>) \in S
    OBVIOUS
  <2>2. Notice("didOpen", d, <<editor[d]>>).doc = d
    BY DEF Notice
  <2>3. QED
    BY <2>1, <2>2
<1>4. \A x \in S : \A y \in S : x.doc = y.doc => x = y
  <2> TAKE x \in S
  <2> TAKE y \in S
  <2> HAVE x.doc = y.doc
  <2>1. PICK d \in Docs : x = Notice("didOpen", d, <<editor[d]>>)
    OBVIOUS
  <2>2. PICK e \in Docs : y = Notice("didOpen", e, <<editor[e]>>)
    OBVIOUS
  <2>3. d = x.doc /\ e = y.doc
    BY <2>1, <2>2 DEF Notice
  <2>4. QED
    BY <2>1, <2>2, <2>3
<1>5. o = SetToSeq(S)
  BY DEF OpenDocs
<1>6. first.id = 0 /\ first.method = "initialized"
  BY DEF Notice
<1> HIDE DEF S, o, first
<1>7. /\ k \in Nat /\ o \in [1..k -> S]
      /\ \A i \in 1..k : \A j \in 1..k : o[i] = o[j] => i = j
      /\ \A x \in S : \E i \in 1..k : o[i] = x
  <2>1. /\ k \in Nat /\ o \in [1..k -> S] /\ IsInjective(o)
        /\ \A x \in S : \E i \in 1..k : o[i] = x
    BY <1>1, <1>5, EachNameOnce
  <2>2. QED
    BY <2>1 DEF IsInjective
<1>8. o \in Seq(S) /\ Len(o) = k
  BY <1>7, SeqDef, LenProperties
<1>9. PICK ms : ms = <<first>> \o o
  OBVIOUS
<1>10. /\ IsList(ms) /\ Len(ms) = k + 1 /\ ms[1] = first
       /\ \A i \in 1..k : ms[1 + i] = o[i]
  <2>1. <<first>> \in Seq({first}) /\ Len(<<first>>) = 1 /\ <<first>>[1] = first
    OBVIOUS
  <2>2. IsList(<<first>>) /\ IsList(o)
    BY <1>8, <2>1, ListOf
  <2>3. Adds(ms, <<first>>, o)
    BY <1>9, <2>2, JoinAdds
  <2>4. Len(ms) = 1 + k
    BY <1>8, <2>1, <2>3 DEF Adds
  <2>5. \A i \in 1..1 : ms[i] = <<first>>[i]
    BY <2>1, <2>3 DEF Adds
  <2>6. \A i \in 1..k : ms[1 + i] = o[i]
    BY <1>8, <2>1, <2>3 DEF Adds
  <2>7. QED
    BY <1>7, <2>1, <2>3, <2>4, <2>5, <2>6 DEF Adds
<1>11. \A j \in 1..k + 1 : j = 1 \/ (j - 1 \in 1..k /\ ms[j] = o[j - 1])
  <2> TAKE j \in 1..k + 1
  <2>1. SUFFICES ASSUME j # 1 PROVE j - 1 \in 1..k /\ ms[j] = o[j - 1]
    OBVIOUS
  <2>2. j - 1 \in 1..k /\ 1 + (j - 1) = j
    BY <1>7, <2>1
  <2>3. QED
    BY <1>10, <2>2
<1>12. ASSUME NEW j \in 1..k + 1
       PROVE  /\ ms[j].id = 0
              /\ \/ ms[j].method = "initialized"
                 \/ /\ ms[j].method = "didOpen" /\ ms[j].doc \in Docs
                    /\ editor[ms[j].doc] # Absent /\ ms[j].texts = <<editor[ms[j].doc]>>
  <2>1. CASE j = 1
    BY <1>6, <1>10, <2>1
  <2>2. CASE j # 1
    <3>1. ms[j] \in S
      BY <1>7, <1>11, <2>2
    <3>2. QED
      BY <1>2, <3>1
  <2>3. QED
    BY <2>1, <2>2
<1>13. ASSUME NEW d \in Docs, editor[d] # Absent
       PROVE  \E n \in 1..k + 1 : /\ ms[n].method = "didOpen" /\ ms[n].doc = d
                                  /\ \A j \in 1..k + 1 :
                                       ms[j].method = "didOpen" /\ ms[j].doc = d => j = n
  <2>1. PICK x \in S : x.doc = d
    BY <1>3, <1>13
  <2>2. PICK i \in 1..k : o[i] = x
    BY <1>7
  <2>3. 1 + i \in 1..k + 1 /\ ms[1 + i] = x /\ x.method = "didOpen"
    BY <1>2, <1>7, <1>10, <2>2
  <2>4. ASSUME NEW j \in 1..k + 1, ms[j].method = "didOpen", ms[j].doc = d
        PROVE  j = 1 + i
    <3>1. j # 1
      BY <1>6, <1>10, <2>4
    <3>2. j - 1 \in 1..k /\ o[j - 1] = ms[j]
      BY <1>11, <3>1
    <3>3. o[j - 1] = x
      BY <1>4, <1>7, <2>1, <2>4, <3>2
    <3>4. j - 1 = i
      BY <1>7, <2>2, <3>2, <3>3
    <3>5. QED
      BY <1>7, <3>4
  <2>5. QED
    BY <2>1, <2>3, <2>4
<1>14. OpensEachOnce(ms)
  BY <1>10, <1>12, <1>13 DEF OpensEachOnce
<1>15. QED
  BY <1>9, <1>14 DEF first, o

\* A reply is read: what the user sees, and which answer is next.
LEMMA ReceiveHears ==
  ASSUME LsInv, endsLine, Receive
  PROVE  /\ IsList(stdout') /\ 1 \in DOMAIN stdout /\ Head(stdout) = stdout[1]
         /\ DOMAIN shown' = Docs
         /\ running => \A d \in Docs : docs[d] # Absent =>
                          Told(stdout', d, Diagnosis[docs[d]], shown'[d])
         /\ \E b \in Len(answers)..Len(requests) :
               /\ running => AsksRun(stdin, b, Len(requests))
               /\ IF 1 \in Replies(stdout)
                  THEN /\ stdout[1].id = Len(answers) + 1 /\ Len(answers) + 1 <= b
                       /\ RepliesRun(stdout', Len(answers) + 1, b)
                  ELSE RepliesRun(stdout', Len(answers), b)
<1>1. EndsTyped /\ InTurn /\ InTouch
  BY DEF LsInv
<1>2. stdout # <<>> /\ IsList(stdout) /\ stdout' = Tail(stdout)
  BY <1>1 DEF Receive, EndsTyped
<1>3. Drops(stdout', stdout, 1) /\ Head(stdout) = stdout[1] /\ 1 \in DOMAIN stdout
  BY <1>2, TailDrops
<1>4. IsList(stdout')
  BY <1>3 DEF Drops
<1>5. \/ /\ stdout[1].type = "diagnostics"
         /\ shown' = [shown EXCEPT ![stdout[1].doc] = stdout[1].result]
      \/ stdout[1].type = "response" /\ shown' = shown
  BY <1>3 DEF Receive
<1>6. DOMAIN shown' = Docs /\ \A d \in Docs : IF 1 \in Says(stdout, d) THEN shown'[d] = stdout[1].result
                                                                     ELSE shown'[d] = shown[d]
  BY <1>1, <1>3, <1>5 DEF EndsTyped, Says
<1>7. ASSUME running, NEW d \in Docs, docs[d] # Absent
      PROVE  Told(stdout', d, Diagnosis[docs[d]], shown'[d])
  <2>1. Told(stdout, d, Diagnosis[docs[d]], shown[d])
    BY <1>1, <1>7 DEF InTouch
  <2>2. IF 1 \in Says(stdout, d) THEN shown'[d] = stdout[1].result ELSE shown'[d] = shown[d]
    BY <1>6
  <2>3. QED
    BY <1>2, <1>3, <2>1, <2>2, ToldSooner
<1>8. PICK b \in Len(answers)..Len(requests) :
        /\ RepliesRun(stdout, Len(answers), b)
        /\ running => AsksRun(stdin, b, Len(requests))
  BY <1>1 DEF InTurn
<1>9. Len(answers) \in Nat /\ b \in Nat /\ Len(answers) <= b
  <2>1. Len(answers) \in Nat /\ Len(requests) \in Nat
    BY <1>1, ListSize DEF EndsTyped
  <2>2. QED
    BY <1>8, <2>1
<1>10. IF 1 \in Replies(stdout)
       THEN /\ stdout[1].id = Len(answers) + 1 /\ Len(answers) + 1 <= b
            /\ RepliesRun(stdout', Len(answers) + 1, b)
       ELSE RepliesRun(stdout', Len(answers), b)
  BY <1>2, <1>3, <1>8, <1>9, ReplyInFront
<1>11. QED
  BY <1>3, <1>4, <1>6, <1>7, <1>8, <1>10

\* One that answers nothing.
LEMMA HearKeeps ==
  ASSUME LsInv, endsLine, Receive,
         stdout[1].type = "diagnostics" \/ (stdout[1].type = "response" /\ stdout[1].id = 0)
  PROVE  LsInv'
<1>1. EndsTyped /\ Connection /\ InTurn /\ InTouch
  BY DEF LsInv
<1>2. /\ IsList(stdout') /\ 1 \in DOMAIN stdout /\ Head(stdout) = stdout[1]
      /\ DOMAIN shown' = Docs
      /\ running => \A d \in Docs : docs[d] # Absent =>
                       Told(stdout', d, Diagnosis[docs[d]], shown'[d])
      /\ \E b \in Len(answers)..Len(requests) :
            /\ running => AsksRun(stdin, b, Len(requests))
            /\ IF 1 \in Replies(stdout)
               THEN /\ stdout[1].id = Len(answers) + 1 /\ Len(answers) + 1 <= b
                    /\ RepliesRun(stdout', Len(answers) + 1, b)
               ELSE RepliesRun(stdout', Len(answers), b)
  BY ReceiveHears
<1>3. /\ stdout # <<>>
      /\ UNCHANGED <<stdin, closed, phase, answers, running, docs, requests, editor, endsLine>>
  BY <1>2 DEF Receive, server, user
<1>4. 1 \notin Replies(stdout)
  BY DEF Replies
<1>5. EndsTyped'
  BY <1>1, <1>2, <1>3 DEF EndsTyped
<1>6. Connection'
  BY <1>1, <1>3 DEF Connection, Off
<1>7. InTurn'
  BY <1>1, <1>2, <1>3, <1>4 DEF InTurn
<1>8. InTouch'
  BY <1>1, <1>2, <1>3 DEF InTouch
<1>9. QED
  BY <1>5, <1>6, <1>7, <1>8 DEF LsInv

\* The answer to a request: to the first, after which the editor opens its
\* documents; to the last, after which it is done; or to a question.
LEMMA AnswerKeeps ==
  ASSUME LsInv, endsLine, Receive, stdout[1].type = "response", stdout[1].id # 0
  PROVE  LsInv'
<1>1. EndsTyped /\ Connection /\ InTurn /\ InTouch
  BY DEF LsInv
<1>2. /\ IsList(stdout') /\ 1 \in DOMAIN stdout /\ Head(stdout) = stdout[1]
      /\ DOMAIN shown' = Docs
      /\ running => \A d \in Docs : docs[d] # Absent =>
                       Told(stdout', d, Diagnosis[docs[d]], shown'[d])
      /\ \E b \in Len(answers)..Len(requests) :
            /\ running => AsksRun(stdin, b, Len(requests))
            /\ IF 1 \in Replies(stdout)
               THEN /\ stdout[1].id = Len(answers) + 1 /\ Len(answers) + 1 <= b
                    /\ RepliesRun(stdout', Len(answers) + 1, b)
               ELSE RepliesRun(stdout', Len(answers), b)
  BY ReceiveHears
<1>3. 1 \in Replies(stdout)
  BY <1>2 DEF Replies
<1>4. PICK k \in Nat, b \in Nat, r \in Nat :
        /\ k = Len(answers) /\ r = Len(requests) /\ k + 1 <= b /\ b <= r
        /\ DOMAIN requests = 1..r /\ DOMAIN answers = 1..k
        /\ running => AsksRun(stdin, b, r)
        /\ stdout[1].id = k + 1 /\ RepliesRun(stdout', k + 1, b)
  <2>1. PICK b \in Len(answers)..Len(requests) :
          /\ running => AsksRun(stdin, b, Len(requests))
          /\ stdout[1].id = Len(answers) + 1 /\ Len(answers) + 1 <= b
          /\ RepliesRun(stdout', Len(answers) + 1, b)
    BY <1>2, <1>3
  <2>2. /\ Len(answers) \in Nat /\ DOMAIN answers = 1..Len(answers)
        /\ Len(requests) \in Nat /\ DOMAIN requests = 1..Len(requests)
    BY <1>1, ListSize DEF EndsTyped
  <2>3. b \in Nat /\ b <= Len(requests)
    BY <2>1, <2>2
  <2>4. QED
    BY <2>1, <2>2, <2>3
<1> DEFINE method == requests[k + 1].message.method
           e == [id |-> k + 1, result |-> stdout[1].result]
<1>5. /\ stdout # <<>> /\ answers' = Append(answers, e)
      /\ \/ /\ method = "initialize" /\ phase' = "ready" /\ closed' = closed
            /\ stdin' = stdin \o FramedAll(<<Notice("initialized", Absent, <<>>)>> \o OpenDocs)
         \/ /\ method = "shutdown" /\ phase' = "stopped"
            /\ stdin' = stdin \o Framed(Notice("exit", Absent, <<>>))
         \/ method \in Questions /\ UNCHANGED <<stdin, closed, phase>>
      /\ UNCHANGED <<shown, running, docs, requests, editor, endsLine>>
  BY <1>2, <1>4 DEF Receive, server, user
<1>6. method \in Answered /\ (method = "initialize" <=> k + 1 = 1) /\ requests # <<>>
  <2>1. k + 1 \in DOMAIN requests /\ r # 0
    BY <1>4
  <2>2. requests # <<>>
    BY <1>1, <1>4, <2>1, ListSize DEF EndsTyped
  <2>3. QED
    BY <1>1, <2>1, <2>2 DEF Connection
<1>7. e.id = k + 1
  OBVIOUS
<1> HIDE DEF method, e
<1>8. /\ IsList(answers') /\ Len(answers') = k + 1 /\ answers' # <<>> /\ DOMAIN answers' = 1..k + 1
      /\ \A n \in 1..k : answers'[n] = answers[n]
      /\ answers'[k + 1] = e
  <2>1. Gains(answers', answers, e)
    BY <1>1, <1>5, AppendGains DEF EndsTyped
  <2>2. IsList(answers') /\ Len(answers') = k + 1
    BY <1>4, <2>1 DEF Gains
  <2>3. DOMAIN answers' = 1..k + 1 /\ answers' # <<>>
    BY <1>4, <2>2, ListSize
  <2>4. QED
    BY <1>4, <2>1, <2>2, <2>3 DEF Gains
<1>9. phase # "off" /\ (phase = "waiting" <=> k = 0)
  <2>1. answers = <<>> <=> k = 0
    BY <1>1, <1>4, ListSize DEF EndsTyped
  <2>2. phase # "off"
    BY <1>1, <1>5 DEF Connection, Off
  <2>3. QED
    BY <1>1, <1>6, <2>1, <2>2 DEF Connection
<1>10. EndsTyped'
  BY <1>1, <1>2, <1>5, <1>8 DEF EndsTyped
<1>11. Connection'
  <2>1. phase' # "off" /\ phase' # "waiting"
    BY <1>5, <1>6, <1>9 DEF Questions
  <2>2. closed' => phase' = "stopped"
    <3>1. closed => phase = "stopped" /\ phase # "waiting"
      BY <1>1 DEF Connection
    <3>2. method = "initialize" => phase = "waiting"
      BY <1>6, <1>9
    <3>3. CASE method = "shutdown"
      BY <1>5, <3>3 DEF Questions
    <3>4. CASE method # "shutdown"
      <4>1. closed' = closed /\ (phase' = phase \/ phase = "waiting")
        BY <1>5, <3>2, <3>4
      <4>2. QED
        BY <3>1, <4>1, Zenon
    <3>5. QED
      BY <3>3, <3>4
  <2>3. QED
    BY <1>1, <1>5, <1>6, <1>8, <2>1, <2>2 DEF Connection
<1>12. ASSUME running
       PROVE  /\ Lines(stdin') /\ WellBehaved(stdin') /\ AsksRun(stdin', b, r)
              /\ phase' = "ready" => \A d \in Docs : Comes(stdin', d, editor[d], docs[d])
  <2>1. /\ Lines(stdin) /\ WellBehaved(stdin) /\ AsksRun(stdin, b, r)
        /\ phase \in {"waiting", "ready"} =>
              \A d \in Docs : Comes(stdin, d, Wish(phase, editor, d), docs[d])
    BY <1>1, <1>4, <1>12 DEF InTouch
  <2>2. CASE method = "initialize"
    <3> DEFINE ms == <<Notice("initialized", Absent, <<>>)>> \o OpenDocs
    <3>1. OpensEachOnce(ms)
      BY LanguageServerAssumption, OpeningOpens
    <3>2. stdin' = stdin \o FramedAll(ms)
      BY <1>5, <1>6, <2>2 DEF Questions
    <3> HIDE DEF ms
    <3>3. IsList(ms)
      BY <3>1 DEF OpensEachOnce
    <3>4. Sent(stdin', stdin, ms)
      BY <2>1, <3>2, <3>3, AllFrames, MoreLines
    <3>5. ASSUME NEW j \in 1..Len(ms), ms[j].method = "didOpen"
          PROVE  /\ ms[j].texts # <<>> /\ ms[j].texts[1] = editor[ms[j].doc]
                 /\ Last(ms[j].texts) = editor[ms[j].doc]
                 /\ ms[j].doc \in Docs /\ editor[ms[j].doc] \in Sources
      <4>1. ms[j].doc \in Docs /\ editor[ms[j].doc] # Absent /\ ms[j].texts = <<editor[ms[j].doc]>>
        BY <3>1, <3>5 DEF OpensEachOnce
      <4>2. Last(<<editor[ms[j].doc]>>) = editor[ms[j].doc]
        BY DEF Last
      <4>3. <<editor[ms[j].doc]>> # <<>> /\ <<editor[ms[j].doc]>>[1] = editor[ms[j].doc]
        OBVIOUS
      <4>4. editor[ms[j].doc] \in Sources
        BY <1>1, <4>1 DEF EndsTyped
      <4>5. QED
        BY <4>1, <4>2, <4>3, <4>4
    <3>6. \A j \in 1..Len(ms) : ms[j].id = 0 /\ ms[j].method \in {"initialized", "didOpen"}
      BY <3>1 DEF OpensEachOnce
    <3>7. \A j \in 1..Len(ms) : Proper(ms[j])
      BY <3>5, <3>6 DEF Proper, Notices
    <3>8. Lines(stdin') /\ WellBehaved(stdin')
      BY <2>1, <3>4, <3>7, SentProper
    <3>9. AsksRun(stdin', b, r)
      BY <2>1, <3>3, <3>4, <3>6, NoticesBehind
    <3>10. ASSUME NEW d \in Docs PROVE Comes(stdin', d, editor[d], docs[d])
      <4>1. Comes(stdin, d, Absent, docs[d])
        BY <1>6, <1>9, <2>1, <2>2 DEF Wish
      <4>2. \A j \in 1..Len(ms) : Edits(ms[j], d) <=> ms[j].method = "didOpen" /\ ms[j].doc = d
        BY <3>5, <3>6 DEF Edits, Notices
      <4>3. CASE editor[d] = Absent
        <5>1. \A j \in 1..Len(ms) : ~Edits(ms[j], d)
          BY <3>1, <4>2, <4>3 DEF OpensEachOnce
        <5>2. QED
          BY <2>1, <3>3, <3>4, <4>1, <4>3, <5>1, ComesLater
      <4>4. CASE editor[d] # Absent
        <5>1. PICK n \in 1..Len(ms) : /\ ms[n].method = "didOpen" /\ ms[n].doc = d
                                      /\ \A j \in 1..Len(ms) :
                                           ms[j].method = "didOpen" /\ ms[j].doc = d => j = n
          BY <3>1, <4>4 DEF OpensEachOnce
        <5>2. Edits(ms[n], d) /\ \A j \in 1..Len(ms) : Edits(ms[j], d) => j = n
          BY <4>2, <5>1
        <5>3. Comes(stdin', d, Text(ms[n]), docs[d])
          BY <2>1, <3>3, <3>4, <5>2, ComesNow
        <5>4. Text(ms[n]) = editor[d]
          BY <3>5, <5>1 DEF Text
        <5>5. QED
          BY <5>3, <5>4
      <4>5. QED
        BY <4>3, <4>4
    <3>11. QED
      BY <3>8, <3>9, <3>10
  <2>3. CASE method = "shutdown"
    <3> DEFINE m == Notice("exit", Absent, <<>>)
    <3>1. m.id = 0 /\ m.method = "exit"
      BY DEF Notice
    <3>2. phase' = "stopped" /\ stdin' = stdin \o Framed(m)
      BY <1>5, <2>3 DEF Questions
    <3> HIDE DEF m
    <3>3. Sent(stdin', stdin, <<m>>) /\ IsList(<<m>>) /\ Len(<<m>>) = 1 /\ <<m>>[1] = m
      BY <2>1, <3>2, SendOne
    <3>4. Proper(m)
      BY <3>1 DEF Proper
    <3>5. Lines(stdin') /\ WellBehaved(stdin')
      BY <2>1, <3>3, <3>4, SentProper
    <3>6. AsksRun(stdin', b, r)
      BY <2>1, <3>1, <3>3, NoticesBehind
    <3>7. QED
      BY <3>2, <3>5, <3>6
  <2>4. CASE method \in Questions
    <3>1. stdin' = stdin /\ phase' = phase
      BY <1>5, <2>4 DEF Questions
    <3>2. QED
      BY <2>1, <3>1 DEF Wish
  <2>5. QED
    BY <1>5, <2>2, <2>3, <2>4
<1>13. InTurn'
  <2>1. \A n \in DOMAIN answers' : answers'[n].id = n
    <3> TAKE n \in DOMAIN answers'
    <3>1. CASE n = k + 1
      BY <1>7, <1>8, <3>1
    <3>2. CASE n \in 1..k
      BY <1>1, <1>4, <1>8, <3>2 DEF InTurn
    <3>3. QED
      BY <1>8, <3>1, <3>2
  <2>2. b \in k + 1..r
    BY <1>4
  <2>3. QED
    BY <1>4, <1>5, <1>8, <1>12, <2>1, <2>2 DEF InTurn
<1>14. InTouch'
  <2>1. SUFFICES ASSUME running PROVE InTouch'
    BY <1>5 DEF InTouch
  <2>2. \A d \in Docs : docs'[d] # Absent => Told(stdout', d, Diagnosis[docs'[d]], shown'[d])
    BY <1>2, <1>5, <2>1
  <2>3. phase' \in {"waiting", "ready"} => phase' = "ready"
    BY <1>5, <1>6, <1>9 DEF Questions
  <2>4. phase' = "ready" => \A d \in Docs : Comes(stdin', d, Wish(phase', editor', d), docs'[d])
    BY <1>5, <1>12, <2>1 DEF Wish
  <2>5. Lines(stdin') /\ WellBehaved(stdin') /\ requests' # <<>>
    BY <1>5, <1>6, <1>12, <2>1
  <2>6. QED
    BY <2>2, <2>3, <2>4, <2>5 DEF InTouch
<1>15. QED
  BY <1>10, <1>11, <1>13, <1>14 DEF LsInv

\* The editor drops the connection.
LEMMA DisconnectKeeps ==
  ASSUME LsInv, endsLine, Disconnect
  PROVE  LsInv'
<1>1. EndsTyped /\ Connection
  BY DEF LsInv
<1>2. /\ ~running /\ stdout = <<>> /\ phase \in {"waiting", "ready", "stopping"}
      /\ phase' = IF phase = "stopping" THEN "stopped" ELSE "off"
      /\ stdin' = <<>> /\ shown' = Closed /\ requests' = <<>> /\ answers' = <<>>
      /\ UNCHANGED <<closed, stdout, running, docs, editor, endsLine>>
  BY DEF Disconnect, server, user
<1>3. IsList(<<>>) /\ Len(<<>>) = 0 /\ DOMAIN <<>> = {} /\ RepliesRun(<<>>, 0, 0)
  <2>1. RepliesRun(<<>>, 0, 0)
    BY EmptyRuns
  <2>2. QED
    BY <2>1, EmptyPipe
<1>4. EndsTyped'
  BY <1>1, <1>2, <1>3 DEF EndsTyped, Closed
<1>5. Connection'
  BY <1>1, <1>2, <1>3 DEF Connection, Off
<1>6. InTurn' /\ InTouch'
  BY <1>2, <1>3 DEF InTurn, InTouch
<1>7. QED
  BY <1>4, <1>5, <1>6 DEF LsInv

-----------------------------------------------------------------------------
(* The steps of the server.                                                  *)

\* A line is taken: what is on its way comes closer.
LEMMA LineTaken ==
  ASSUME LsInv, endsLine, running, HasLine, stdin' = RestOfInput
  PROVE  /\ stdin # <<>> /\ 1 \in DOMAIN stdin /\ NextLine[1] = stdin[1]
         /\ Drops(stdin', stdin, 2) /\ Lines(stdin) /\ WellBehaved(stdin)
         /\ Lines(stdin') /\ WellBehaved(stdin')
         /\ IsMessage <=> 1 \in Bodies(stdin)
<1>1. Lines(stdin) /\ WellBehaved(stdin)
  BY DEF LsInv, InTouch
<1>2. /\ stdin # <<>> /\ 1 \in DOMAIN stdin /\ NextLine[1] = stdin[1]
      /\ IsMessage <=> stdin[1].piece = "body"
      /\ Drops(stdin', stdin, 2)
  BY <1>1, FirstLine
<1>3. Lines(stdin') /\ \A i \in Bodies(stdin') : i + 2 \in Bodies(stdin) /\ stdin'[i] = stdin[i + 2]
  BY <1>1, <1>2, LessLines
<1>4. WellBehaved(stdin')
  BY <1>1, <1>3 DEF WellBehaved
<1>5. QED
  BY <1>1, <1>2, <1>3, <1>4 DEF Bodies

\* A header is skipped.
LEMMA SkipKeeps ==
  ASSUME LsInv, endsLine, SkipLine
  PROVE  LsInv'
<1>1. EndsTyped /\ Connection /\ InTurn /\ InTouch
  BY DEF LsInv
<1>2. /\ running /\ HasLine /\ ~IsMessage /\ stdin' = RestOfInput
      /\ UNCHANGED <<closed, stdout, running, docs, phase, shown, requests, answers, editor, endsLine>>
  BY DEF SkipLine, server, user
<1>3. /\ stdin # <<>> /\ Drops(stdin', stdin, 2) /\ Lines(stdin)
      /\ Lines(stdin') /\ WellBehaved(stdin') /\ 1 \notin Bodies(stdin)
  BY <1>2, LineTaken
<1>4. EndsTyped' /\ Connection'
  BY <1>1, <1>2 DEF EndsTyped, Connection, Off
<1>5. InTurn'
  <2>1. PICK b \in Len(answers)..Len(requests) :
          RepliesRun(stdout, Len(answers), b) /\ AsksRun(stdin, b, Len(requests))
    BY <1>1, <1>2 DEF InTurn
  <2>2. b \in Nat /\ Len(requests) \in Nat /\ b <= Len(requests)
    <3>1. Len(answers) \in Nat /\ Len(requests) \in Nat
      BY <1>1, ListSize DEF EndsTyped
    <3>2. QED
      BY <2>1, <3>1
  <2>3. AsksRun(stdin', b, Len(requests))
    <3>1. 1 \notin Asks(stdin)
      BY <1>3 DEF Asks
    <3>2. QED
      BY <1>3, <2>1, <2>2, <3>1, AskInFront
  <2>4. QED
    BY <1>1, <1>2, <2>1, <2>3 DEF InTurn
<1>6. ASSUME NEW d \in Docs, phase \in {"waiting", "ready"}
      PROVE  Comes(stdin', d, Wish(phase, editor, d), docs[d])
  <2>1. Comes(stdin, d, Wish(phase, editor, d), docs[d])
    BY <1>1, <1>2, <1>6 DEF InTouch
  <2>2. 1 \notin EditsOf(stdin, d)
    BY <1>3 DEF EditsOf
  <2>3. QED
    BY <1>3, <2>1, <2>2, ComesCloser
<1>7. InTouch'
  BY <1>1, <1>2, <1>3, <1>6 DEF InTouch
<1>8. QED
  BY <1>4, <1>5, <1>7 DEF LsInv

\* The input ends.
LEMMA EndKeeps ==
  ASSUME LsInv, endsLine, EndOfInput
  PROVE  LsInv'
<1>1. /\ EndsTyped /\ Connection /\ InTurn
      /\ UNCHANGED <<stdin, closed, stdout, docs, phase, shown, requests, answers, editor, endsLine>>
      /\ running' = FALSE /\ running
  BY DEF LsInv, EndOfInput, user
<1>2. EndsTyped' /\ Connection' /\ InTurn' /\ InTouch'
  BY <1>1 DEF EndsTyped, Connection, Off, InTurn, InTouch
<1>3. QED
  BY <1>2 DEF LsInv

\* What a message does: its edit is made; and the server says nothing, or it
\* answers, or it says what the text deserves.
Done(m) ==
  /\ docs' \in [Docs -> Sources \cup {Absent}]
  /\ \A d \in Docs : docs'[d] = IF Edits(m, d) THEN Text(m) ELSE docs[d]
  /\ running' = running \/ running' = FALSE
  /\ \/ /\ stdout' = stdout /\ (m.id = 0 \/ running' = FALSE)
        /\ \A d \in Docs : Edits(m, d) => Text(m) = Absent
     \/ \E e : /\ Gains(stdout', stdout, e) /\ e.type = "response" /\ e.id = m.id
               /\ \A d \in Docs : ~Edits(m, d)
     \/ \E e : /\ Gains(stdout', stdout, e) /\ e.type = "diagnostics" /\ m.id = 0
               /\ \A d \in Docs : /\ Edits(m, d) => e.doc = d /\ e.result = Diagnosis[Text(m)]
                                  /\ ~Edits(m, d) => e.doc # d

\* An answer.
LEMMA Responds ==
  ASSUME NEW m, NEW result, IsList(stdout), docs \in [Docs -> Sources \cup {Absent}],
         m.method \notin Notices, docs' = docs, running' = running, Respond(m, result)
  PROVE  Done(m)
<1> DEFINE e == [type |-> "response", id |-> m.id, result |-> result]
<1>1. stdout' = Append(stdout, e)
  BY DEF Respond
<1>2. e.type = "response" /\ e.id = m.id
  OBVIOUS
<1> HIDE DEF e
<1>3. Gains(stdout', stdout, e)
  BY <1>1, AppendGains
<1>4. \A d : ~Edits(m, d)
  BY DEF Edits
<1>5. QED
  BY <1>2, <1>3, <1>4 DEF Done

\* A text is taken and checked.
LEMMA TakesText ==
  ASSUME NEW m, NEW text, IsList(stdout), docs \in [Docs -> Sources \cup {Absent}],
         m.id = 0, m.method \in Notices, m.doc \in Docs, m.method # "didClose", m.texts # <<>>,
         Text(m) = text, text \in Sources,
         docs' = [docs EXCEPT ![m.doc] = text], running' = running, Publish(m.doc, text)
  PROVE  Done(m)
<1> DEFINE e == [type |-> "diagnostics", doc |-> m.doc, result |-> Diagnosis[text]]
<1>1. stdout' = Append(stdout, e)
  BY DEF Publish
<1>2. e.type = "diagnostics" /\ e.doc = m.doc /\ e.result = Diagnosis[text]
  OBVIOUS
<1> HIDE DEF e
<1>3. Gains(stdout', stdout, e)
  BY <1>1, AppendGains
<1>4. \A d \in Docs : Edits(m, d) <=> m.doc = d
  BY DEF Edits
<1>5. docs' \in [Docs -> Sources \cup {Absent}]
  OBVIOUS
<1>6. \A d \in Docs : docs'[d] = IF Edits(m, d) THEN Text(m) ELSE docs[d]
  BY <1>4
<1>7. \A d \in Docs : /\ Edits(m, d) => e.doc = d /\ e.result = Diagnosis[Text(m)]
                      /\ ~Edits(m, d) => e.doc # d
  BY <1>2, <1>4
<1>8. QED
  BY <1>2, <1>3, <1>5, <1>6, <1>7 DEF Done

\* Every handler does that.
LEMMA Handled ==
  ASSUME NEW m, Proper(m), IsList(stdout), docs \in [Docs -> Sources \cup {Absent}], Handle(m)
  PROVE  Done(m)
<1>1. CASE OnInitialize(m)
  <2>1. m.method = "initialize" /\ docs' = docs /\ running' = running /\ Respond(m, "capabilities")
    BY <1>1 DEF OnInitialize, server
  <2>2. QED
    BY <2>1, Responds DEF Notices
<1>2. CASE OnOpen(m)
  <2>1. /\ m.method = "didOpen" /\ docs' = [docs EXCEPT ![m.doc] = m.texts[1]]
        /\ running' = running /\ Publish(m.doc, m.texts[1])
    BY <1>2 DEF OnOpen
  <2>2. /\ m.id = 0 /\ m.method \in Notices /\ m.doc \in Docs /\ m.method # "didClose"
        /\ m.texts # <<>> /\ m.texts[1] = Last(m.texts) /\ Last(m.texts) \in Sources
    BY <2>1 DEF Proper, Notices, Answered
  <2>3. Text(m) = m.texts[1] /\ m.texts[1] \in Sources
    BY <2>1, <2>2 DEF Text
  <2>4. QED
    BY <2>1, <2>2, <2>3, TakesText
<1>3. CASE OnChange(m)
  <2>1. m.method = "didChange" /\ running' = running
    BY <1>3 DEF OnChange
  <2>2. /\ m.id = 0 /\ m.method \in Notices /\ m.doc \in Docs /\ m.method # "didClose"
        /\ m.texts # <<>> => Last(m.texts) \in Sources
    BY <2>1 DEF Proper, Notices, Answered
  <2>3. CASE m.texts = <<>>
    <3>1. docs' = docs /\ stdout' = stdout
      BY <1>3, <2>3 DEF OnChange
    <3>2. \A d : ~Edits(m, d)
      BY <2>2, <2>3 DEF Edits
    <3>3. QED
      BY <2>1, <2>2, <3>1, <3>2 DEF Done
  <2>4. CASE m.texts # <<>>
    <3>1. docs' = [docs EXCEPT ![m.doc] = Last(m.texts)] /\ Publish(m.doc, Last(m.texts))
      BY <1>3, <2>4 DEF OnChange
    <3>2. Text(m) = Last(m.texts)
      BY <2>2 DEF Text
    <3>3. QED
      BY <2>1, <2>2, <2>4, <3>1, <3>2, TakesText
  <2>5. QED
    BY <2>3, <2>4
<1>4. CASE OnClose(m)
  <2>1. /\ m.method = "didClose" /\ docs' = [docs EXCEPT ![m.doc] = Absent]
        /\ running' = running /\ stdout' = stdout
    BY <1>4 DEF OnClose
  <2>2. m.id = 0 /\ m.doc \in Docs /\ Text(m) = Absent
    BY <2>1 DEF Proper, Notices, Answered, Text
  <2>3. \A d \in Docs : Edits(m, d) <=> m.doc = d
    BY <2>1 DEF Edits, Notices
  <2>4. docs' \in [Docs -> Sources \cup {Absent}]
    BY <2>1
  <2>5. \A d \in Docs : docs'[d] = IF Edits(m, d) THEN Text(m) ELSE docs[d]
    BY <2>1, <2>2, <2>3
  <2>6. QED
    BY <2>1, <2>2, <2>4, <2>5 DEF Done
<1>5. CASE OnCompletion(m)
  <2>1. PICK result : /\ m.method = "completion" /\ docs' = docs /\ running' = running
                      /\ Respond(m, result)
    BY <1>5 DEF OnCompletion
  <2>2. QED
    BY <2>1, Responds DEF Notices
<1>6. CASE OnHover(m)
  <2>1. PICK result : /\ m.method = "hover" /\ docs' = docs /\ running' = running
                      /\ Respond(m, result)
    BY <1>6 DEF OnHover, server
  <2>2. QED
    BY <2>1, Responds DEF Notices
<1>7. CASE OnSignatureHelp(m)
  <2>1. m.method = "signatureHelp" /\ docs' = docs
    BY <1>7 DEF OnSignatureHelp
  <2>2. CASE running' = FALSE /\ stdout' = stdout
    <3>1. \A d : ~Edits(m, d)
      BY <2>1 DEF Edits, Notices
    <3>2. QED
      BY <2>1, <2>2, <3>1 DEF Done
  <2>3. CASE \E result : Respond(m, result) /\ running' = running
    BY <2>1, <2>3, Responds DEF Notices
  <2>4. QED
    BY <1>7, <2>2, <2>3 DEF OnSignatureHelp
<1>8. CASE OnOther(m)
  <2>1. /\ m.method \in {"initialized", "shutdown", "exit"} /\ docs' = docs /\ running' = running
        /\ Respond(m, "null")
    BY <1>8 DEF OnOther, server
  <2>2. QED
    BY <2>1, Responds DEF Notices
<1>9. QED
  BY <1>1, <1>2, <1>3, <1>4, <1>5, <1>6, <1>7, <1>8 DEF Handle

\* A message is handled.
LEMMA ReadKeeps ==
  ASSUME LsInv, endsLine, ReadMessage
  PROVE  LsInv'
<1>1. EndsTyped /\ Connection /\ InTurn /\ InTouch
  BY DEF LsInv
<1> DEFINE m == stdin[1].message
<1>2. /\ running /\ HasLine /\ IsMessage /\ stdin' = RestOfInput
      /\ Handle(NextLine[1].message)
      /\ UNCHANGED <<closed, phase, shown, requests, answers, editor, endsLine>>
  BY DEF ReadMessage, user
<1>3. /\ stdin # <<>> /\ Drops(stdin', stdin, 2) /\ Lines(stdin) /\ WellBehaved(stdin)
      /\ Lines(stdin') /\ WellBehaved(stdin') /\ 1 \in Bodies(stdin) /\ NextLine[1] = stdin[1]
  BY <1>2, LineTaken
<1>4. Proper(m) /\ Handle(m)
  BY <1>2, <1>3 DEF WellBehaved
<1> HIDE DEF m
<1>5. Done(m)
  BY <1>1, <1>4, Handled DEF EndsTyped
<1>6. IsList(stdout)
  BY <1>1 DEF EndsTyped
<1>7. IsList(stdout')
  BY <1>5, <1>6 DEF Done, Gains
<1>8. EndsTyped'
  BY <1>1, <1>2, <1>5, <1>7 DEF EndsTyped, Done
<1>9. Connection'
  BY <1>1, <1>2 DEF Connection, Off
<1>10. InTurn'
  <2>1. PICK b \in Len(answers)..Len(requests) :
          RepliesRun(stdout, Len(answers), b) /\ AsksRun(stdin, b, Len(requests))
    BY <1>1, <1>2 DEF InTurn
  <2>2. /\ Len(answers) \in Nat /\ Len(requests) \in Nat /\ b \in Nat
        /\ Len(answers) <= b /\ b <= Len(requests)
    <3>1. Len(answers) \in Nat /\ Len(requests) \in Nat
      BY <1>1, ListSize DEF EndsTyped
    <3>2. QED
      BY <2>1, <3>1
  <2>3. 1 \in Asks(stdin) <=> m.id # 0
    BY <1>3 DEF Asks, m
  <2>4. IF 1 \in Asks(stdin)
        THEN stdin[1].message.id = b + 1 /\ b + 1 <= Len(requests) /\ AsksRun(stdin', b + 1, Len(requests))
        ELSE AsksRun(stdin', b, Len(requests))
    BY <1>3, <2>1, <2>2, AskInFront
  <2>5. CASE m.id = 0
    <3>1. AsksRun(stdin', b, Len(requests))
      BY <2>3, <2>4, <2>5
    <3>2. RepliesRun(stdout', Len(answers), b)
      <4>1. CASE stdout' = stdout
        BY <2>1, <4>1
      <4>2. CASE \E e : Gains(stdout', stdout, e) /\ ~(e.type = "response" /\ e.id # 0)
        BY <1>6, <2>1, <2>2, <4>2, ReplyBehind
      <4>3. QED
        BY <1>5, <2>5, <4>1, <4>2 DEF Done
    <3>3. QED
      BY <1>1, <1>2, <2>1, <3>1, <3>2 DEF InTurn
  <2>6. CASE m.id # 0
    <3>1. m.id = b + 1 /\ b + 1 <= Len(requests) /\ AsksRun(stdin', b + 1, Len(requests))
      BY <2>3, <2>4, <2>6 DEF m
    <3>2. CASE running' = FALSE /\ stdout' = stdout
      BY <1>1, <1>2, <2>1, <3>2 DEF InTurn
    <3>3. CASE \E e : Gains(stdout', stdout, e) /\ e.type = "response" /\ e.id = m.id
      <4>1. RepliesRun(stdout', Len(answers), b + 1)
        BY <1>6, <2>1, <2>2, <3>1, <3>3, ReplyBehind
      <4>2. b + 1 \in Len(answers)..Len(requests)
        BY <2>2, <3>1
      <4>3. QED
        BY <1>1, <1>2, <3>1, <4>1, <4>2 DEF InTurn
    <3>4. QED
      BY <1>5, <2>6, <3>2, <3>3 DEF Done
  <2>7. QED
    BY <2>5, <2>6
<1>11. ASSUME NEW d \in Docs PROVE 1 \in EditsOf(stdin, d) <=> Edits(m, d)
  BY <1>3 DEF EditsOf, m
<1>12. ASSUME NEW d \in Docs, phase \in {"waiting", "ready"}
       PROVE  Comes(stdin', d, Wish(phase, editor, d), docs'[d])
  <2>1. Comes(stdin, d, Wish(phase, editor, d), docs[d])
    BY <1>1, <1>2, <1>12 DEF InTouch
  <2>2. IF 1 \in EditsOf(stdin, d) THEN docs'[d] = Text(stdin[1].message) ELSE docs'[d] = docs[d]
    BY <1>5, <1>11 DEF Done, m
  <2>3. QED
    BY <1>3, <2>1, <2>2, ComesCloser
<1>13. ASSUME NEW d \in Docs, docs'[d] # Absent
       PROVE  Told(stdout', d, Diagnosis[docs'[d]], shown[d])
  <2>1. docs'[d] = IF Edits(m, d) THEN Text(m) ELSE docs[d]
    BY <1>5 DEF Done
  <2>2. docs[d] # Absent => Told(stdout, d, Diagnosis[docs[d]], shown[d])
    BY <1>1, <1>2 DEF InTouch
  <2>3. CASE stdout' = stdout /\ \A c \in Docs : Edits(m, c) => Text(m) = Absent
    BY <1>13, <2>1, <2>2, <2>3
  <2>4. ASSUME NEW e, Gains(stdout', stdout, e), e.type = "response", \A c \in Docs : ~Edits(m, c)
        PROVE  Told(stdout', d, Diagnosis[docs'[d]], shown[d])
    <3>1. docs'[d] = docs[d] /\ Told(stdout, d, Diagnosis[docs'[d]], shown[d])
      BY <1>13, <2>1, <2>2, <2>4
    <3>2. ~(e.type = "diagnostics" /\ e.doc = d)
      BY <2>4
    <3>3. QED
      BY <1>6, <2>4, <3>1, <3>2, ToldLater
  <2>5. ASSUME NEW e, Gains(stdout', stdout, e), e.type = "diagnostics",
               Edits(m, d) => e.doc = d /\ e.result = Diagnosis[Text(m)], ~Edits(m, d) => e.doc # d
        PROVE  Told(stdout', d, Diagnosis[docs'[d]], shown[d])
    <3>1. IF e.type = "diagnostics" /\ e.doc = d THEN Diagnosis[docs'[d]] = e.result
          ELSE Told(stdout, d, Diagnosis[docs'[d]], shown[d])
      BY <1>13, <2>1, <2>2, <2>5
    <3>2. QED
      BY <1>6, <2>5, <3>1, ToldLater
  <2>6. QED
    BY <1>5, <2>3, <2>4, <2>5 DEF Done
<1>14. InTouch'
  BY <1>1, <1>2, <1>3, <1>12, <1>13 DEF InTouch
<1>15. QED
  BY <1>8, <1>9, <1>10, <1>14 DEF LsInv

-----------------------------------------------------------------------------
\* It holds at the start, and every step keeps it.
LEMMA ServerInitInv == ServerInit => LsInv
<1> SUFFICES ASSUME ServerInit PROVE LsInv
  OBVIOUS
<1>1. IsList(<<>>) /\ Len(<<>>) = 0 /\ DOMAIN <<>> = {} /\ RepliesRun(<<>>, 0, 0)
  <2>1. RepliesRun(<<>>, 0, 0)
    BY EmptyRuns
  <2>2. QED
    BY <2>1, EmptyPipe
<1>2. EndsTyped /\ Connection /\ InTurn /\ InTouch
  BY <1>1 DEF ServerInit, EndsTyped, Connection, Off, InTurn, InTouch, Closed
<1>3. QED
  BY <1>2 DEF LsInv

LEMMA ServerNextInv == LsInv /\ [ServerNext]_serverVars => LsInv'
<1> SUFFICES ASSUME LsInv, [ServerNext]_serverVars PROVE LsInv'
  OBVIOUS
<1>1. CASE UNCHANGED serverVars
  BY <1>1 DEF serverVars, server, user, LsInv, EndsTyped, Connection, Off, InTurn, InTouch
<1>2. CASE ServerNext
  <2>1. endsLine' = endsLine
    BY <1>2 DEF ServerNext, Start, Stop, Receive, Disconnect, Serve, SkipLine, ReadMessage,
                EndOfInput, Change, Question, user
  <2>2. SUFFICES ASSUME endsLine PROVE LsInv'
    BY <2>1 DEF LsInv
  <2>3. CASE Start
    BY <2>2, <2>3, StartKeeps
  <2>4. CASE Stop
    <3>1. /\ phase = "ready" /\ phase' = "stopping" /\ Ask("shutdown", Absent, Absent)
          /\ UNCHANGED <<closed, stdout, running, docs, shown, answers, editor, endsLine>>
      BY <2>4 DEF Stop, server, user
    <3>2. QED
      BY <2>2, <3>1, AskKeeps DEF Answered
  <2>5. CASE Receive
    <3>1. \/ Head(stdout).type = "diagnostics"
          \/ Head(stdout).type = "response"
      BY <2>5 DEF Receive
    <3>2. Head(stdout) = stdout[1]
      BY <2>2, <2>5, ReceiveHears
    <3>3. QED
      BY <2>2, <2>5, <3>1, <3>2, HearKeeps, AnswerKeeps
  <2>6. CASE Disconnect
    BY <2>2, <2>6, DisconnectKeeps
  <2>7. CASE Serve
    BY <2>2, <2>7, SkipKeeps, ReadKeeps, EndKeeps DEF Serve
  <2>8. ASSUME NEW d \in Docs, NEW t \in Sources,
               Change(d, "didOpen", <<t>>) \/ Change(d, "didChange", <<t>>)
        PROVE  LsInv'
    <3>1. Last(<<t>>) = t /\ <<t>>[1] = t /\ <<t>> # <<>>
      BY DEF Last
    <3>2. Tidy("didOpen", <<t>>) /\ Tidy("didChange", <<t>>)
      BY <3>1 DEF Tidy
    <3>3. QED
      BY <2>2, <2>8, <3>2, ChangeKeeps DEF Notices
  <2>9. ASSUME NEW d \in Docs, NEW t \in Sources, NEW u \in Sources, Change(d, "didChange", <<t, u>>)
        PROVE  LsInv'
    <3>1. Last(<<t, u>>) = u
      BY DEF Last
    <3>2. Tidy("didChange", <<t, u>>)
      BY <3>1 DEF Tidy
    <3>3. QED
      BY <2>2, <2>9, <3>2, ChangeKeeps DEF Notices
  <2>10. ASSUME NEW d \in Docs, Change(d, "didChange", <<>>) \/ Change(d, "didClose", <<>>)
         PROVE  LsInv'
    <3>1. Tidy("didChange", <<>>) /\ Tidy("didClose", <<>>)
      BY DEF Tidy
    <3>2. QED
      BY <2>2, <2>10, <3>1, ChangeKeeps DEF Notices
  <2>11. ASSUME NEW d \in Docs, NEW method \in Questions, NEW cursor \in Cursors,
                Question(method, d, cursor)
         PROVE  LsInv'
    <3>1. /\ phase = "ready" /\ phase' = "ready" /\ Ask(method, d, cursor)
          /\ UNCHANGED <<closed, stdout, running, docs, shown, answers, editor, endsLine>>
      BY <2>11 DEF Question, server
    <3>2. method \in Answered \ {"initialize"}
      BY DEF Questions, Answered
    <3>3. QED
      BY <2>2, <3>1, <3>2, AskKeeps
  <2>12. QED
    BY <1>2, <2>3, <2>4, <2>5, <2>6, <2>7, <2>8, <2>9, <2>10, <2>11 DEF ServerNext
<1>3. QED
  BY <1>1, <1>2

(* Once all is read, the server has the texts of the editor, the user sees   *)
(* the diagnostics of the texts they see, and every request was answered     *)
(* once and in its turn (main, open, change, close and collect_errors_to_    *)
(* diags of lsp/src/main.rs).                                                *)
THEOREM EditorUpToDate == ServerSpec => []SettledMeansCurrent
<1>1. LsInv => SettledMeansCurrent
  <2> SUFFICES ASSUME LsInv, Settled PROVE
         /\ docs = editor
         /\ \A d \in Docs : editor[d] # Absent => shown[d] = Diagnosis[editor[d]]
         /\ [n \in DOMAIN answers |-> answers[n].id] = [n \in DOMAIN requests |-> n]
    BY DEF SettledMeansCurrent
  <2>1. /\ EndsTyped /\ InTurn /\ InTouch
        /\ running /\ phase = "ready" /\ stdin = <<>> /\ stdout = <<>>
    BY DEF LsInv, Settled
  <2>2. \A d \in Docs : docs[d] = editor[d]
    <3> TAKE d \in Docs
    <3>1. Comes(<<>>, d, Wish("ready", editor, d), docs[d])
      BY <2>1 DEF InTouch
    <3>2. QED
      BY <3>1, EmptyPipe DEF Comes, Wish
  <2>3. docs = editor
    BY <2>1, <2>2 DEF EndsTyped
  <2>4. \A d \in Docs : docs[d] # Absent => shown[d] = Diagnosis[docs[d]]
    <3> TAKE d \in Docs
    <3> HAVE docs[d] # Absent
    <3>1. Told(<<>>, d, Diagnosis[docs[d]], shown[d])
      BY <2>1 DEF InTouch
    <3>2. QED
      BY <3>1, EmptyPipe DEF Told
  <2>5. PICK b \in Len(answers)..Len(requests) :
          RepliesRun(<<>>, Len(answers), b) /\ AsksRun(<<>>, b, Len(requests))
    BY <2>1 DEF InTurn
  <2>6. /\ Len(answers) \in Nat /\ DOMAIN answers = 1..Len(answers)
        /\ Len(requests) \in Nat /\ DOMAIN requests = 1..Len(requests)
    BY <2>1, ListSize DEF EndsTyped
  <2>7. b \in Nat /\ Len(answers) <= b /\ b <= Len(requests)
    BY <2>5, <2>6
  <2>8. Len(answers) = b /\ b = Len(requests)
    BY <2>5, <2>6, <2>7, EmptyRuns
  <2>9. [n \in DOMAIN answers |-> answers[n].id] = [n \in DOMAIN requests |-> n]
    BY <2>1, <2>6, <2>8 DEF InTurn
  <2>10. QED
    BY <2>3, <2>4, <2>9
<1>2. QED
  BY <1>1, ServerInitInv, ServerNextInv, PTL DEF ServerSpec

-----------------------------------------------------------------------------
(* An editor that frames its messages by their length alone.  The server     *)
(* reads the header of the first and then waits for the end of a line, the   *)
(* editor for the answer: what is left is the body, and it stays.            *)
\* A message, and what is left of it without its header.
Headed(pipe) ==
  /\ IsList(pipe) /\ Len(pipe) = 3
  /\ pipe[1] = Header /\ pipe[2] = End /\ pipe[3].piece = "body"
Headless(pipe) == IsList(pipe) /\ Len(pipe) = 1 /\ pipe[1].piece = "body"
Stuck ==
  /\ answers = <<>> /\ docs = Closed /\ stdout = <<>> /\ closed = FALSE
  /\ \/ phase = "off" /\ ~running /\ stdin = <<>>
     \/ phase = "waiting" /\ running /\ (Headed(stdin) \/ Headless(stdin))
StuckInv == ~endsLine => Stuck

\* Of a message without a line end the header is read, and it is no message;
\* in the body there is no line.
LEMMA BodyWaits ==
  ASSUME closed = FALSE, Headed(stdin) \/ Headless(stdin), HasLine
  PROVE  ~IsMessage /\ Headless(RestOfInput)
<1> DEFINE I == {i \in 1..Len(stdin) : stdin[i].piece = "end"}
<1>1. LineEnd = IF I # {} THEN Min(I) ELSE 0
  BY DEF LineEnd, SelectInSeq
<1>2. Header.piece = "header" /\ End.piece = "end"
  BY DEF Header, End
<1>3. ~Headless(stdin)
  <2>1. SUFFICES ASSUME Headless(stdin) PROVE FALSE
    OBVIOUS
  <2>2. I = {}
    BY <2>1 DEF Headless
  <2>3. QED
    BY <1>1, <2>2 DEF HasLine
<1>4. /\ IsList(stdin) /\ Len(stdin) = 3 /\ 1 \in 1..3 /\ 2 \in 1..3
      /\ stdin[1] = Header /\ stdin[2] = End /\ stdin[3].piece = "body"
  BY <1>3 DEF Headed
<1>5. 2 \in I /\ \A i \in I : i = 2
  BY <1>2, <1>4
<1>6. Min(I) = 2
  BY <1>5 DEF Min
<1>7. LineEnd = 2
  BY <1>1, <1>5, <1>6
<1>8. NextLine = SubSeq(stdin, 1, 1) /\ RestOfInput = SubSeq(stdin, 2 + 1, Len(stdin))
  BY <1>7 DEF NextLine, RestOfInput
<1>9. NextLine[1] = Header
  BY <1>4, <1>8 DEF IsList
<1>10. Drops(RestOfInput, stdin, 2)
  BY <1>4, <1>8, 2 \in Nat, 2 <= 3, RestDrops
<1>11. Headless(RestOfInput)
  BY <1>4, <1>10 DEF Drops, Headless
<1>12. QED
  BY <1>2, <1>9, <1>11 DEF IsMessage

\* Nothing else can be done.
LEMMA StuckStays ==
  ASSUME Stuck, ~endsLine, ServerNext
  PROVE  Stuck'
<1>1. CASE Start
  <2>1. PICK m : stdin' = stdin \o Framed(m)
    BY <1>1 DEF Start, Ask
  <2>2. stdin' = <<>> \o (<<Header, End, Body(m)>> \o <<>>)
    BY <1>1, <2>1 DEF Stuck, Start, Framed, Header, Body
  <2>3. Headed(stdin')
    <3> DEFINE S == {Header, End, Body(m)}
               p == <<Header, End, Body(m)>>
               q == <<>> \o (p \o <<>>)
    <3>1. p \in Seq(S) /\ <<>> \in Seq(S) /\ Len(p) = 3 /\ Len(<<>>) = 0
      OBVIOUS
    <3>2. p[1] = Header /\ p[2] = End /\ p[3].piece = "body"
      BY DEF Body
    <3> HIDE DEF S, p
    <3>3. q \in Seq(S) /\ Len(q) = 3 /\ \A i \in 1..3 : q[i] = p[i]
      BY <3>1
    <3>4. 1 \in 1..3 /\ 2 \in 1..3 /\ 3 \in 1..3
      OBVIOUS
    <3> HIDE DEF q
    <3>5. Headed(q)
      BY <3>2, <3>3, <3>4, ListOf DEF Headed
    <3>6. QED
      BY <2>2, <3>5 DEF p, q
  <2>4. QED
    BY <1>1, <2>3 DEF Stuck, Start
<1>2. CASE SkipLine \/ ReadMessage
  <2>1. running /\ HasLine /\ stdin' = RestOfInput
    BY <1>2 DEF SkipLine, ReadMessage
  <2>2. ~IsMessage /\ Headless(stdin')
    BY <2>1, BodyWaits DEF Stuck
  <2>3. SkipLine
    BY <1>2, <2>2 DEF ReadMessage
  <2>4. QED
    BY <2>1, <2>2, <2>3 DEF SkipLine, Stuck, server, user
<1>3. CASE Stop \/ Receive \/ Disconnect \/ EndOfInput
  BY <1>3 DEF Stop, Receive, Disconnect, EndOfInput, Stuck
<1>4. ASSUME NEW d, NEW method, NEW texts, Change(d, method, texts)
      PROVE  Stuck'
  BY <1>4 DEF Change, Stuck, server
<1>5. ASSUME NEW d, NEW method, NEW cursor, Question(method, d, cursor)
      PROVE  Stuck'
  BY <1>5 DEF Question, Stuck
<1>6. QED
  BY <1>1, <1>2, <1>3, <1>4, <1>5 DEF ServerNext, Serve

(* Of an editor that does not end its messages with a line end, as the       *)
(* protocol has it, the server reads no message and answers none: lines() in *)
(* main waits for an end that does not come.                                 *)
THEOREM UnendedWaits == ServerSpec => []UnendedIsUnread
<1>1. ServerInit => StuckInv
  BY DEF ServerInit, StuckInv, Stuck
<1>2. StuckInv /\ [ServerNext]_serverVars => StuckInv'
  <2> SUFFICES ASSUME StuckInv, [ServerNext]_serverVars PROVE StuckInv'
    OBVIOUS
  <2>1. CASE UNCHANGED serverVars
    BY <2>1 DEF serverVars, server, user, StuckInv, Stuck
  <2>2. CASE ServerNext
    <3>1. endsLine' = endsLine
      BY <2>2 DEF ServerNext, Start, Stop, Receive, Disconnect, Serve, SkipLine, ReadMessage,
                  EndOfInput, Change, Question, user
    <3>2. QED
      BY <2>2, <3>1, StuckStays DEF StuckInv
  <2>3. QED
    BY <2>1, <2>2
<1>3. StuckInv => UnendedIsUnread
  BY DEF StuckInv, Stuck, UnendedIsUnread
<1>4. QED
  BY <1>1, <1>2, <1>3, PTL DEF ServerSpec

-----------------------------------------------------------------------------
(* The modules, for any finite graphs.  What a walk relies on is said of the *)
(* graph, the calls on its path and the modules it has left; which those are *)
(* only the loader remembers, so of has_cycle it is said that there are some. *)
\* Nothing in F can be part of a cycle within F.
Untangled(g, F) == \A R \in SUBSET F : R # {} => \E m \in R : Uses(g, m) \cap R = {}
Calls == [module : Nat, past : Nat]
PathOf(st) == {st[i].module : i \in DOMAIN st}
\* The calls of a walk are of different modules, each the one the call below is at.
Chained(g, st) ==
  /\ \A i, j \in DOMAIN st : st[i].module = st[j].module => i = j
  /\ \A i \in DOMAIN st : st[i].past <= Len(Deps(g, st[i].module))
  /\ \A i \in DOMAIN st : i < Len(st) =>
       st[i].past > 0 /\ st[i + 1].module = Deps(g, st[i].module)[st[i].past]
\* What is seen is left for good or on the path, and what was passed is seen; a
\* module is walked again only where has_cycle starts.
Walked(g, st, sn, F) ==
  /\ sn = F \cup PathOf(st)
  /\ \A x \in F : Uses(g, x) \subseteq sn
  /\ \A i \in DOMAIN st : \A j \in 1..st[i].past : Deps(g, st[i].module)[j] \in sn
  /\ F \cap PathOf(st) # {} => Len(st) = 1
\* As long as no cycle was met: what was left uses nothing on the path.
Sound(g, st, F) ==
  /\ Complete(g, F) /\ Untangled(g, F)
  /\ \A i \in DOMAIN st : \A j \in 1..st[i].past :
       Deps(g, st[i].module)[j] \in F \/ (i < Len(st) /\ j = st[i].past)

LEMMA DepsTyped ==
  ASSUME NEW g, IsGraph(g), NEW m
  PROVE  /\ Deps(g, m) \in Seq(Nat)
         /\ Uses(g, m) \subseteq Nat
         /\ \A d : d \in Uses(g, m) <=> \E j \in 1..Len(Deps(g, m)) : Deps(g, m)[j] = d
         /\ Uses(g, m) # {} => m \in DOMAIN g
<1>1. Deps(g, m) \in Seq(Nat)
  BY DEF IsGraph, Deps
<1>2. DOMAIN Deps(g, m) = 1..Len(Deps(g, m)) /\ \A j \in 1..Len(Deps(g, m)) : Deps(g, m)[j] \in Nat
  BY <1>1
<1>3. \A d : d \in Uses(g, m) <=> \E j \in 1..Len(Deps(g, m)) : Deps(g, m)[j] = d
  BY <1>2 DEF Uses, Range
<1>4. m \notin DOMAIN g => Uses(g, m) = {}
  BY DEF Uses, Range, Deps
<1>5. QED
  BY <1>1, <1>2, <1>3, <1>4

\* Where all that a module uses can be loaded, so can the module.
LEMMA OneMore ==
  ASSUME NEW g, NEW F, NEW m, Complete(g, F), Untangled(g, F), Uses(g, m) \subseteq F
  PROVE  Complete(g, F \cup {m}) /\ Untangled(g, F \cup {m})
<1>1. Complete(g, F \cup {m})
  BY DEF Complete
<1>2. ASSUME NEW R \in SUBSET (F \cup {m}), R # {}, \A x \in R : Uses(g, x) \cap R # {}
      PROVE  FALSE
  <2>1. CASE m \in F
    <3>1. R \in SUBSET F
      BY <2>1
    <3>2. QED
      BY <1>2, <3>1 DEF Untangled
  <2>2. CASE m \notin F
    <3>1. \A x \in R \ {m} : Uses(g, x) \cap (R \ {m}) # {}
      BY <1>2, <2>2 DEF Complete
    <3>2. R \ {m} # {}
      BY <1>2, <2>2
    <3>3. R \ {m} \in SUBSET F
      OBVIOUS
    <3>4. QED
      BY <3>1, <3>2, <3>3 DEF Untangled
  <2>3. QED
    BY <2>1, <2>2
<1>3. QED
  BY <1>1, <1>2 DEF Untangled

\* An empty module of a name that is not loaded changes nothing that is used.
LEMMA LoadedSame ==
  ASSUME NEW g, IsGraph(g), NEW m \in Nat,
         NEW h, h = [d \in DOMAIN g \cup {m} |-> Deps(g, d)]
  PROVE  /\ IsGraph(h)
         /\ \A x : Deps(h, x) = Deps(g, x)
         /\ \A x : Uses(h, x) = Uses(g, x)
         /\ Cyclic(h) <=> Cyclic(g)
<1>1. DOMAIN h = DOMAIN g \cup {m}
  OBVIOUS
<1>2. \A x : Deps(h, x) = Deps(g, x)
  BY DEF Deps
<1>3. \A x : Uses(h, x) = Uses(g, x)
  BY <1>2 DEF Uses
<1>4. IsGraph(h)
  <2>1. IsFiniteSet(DOMAIN h)
    BY <1>1, FS_AddElement DEF IsGraph
  <2>2. h \in [DOMAIN h -> Seq(Nat)]
    BY DepsTyped
  <2>3. QED
    BY <1>1, <2>1, <2>2 DEF IsGraph
<1>5. ASSUME Cyclic(h)
      PROVE  Cyclic(g)
  <2>1. PICK R \in SUBSET DOMAIN h : R # {} /\ \A x \in R : Uses(h, x) \cap R # {}
    BY <1>5 DEF Cyclic
  <2>2. \A x \in R : Uses(g, x) \cap R # {}
    BY <2>1, <1>3, Zenon
  <2>3. \A x \in R : x \in DOMAIN g
    BY <2>2, DepsTyped
  <2>4. R \in SUBSET DOMAIN g
    BY <2>3
  <2>5. QED
    BY <2>1, <2>2, <2>4, Zenon DEF Cyclic
<1>6. ASSUME Cyclic(g)
      PROVE  Cyclic(h)
  <2>1. PICK R \in SUBSET DOMAIN g : R # {} /\ \A x \in R : Uses(g, x) \cap R # {}
    BY <1>6 DEF Cyclic
  <2>2. \A x \in R : Uses(h, x) \cap R # {}
    BY <2>1, <1>3, Zenon
  <2>3. R \in SUBSET DOMAIN h
    BY <1>1
  <2>4. QED
    BY <2>1, <2>2, <2>3, Zenon DEF Cyclic
<1>7. QED
  BY <1>2, <1>3, <1>4, <1>5, <1>6

LEMMA CallTyped ==
  ASSUME NEW st \in Seq(Calls), NEW i \in 1..Len(st)
  PROVE  st[i].module \in Nat /\ st[i].past \in Nat
<1>1. st[i] \in Calls
  OBVIOUS
<1>2. QED
  BY <1>1 DEF Calls

\* A name on the path closes a cycle: from its call on, each uses the next, and
\* the last uses it.
LEMMA LoopIsCycle ==
  ASSUME NEW g, IsGraph(g), NEW st \in Seq(Calls), Chained(g, st), Len(st) > 0,
         NEW d \in Uses(g, st[Len(st)].module), d \in PathOf(st)
  PROVE  Cyclic(g)
<1>1. PICK k \in 1..Len(st) : st[k].module = d
  BY DEF PathOf
<1> DEFINE R == {st[i].module : i \in k..Len(st)}
<1>2. \A i \in k..Len(st) : i \in 1..Len(st)
  OBVIOUS
<1>3. d \in R
  BY <1>1
<1>4. ASSUME NEW i \in k..Len(st)
      PROVE  Uses(g, st[i].module) \cap R # {}
  <2>1. CASE i = Len(st)
    BY <2>1, <1>3
  <2>2. CASE i < Len(st)
    <3>1. i \in 1..Len(st) /\ i + 1 \in k..Len(st)
      BY <2>2
    <3>2. st[i] \in Calls
      BY <3>1
    <3>3. st[i].past > 0 /\ st[i].past <= Len(Deps(g, st[i].module)) /\ st[i].past \in Nat
      BY <2>2, <3>1, <3>2 DEF Chained, Calls
    <3>4. st[i + 1].module = Deps(g, st[i].module)[st[i].past]
      BY <2>2, <3>1 DEF Chained
    <3>5. Len(Deps(g, st[i].module)) \in Nat
      BY DepsTyped
    <3>6. st[i].past \in 1..Len(Deps(g, st[i].module))
      BY <3>3, <3>5
    <3>7. st[i + 1].module \in Uses(g, st[i].module)
      BY <3>4, <3>6, DepsTyped
    <3>8. st[i + 1].module \in R
      BY <3>1
    <3>9. QED
      BY <3>7, <3>8
  <2>3. QED
    BY <2>1, <2>2
<1>5. \A x \in R : Uses(g, x) \cap R # {}
  BY <1>4
<1> HIDE DEF R
<1>6. \A x \in R : Uses(g, x) # {}
  BY <1>5
<1>7. R \in SUBSET DOMAIN g
  BY <1>6, DepsTyped
<1>8. QED
  BY <1>3, <1>5, <1>7, Zenon DEF Cyclic

\* The call at the top one name further, what is then at hand.
PassedOf(st) == [st EXCEPT ![Len(st)].past = @ + 1]
NextOf(g, st) == Deps(g, st[Len(st)].module)[st[Len(st)].past + 1]
Unfinished(g, st) == Len(st) > 0 /\ st[Len(st)].past < Len(Deps(g, st[Len(st)].module))

LEMMA NextUsed ==
  ASSUME NEW g, IsGraph(g), NEW st \in Seq(Calls), Unfinished(g, st)
  PROVE  NextOf(g, st) \in Nat /\ NextOf(g, st) \in Uses(g, st[Len(st)].module)
<1>1. Len(st) \in 1..Len(st)
  BY DEF Unfinished
<1>2. st[Len(st)].past \in Nat
  BY <1>1, CallTyped
<1>3. Len(Deps(g, st[Len(st)].module)) \in Nat
  BY DepsTyped
<1>4. st[Len(st)].past + 1 \in 1..Len(Deps(g, st[Len(st)].module))
  BY <1>2, <1>3 DEF Unfinished
<1>5. QED
  BY <1>4, DepsTyped DEF NextOf

LEMMA PassedIs ==
  ASSUME NEW st \in Seq(Calls), Len(st) > 0
  PROVE  /\ PassedOf(st) \in Seq(Calls)
         /\ Len(PassedOf(st)) = Len(st)
         /\ \A i \in 1..Len(st) :
              /\ PassedOf(st)[i].module = st[i].module
              /\ PassedOf(st)[i].past = IF i = Len(st) THEN st[i].past + 1 ELSE st[i].past
         /\ PathOf(PassedOf(st)) = PathOf(st)
<1>1. Len(st) \in 1..Len(st) /\ DOMAIN st = 1..Len(st) /\ \A i \in 1..Len(st) : st[i] \in Calls
  OBVIOUS
<1>2. PassedOf(st) = [i \in 1..Len(st) |-> IF i = Len(st) THEN [st[i] EXCEPT !.past = @ + 1] ELSE st[i]]
  BY <1>1 DEF PassedOf
<1>3. \A i \in 1..Len(st) : [st[i] EXCEPT !.past = @ + 1] \in Calls
                            /\ [st[i] EXCEPT !.past = @ + 1].module = st[i].module
                            /\ [st[i] EXCEPT !.past = @ + 1].past = st[i].past + 1
  BY <1>1 DEF Calls
<1>4. PassedOf(st) \in [1..Len(st) -> Calls]
  BY <1>1, <1>2, <1>3
<1>5. PassedOf(st) \in Seq(Calls) /\ Len(PassedOf(st)) = Len(st)
  BY <1>4
<1>6. \A i \in 1..Len(st) :
        /\ PassedOf(st)[i].module = st[i].module
        /\ PassedOf(st)[i].past = IF i = Len(st) THEN st[i].past + 1 ELSE st[i].past
  BY <1>1, <1>2, <1>3
<1>7. PathOf(PassedOf(st)) = PathOf(st)
  BY <1>1, <1>4, <1>6 DEF PathOf
<1>8. QED
  BY <1>5, <1>6, <1>7

LEMMA PassedChained ==
  ASSUME NEW g, IsGraph(g), NEW st \in Seq(Calls), Unfinished(g, st), Chained(g, st)
  PROVE  /\ \A i, j \in 1..Len(st) : PassedOf(st)[i].module = PassedOf(st)[j].module => i = j
         /\ \A i \in 1..Len(st) : PassedOf(st)[i].past <= Len(Deps(g, PassedOf(st)[i].module))
         /\ \A i \in 1..Len(st) : i < Len(st) =>
              PassedOf(st)[i].past > 0
              /\ PassedOf(st)[i + 1].module = Deps(g, PassedOf(st)[i].module)[PassedOf(st)[i].past]
         /\ Chained(g, PassedOf(st))
<1>1. DOMAIN st = 1..Len(st) /\ Len(st) > 0
  BY DEF Unfinished
<1>2. \A i, j \in 1..Len(st) : PassedOf(st)[i].module = PassedOf(st)[j].module => i = j
  BY <1>1, PassedIs DEF Chained
<1>3. ASSUME NEW i \in 1..Len(st)
      PROVE  PassedOf(st)[i].past <= Len(Deps(g, PassedOf(st)[i].module))
  <2>1. st[i].past \in Nat /\ Len(Deps(g, st[i].module)) \in Nat
    BY DepsTyped, CallTyped
  <2>2. st[i].past <= Len(Deps(g, st[i].module))
    BY <1>1 DEF Chained
  <2>3. PassedOf(st)[i].module = st[i].module
        /\ PassedOf(st)[i].past = IF i = Len(st) THEN st[i].past + 1 ELSE st[i].past
    BY <1>1, PassedIs
  <2>4. i = Len(st) => st[i].past < Len(Deps(g, st[i].module))
    BY DEF Unfinished
  <2>5. QED
    BY <2>1, <2>2, <2>3, <2>4
<1>4. ASSUME NEW i \in 1..Len(st), i < Len(st)
      PROVE  PassedOf(st)[i].past > 0
             /\ PassedOf(st)[i + 1].module = Deps(g, PassedOf(st)[i].module)[PassedOf(st)[i].past]
  <2>1. i + 1 \in 1..Len(st)
    BY <1>4
  <2>2. PassedOf(st)[i].module = st[i].module /\ PassedOf(st)[i].past = st[i].past
        /\ PassedOf(st)[i + 1].module = st[i + 1].module
    BY <1>1, <1>4, <2>1, PassedIs
  <2>3. QED
    BY <1>1, <1>4, <2>2 DEF Chained
<1>5. DOMAIN PassedOf(st) = 1..Len(st) /\ Len(PassedOf(st)) = Len(st)
  BY <1>1, PassedIs
<1>6. Chained(g, PassedOf(st))
  BY <1>2, <1>3, <1>4, <1>5 DEF Chained
<1>7. QED
  BY <1>2, <1>3, <1>4, <1>6

\* A name that was seen is passed.
LEMMA PassWalks ==
  ASSUME NEW g, IsGraph(g), NEW st \in Seq(Calls), Unfinished(g, st), Chained(g, st),
         NEW sn, NEW F, Walked(g, st, sn, F), NextOf(g, st) \in sn
  PROVE  /\ Walked(g, PassedOf(st), sn, F)
         /\ Sound(g, st, F) /\ NextOf(g, st) \notin PathOf(st) => Sound(g, PassedOf(st), F)
<1> DEFINE new == PassedOf(st)
<1>1. DOMAIN st = 1..Len(st) /\ Len(st) > 0 /\ Len(st) \in 1..Len(st) /\ Len(st) \in Nat
  BY DEF Unfinished
<1>2. new \in Seq(Calls) /\ Len(new) = Len(st) /\ DOMAIN new = 1..Len(st) /\ PathOf(new) = PathOf(st)
  BY <1>1, PassedIs
<1> HIDE DEF new
<1>3. ASSUME NEW i \in 1..Len(st), NEW j \in 1..new[i].past
      PROVE  /\ j \in Nat /\ new[i].module = st[i].module
             /\ \/ j \in 1..st[i].past /\ (i < Len(st) => new[i].past = st[i].past)
                \/ i = Len(st) /\ Deps(g, st[i].module)[j] = NextOf(g, st)
  <2>1. new[i].module = st[i].module /\ new[i].past = IF i = Len(st) THEN st[i].past + 1 ELSE st[i].past
    BY <1>1, PassedIs DEF new
  <2>2. st[i].past \in Nat
    BY CallTyped
  <2>3. j \in Nat /\ j >= 1 /\ j <= new[i].past
    <3>1. new[i].past \in Nat
      BY <2>1, <2>2
    <3>2. QED
      BY <1>3, <3>1
  <2>4. CASE i < Len(st)
    BY <2>1, <2>2, <2>3, <2>4
  <2>5. CASE i = Len(st) /\ j <= st[i].past
    BY <2>1, <2>2, <2>3, <2>5
  <2>6. CASE i = Len(st) /\ j = st[i].past + 1
    BY <2>1, <2>3, <2>6 DEF NextOf
  <2>7. QED
    BY <2>1, <2>2, <2>3, <2>4, <2>5, <2>6
<1>4. Walked(g, new, sn, F)
  <2>1. \A i \in DOMAIN new : \A j \in 1..new[i].past : Deps(g, new[i].module)[j] \in sn
    BY <1>1, <1>2, <1>3 DEF Walked
  <2>2. QED
    BY <1>2, <2>1 DEF Walked
<1>5. ASSUME Sound(g, st, F), NextOf(g, st) \notin PathOf(st)
      PROVE  Sound(g, new, F)
  <2>1. NextOf(g, st) \in F
    BY <1>5 DEF Walked
  <2>2. ASSUME NEW i \in 1..Len(st), NEW j \in 1..new[i].past
        PROVE  Deps(g, new[i].module)[j] \in F \/ (i < Len(st) /\ j = new[i].past)
    <3>1. CASE i = Len(st) /\ Deps(g, st[i].module)[j] = NextOf(g, st)
      BY <3>1, <2>1, <2>2, <1>3
    <3>2. CASE j \in 1..st[i].past /\ (i < Len(st) => new[i].past = st[i].past)
      <4>1. Deps(g, st[i].module)[j] \in F \/ (i < Len(st) /\ j = st[i].past)
        BY <1>1, <1>5, <3>2 DEF Sound
      <4>2. QED
        BY <4>1, <3>2, <2>2, <1>3
    <3>3. QED
      BY <3>1, <3>2, <2>2, <1>3
  <2>3. QED
    BY <1>1, <1>2, <1>5, <2>2 DEF Sound
<1>6. QED
  BY <1>4, <1>5 DEF new

\* A call more on the path.
CallOf(d) == [module |-> d, past |-> 0]
LEMMA CalledIs ==
  ASSUME NEW st \in Seq(Calls), NEW d \in Nat
  PROVE  /\ Append(st, CallOf(d)) \in Seq(Calls)
         /\ Len(Append(st, CallOf(d))) = Len(st) + 1
         /\ \A i \in 1..Len(st) : Append(st, CallOf(d))[i] = st[i]
         /\ Append(st, CallOf(d))[Len(st) + 1].module = d
         /\ Append(st, CallOf(d))[Len(st) + 1].past = 0
         /\ PathOf(Append(st, CallOf(d))) = PathOf(st) \cup {d}
<1> DEFINE new == Append(st, CallOf(d))
<1>1. CallOf(d) \in Calls /\ CallOf(d).module = d /\ CallOf(d).past = 0
  BY DEF CallOf, Calls
<1>2. new \in Seq(Calls) /\ Len(new) = Len(st) + 1
  BY <1>1
<1>3. (\A i \in 1..Len(st) : new[i] = st[i]) /\ new[Len(st) + 1] = CallOf(d)
  BY <1>1
<1>4. DOMAIN new = 1..(Len(st) + 1) /\ DOMAIN st = 1..Len(st) /\ Len(st) \in Nat
  BY <1>2
<1> HIDE DEF new
<1>5. PathOf(new) \subseteq PathOf(st) \cup {d}
  <2>1. ASSUME NEW i \in 1..(Len(st) + 1)
        PROVE  new[i].module \in PathOf(st) \cup {d}
    <3>1. CASE i = Len(st) + 1
      BY <3>1, <1>1, <1>3
    <3>2. CASE i \in 1..Len(st)
      BY <3>2, <1>3, <1>4 DEF PathOf
    <3>3. QED
      BY <3>1, <3>2, <1>4
  <2>2. QED
    BY <2>1, <1>4 DEF PathOf
<1>6. PathOf(st) \cup {d} \subseteq PathOf(new)
  <2>1. \A i \in 1..Len(st) : st[i].module \in PathOf(new)
    BY <1>3, <1>4 DEF PathOf
  <2>2. Len(st) + 1 \in DOMAIN new
    BY <1>4
  <2>3. d \in PathOf(new)
    BY <2>2, <1>1, <1>3 DEF PathOf
  <2>4. QED
    BY <2>1, <2>3, <1>4 DEF PathOf
<1>7. QED
  BY <1>1, <1>2, <1>3, <1>5, <1>6 DEF new

\* A name that was not seen is walked: it is the next on the path, and was not
\* walked before, since where a module is walked again its names are seen.
LEMMA DescendWalks ==
  ASSUME NEW g, IsGraph(g), NEW st \in Seq(Calls), Unfinished(g, st), Chained(g, st),
         NEW sn, NEW F, Walked(g, st, sn, F), NextOf(g, st) \notin sn
  PROVE  /\ Append(PassedOf(st), CallOf(NextOf(g, st))) \in Seq(Calls)
         /\ PathOf(Append(PassedOf(st), CallOf(NextOf(g, st)))) = PathOf(st) \cup {NextOf(g, st)}
         /\ Chained(g, Append(PassedOf(st), CallOf(NextOf(g, st))))
         /\ Walked(g, Append(PassedOf(st), CallOf(NextOf(g, st))), sn \cup {NextOf(g, st)}, F)
         /\ Sound(g, st, F) => Sound(g, Append(PassedOf(st), CallOf(NextOf(g, st))), F)
<1> DEFINE d == NextOf(g, st)
           old == PassedOf(st)
           new == Append(old, CallOf(d))
           n == Len(st)
<1>1. n \in Nat /\ n > 0 /\ n \in 1..n /\ DOMAIN st = 1..n
  BY DEF Unfinished
<1>2. d \in Nat /\ d \in Uses(g, st[n].module)
  BY NextUsed
<1>3. old \in Seq(Calls) /\ Len(old) = n /\ PathOf(old) = PathOf(st) /\ DOMAIN old = 1..n
  BY <1>1, PassedIs
<1>4. /\ new \in Seq(Calls) /\ Len(new) = n + 1 /\ DOMAIN new = 1..(n + 1)
      /\ \A i \in 1..n : new[i] = old[i]
      /\ new[n + 1].module = d /\ new[n + 1].past = 0
      /\ PathOf(new) = PathOf(st) \cup {d}
  BY <1>2, <1>3, CalledIs
<1>5. /\ \A i \in 1..n : old[i].module = st[i].module
      /\ \A i \in 1..n : old[i].past = IF i = n THEN st[i].past + 1 ELSE st[i].past
      /\ \A i \in 1..n : st[i].past \in Nat
  BY <1>1, PassedIs, CallTyped
<1>6. st[n].past < Len(Deps(g, st[n].module))
  BY DEF Unfinished
<1>7. \A m : Len(Deps(g, m)) \in Nat
  BY DepsTyped
<1>8. d \notin sn /\ d \notin F /\ d \notin PathOf(st)
  BY DEF Walked
<1>9. old[n].past > 0 /\ d = Deps(g, old[n].module)[old[n].past]
  <2>1. old[n].past = st[n].past + 1 /\ old[n].module = st[n].module /\ st[n].past \in Nat
    BY <1>1, <1>5
  <2> HIDE DEF old
  <2>2. QED
    BY <2>1 DEF NextOf
<1>10. Chained(g, old)
  BY PassedChained
<1> HIDE DEF new, old, d, n
<1>11. Chained(g, new)
  <2>1. ASSUME NEW i \in 1..(n + 1), NEW j \in 1..(n + 1), new[i].module = new[j].module
        PROVE  i = j
    <3>1. \A k \in 1..n : new[k].module # d
      BY <1>1, <1>4, <1>5, <1>8 DEF PathOf
    <3>2. CASE i \in 1..n /\ j \in 1..n
      BY <3>2, <2>1, <1>3, <1>4, <1>10 DEF Chained
    <3>3. CASE i = n + 1 \/ j = n + 1
      BY <3>1, <3>3, <2>1, <1>1, <1>4
    <3>4. QED
      BY <3>2, <3>3, <1>1
  <2>2. ASSUME NEW i \in 1..(n + 1)
        PROVE  new[i].past <= Len(Deps(g, new[i].module))
    <3>1. CASE i \in 1..n
      BY <3>1, <1>3, <1>4, <1>10 DEF Chained
    <3>2. CASE i = n + 1
      BY <3>2, <1>4, <1>7
    <3>3. QED
      BY <3>1, <3>2, <1>1
  <2>3. ASSUME NEW i \in 1..(n + 1), i < n + 1
        PROVE  new[i].past > 0 /\ new[i + 1].module = Deps(g, new[i].module)[new[i].past]
    <3>1. CASE i = n
      BY <3>1, <1>1, <1>4, <1>9, Zenon
    <3>2. CASE i < n
      <4>1. i \in 1..n /\ i + 1 \in 1..n
        BY <3>2, <1>1
      <4>2. QED
        BY <3>2, <4>1, <1>3, <1>4, <1>10 DEF Chained
    <3>3. QED
      BY <3>1, <3>2, <2>3, <1>1
  <2>4. QED
    BY <2>1, <2>2, <2>3, <1>4 DEF Chained
<1>12. ASSUME NEW i \in 1..(n + 1), NEW j \in 1..new[i].past
       PROVE  /\ i \in 1..n /\ j \in Nat /\ new[i].module = st[i].module
              /\ \/ j \in 1..st[i].past /\ (i < n => new[i].past = st[i].past)
                 \/ i = n /\ Deps(g, st[i].module)[j] = d /\ j = new[i].past
  <2>1. i \in 1..n
    BY <1>1, <1>4, <1>12
  <2>2. new[i].module = st[i].module /\ new[i].past = IF i = n THEN st[i].past + 1 ELSE st[i].past
    BY <2>1, <1>4, <1>5
  <2>3. st[i].past \in Nat
    BY <2>1, <1>5
  <2>4. j \in Nat /\ j >= 1 /\ j <= new[i].past
    <3>1. new[i].past \in Nat
      BY <2>2, <2>3
    <3>2. QED
      BY <1>12, <3>1
  <2>5. CASE i < n
    BY <2>1, <2>2, <2>3, <2>4, <2>5
  <2>6. CASE i = n /\ j <= st[i].past
    BY <2>1, <2>2, <2>3, <2>4, <2>6
  <2>7. CASE i = n /\ j = st[i].past + 1
    BY <2>1, <2>2, <2>4, <2>7 DEF NextOf, d, n
  <2>8. QED
    BY <2>1, <2>2, <2>3, <2>4, <2>5, <2>6, <2>7
<1>13. Walked(g, new, sn \cup {d}, F)
  <2>1. \A i \in DOMAIN new : \A j \in 1..new[i].past : Deps(g, new[i].module)[j] \in sn \cup {d}
    BY <1>1, <1>4, <1>12 DEF Walked
  <2>2. F \cap PathOf(new) = {}
    <3>1. CASE F \cap PathOf(st) = {}
      BY <3>1, <1>4, <1>8
    <3>2. CASE F \cap PathOf(st) # {}
      <4>1. n = 1
        BY <3>2 DEF Walked, n
      <4>2. st[n].module \in F
        BY <3>2, <4>1, <1>1 DEF PathOf
      <4>3. d \in sn
        BY <4>2, <1>2 DEF Walked
      <4>4. QED
        BY <4>3, <1>8
    <3>3. QED
      BY <3>1, <3>2
  <2>3. sn \cup {d} = F \cup PathOf(new)
    BY <1>4 DEF Walked
  <2>4. \A x \in F : Uses(g, x) \subseteq sn \cup {d}
    BY DEF Walked
  <2>5. QED
    BY <2>1, <2>2, <2>3, <2>4 DEF Walked
<1>14. ASSUME Sound(g, st, F)
       PROVE  Sound(g, new, F)
  <2>1. ASSUME NEW i \in 1..(n + 1), NEW j \in 1..new[i].past
        PROVE  Deps(g, new[i].module)[j] \in F \/ (i < n + 1 /\ j = new[i].past)
    <3>1. CASE i = n /\ Deps(g, st[i].module)[j] = d /\ j = new[i].past
      BY <3>1, <1>1
    <3>2. CASE j \in 1..st[i].past /\ (i < n => new[i].past = st[i].past)
      <4>1. i \in 1..n
        BY <2>1, <1>12
      <4>2. Deps(g, st[i].module)[j] \in F \/ (i < n /\ j = st[i].past)
        BY <1>1, <1>14, <3>2, <4>1 DEF Sound
      <4>3. QED
        BY <4>1, <4>2, <3>2, <2>1, <1>1, <1>12
    <3>3. QED
      BY <3>1, <3>2, <2>1, <1>12
  <2>2. QED
    BY <1>4, <1>14, <2>1 DEF Sound
<1>15. QED
  BY <1>4, <1>11, <1>13, <1>14 DEF new, old, d

LEMMA FromWalks ==
  ASSUME NEW g, IsGraph(g), NEW m \in Nat, NEW sn, NEW F, Walked(g, <<>>, sn, F)
  PROVE  /\ <<CallOf(m)>> \in Seq(Calls)
         /\ PathOf(<<CallOf(m)>>) = {m}
         /\ Append(<<>>, CallOf(m)) = <<CallOf(m)>>
         /\ Chained(g, <<CallOf(m)>>)
         /\ Walked(g, <<CallOf(m)>>, sn \cup {m}, F)
         /\ Sound(g, <<>>, F) => Sound(g, <<CallOf(m)>>, F)
<1> DEFINE new == <<CallOf(m)>>
<1>1. /\ new \in Seq(Calls) /\ Len(new) = 1 /\ DOMAIN new = {1}
      /\ new[1].module = m /\ new[1].past = 0
      /\ Append(<<>>, CallOf(m)) = new
  BY DEF CallOf, Calls
<1>2. PathOf(new) = {m}
  BY <1>1 DEF PathOf
<1>3. PathOf(<<>>) = {}
  BY DEF PathOf
<1>4. Len(Deps(g, m)) \in Nat
  BY DepsTyped
<1>5. 1..0 = {}
  OBVIOUS
<1> HIDE DEF new
<1>6. Chained(g, new)
  BY <1>1, <1>4 DEF Chained
<1>7. Walked(g, new, sn \cup {m}, F)
  BY <1>1, <1>2, <1>3, <1>5 DEF Walked
<1>8. Sound(g, <<>>, F) => Sound(g, new, F)
  BY <1>1, <1>5 DEF Sound
<1>9. QED
  BY <1>1, <1>2, <1>6, <1>7, <1>8 DEF new

\* The call at the top ends: its module is left, and all it uses was left before.
BelowOf(st) == SubSeq(st, 1, Len(st) - 1)
LEMMA LeaveWalks ==
  ASSUME NEW g, IsGraph(g), NEW st \in Seq(Calls), Len(st) > 0, Chained(g, st),
         st[Len(st)].past = Len(Deps(g, st[Len(st)].module)),
         NEW sn, NEW F, Walked(g, st, sn, F)
  PROVE  /\ BelowOf(st) \in Seq(Calls)
         /\ PathOf(BelowOf(st)) \subseteq PathOf(st) \ {st[Len(st)].module}
         /\ Chained(g, BelowOf(st))
         /\ Walked(g, BelowOf(st), sn, F \cup {st[Len(st)].module})
         /\ Sound(g, st, F) => /\ Sound(g, BelowOf(st), F \cup {st[Len(st)].module})
                               /\ Uses(g, st[Len(st)].module) \subseteq F
<1> DEFINE n == Len(st)
           m == st[n].module
           new == BelowOf(st)
<1>1. n \in Nat /\ n > 0 /\ n \in 1..n /\ DOMAIN st = 1..n /\ n - 1 \in Nat
  OBVIOUS
<1>2. /\ new \in Seq(Calls) /\ Len(new) = n - 1 /\ DOMAIN new = 1..(n - 1)
      /\ \A i \in 1..(n - 1) : new[i] = st[i]
  BY <1>1 DEF BelowOf
<1> HIDE DEF new, n
<1>3. \A i \in 1..(n - 1) : i \in 1..n /\ i < n /\ i # n
  BY <1>1
<1>4. \A i, j \in 1..n : st[i].module = st[j].module => i = j
  BY <1>1 DEF Chained
<1>5. m \in PathOf(st)
  BY <1>1 DEF PathOf
<1>6. Len(Deps(g, m)) \in Nat /\ st[n].past = Len(Deps(g, m))
  BY DepsTyped DEF n
<1>7. \A i \in 1..n : st[i].past \in Nat
  BY CallTyped DEF n
<1>8. PathOf(new) \subseteq PathOf(st) \ {m}
  <2>1. ASSUME NEW i \in 1..(n - 1)
        PROVE  new[i].module \in PathOf(st) \ {m}
    <3>1. i \in DOMAIN st
      BY <1>1, <1>3
    <3>2. st[i].module # m
      BY <1>1, <1>3, <1>4
    <3>3. QED
      BY <1>2, <3>1, <3>2 DEF PathOf
  <2>2. QED
    BY <2>1, <1>2 DEF PathOf
<1>9. PathOf(st) \subseteq PathOf(new) \cup {m}
  <2>1. ASSUME NEW i \in 1..n
        PROVE  st[i].module \in PathOf(new) \cup {m}
    <3>1. CASE i = n
      BY <3>1
    <3>2. CASE i \in 1..(n - 1)
      BY <3>2, <1>2 DEF PathOf
    <3>3. QED
      BY <3>1, <3>2, <1>1
  <2>2. QED
    BY <2>1, <1>1 DEF PathOf
<1>10. Chained(g, new)
  <2>1. \A i \in 1..(n - 1) : i < n - 1 => i + 1 \in 1..(n - 1)
    BY <1>1
  <2>2. ASSUME NEW i \in 1..(n - 1), i < n - 1
        PROVE  new[i].past > 0 /\ new[i + 1].module = Deps(g, new[i].module)[new[i].past]
    <3>1. new[i] = st[i] /\ new[i + 1] = st[i + 1]
      BY <1>2, <2>1, <2>2
    <3>2. i \in DOMAIN st /\ i < Len(st)
      BY <1>1, <1>3 DEF n
    <3>3. st[i].past > 0 /\ st[i + 1].module = Deps(g, st[i].module)[st[i].past]
      BY <3>2 DEF Chained
    <3>4. QED
      BY <3>1, <3>3
  <2>3. \A i, j \in 1..(n - 1) : new[i].module = new[j].module => i = j
    BY <1>2, <1>3, <1>4
  <2>4. \A i \in 1..(n - 1) : new[i].past <= Len(Deps(g, new[i].module))
    BY <1>1, <1>2, <1>3 DEF Chained
  <2>5. QED
    BY <1>2, <2>2, <2>3, <2>4 DEF Chained
<1>11. Walked(g, new, sn, F \cup {m})
  <2>1. sn = (F \cup {m}) \cup PathOf(new)
    BY <1>5, <1>8, <1>9 DEF Walked
  <2>2. Uses(g, m) \subseteq sn
    <3>1. ASSUME NEW d \in Uses(g, m)
          PROVE  d \in sn
      <4>1. PICK j \in 1..Len(Deps(g, m)) : Deps(g, m)[j] = d
        BY DepsTyped
      <4>2. j \in 1..st[n].past
        BY <1>6
      <4>3. QED
        BY <4>1, <4>2, <1>1 DEF Walked
    <3>2. QED
      BY <3>1
  <2>3. \A x \in F \cup {m} : Uses(g, x) \subseteq sn
    BY <2>2 DEF Walked
  <2>4. \A i \in DOMAIN new : \A j \in 1..new[i].past : Deps(g, new[i].module)[j] \in sn
    BY <1>1, <1>2, <1>3 DEF Walked
  <2>5. (F \cup {m}) \cap PathOf(new) = {}
    <3>1. CASE F \cap PathOf(st) = {}
      BY <3>1, <1>8
    <3>2. CASE F \cap PathOf(st) # {}
      <4>1. n = 1
        BY <3>2 DEF Walked, n
      <4>2. PathOf(new) = {}
        BY <4>1, <1>2 DEF PathOf
      <4>3. QED
        BY <4>2
    <3>3. QED
      BY <3>1, <3>2
  <2>6. QED
    BY <2>1, <2>3, <2>4, <2>5 DEF Walked
<1>12. ASSUME Sound(g, st, F)
       PROVE  Sound(g, new, F \cup {m}) /\ Uses(g, m) \subseteq F
  <2>1. Uses(g, m) \subseteq F
    <3>1. ASSUME NEW d \in Uses(g, m)
          PROVE  d \in F
      <4>1. PICK j \in 1..Len(Deps(g, m)) : Deps(g, m)[j] = d
        BY DepsTyped
      <4>2. j \in 1..st[n].past
        BY <1>6
      <4>3. Deps(g, m)[j] \in F \/ n < Len(st)
        BY <4>2, <1>1, <1>12 DEF Sound
      <4>4. QED
        BY <4>1, <4>3, <1>1 DEF n
    <3>2. QED
      BY <3>1
  <2>2. Complete(g, F \cup {m}) /\ Untangled(g, F \cup {m})
    BY <2>1, <1>12, OneMore DEF Sound
  <2>3. ASSUME NEW i \in 1..(n - 1), NEW j \in 1..new[i].past
        PROVE  Deps(g, new[i].module)[j] \in F \cup {m} \/ (i < n - 1 /\ j = new[i].past)
    <3>1. new[i] = st[i] /\ i \in 1..n /\ i < n
      BY <1>2, <1>3
    <3>2. Deps(g, st[i].module)[j] \in F \/ j = st[i].past
      BY <3>1, <2>3, <1>1, <1>12 DEF Sound
    <3>3. CASE i < n - 1
      BY <3>1, <3>2, <3>3
    <3>4. CASE i = n - 1 /\ j = st[i].past
      <4>1. i < Len(st) /\ i \in DOMAIN st
        BY <3>1, <1>1 DEF n
      <4>2. st[i + 1].module = Deps(g, st[i].module)[st[i].past]
        BY <4>1 DEF Chained
      <4>3. i + 1 = n
        BY <3>4, <1>1
      <4>4. Deps(g, st[i].module)[j] = m
        BY <4>2, <4>3, <3>4
      <4>5. QED
        BY <4>4, <3>1
    <3>5. QED
      BY <3>1, <3>2, <3>3, <3>4, <1>1
  <2>4. QED
    BY <1>2, <2>1, <2>2, <2>3 DEF Sound
<1>13. QED
  BY <1>2, <1>8, <1>10, <1>11, <1>12 DEF new, n

LEMMA SameWalk ==
  ASSUME NEW g, NEW h, \A x : Deps(h, x) = Deps(g, x), NEW st, NEW sn, NEW F, NEW os
  PROVE  /\ \A x : Uses(h, x) = Uses(g, x)
         /\ Chained(g, st) => Chained(h, st)
         /\ Walked(g, st, sn, F) => Walked(h, st, sn, F)
         /\ Sound(g, st, F) => Sound(h, st, F)
         /\ Complete(h, F) <=> Complete(g, F)
         /\ InOrder(g, os) => InOrder(h, os)
<1>1. \A x : Uses(h, x) = Uses(g, x)
  BY DEF Uses
<1>2. Chained(g, st) => Chained(h, st)
  BY DEF Chained
<1>3. Walked(g, st, sn, F) => Walked(h, st, sn, F)
  BY <1>1 DEF Walked
<1>4. Complete(h, F) <=> Complete(g, F)
  BY <1>1 DEF Complete
<1>5. Untangled(g, F) => Untangled(h, F)
  BY <1>1 DEF Untangled
<1>6. Sound(g, st, F) => Sound(h, st, F)
  BY <1>4, <1>5 DEF Sound
<1>7. InOrder(g, os) => InOrder(h, os)
  BY <1>1 DEF InOrder
<1>8. QED
  BY <1>1, <1>2, <1>3, <1>4, <1>6, <1>7

-----------------------------------------------------------------------------
(* The invariant: of has_cycle, what it has left is free of cycles until one *)
(* is found; of resolve_all, what is listed is what was left, in order unless *)
(* there is a cycle; of the sort, each module waits for what it uses of the  *)
(* modules not placed.                                                       *)
CheckingInv ==
  /\ Chained(graph, stack)
  /\ IF found THEN Cyclic(graph)
     ELSE /\ DOMAIN graph \subseteq todo \cup seen
          /\ \E F : Walked(graph, stack, seen, F) /\ Sound(graph, stack, F)
LoadingInv ==
  /\ ~found
  /\ Chained(graph, stack)
  /\ \/ todo = {root} /\ seen = {} /\ stack = <<>>
     \/ todo = {} /\ root \in seen
  /\ seen \subseteq DOMAIN graph
  /\ \A S \in SUBSET Nat : root \in S /\ Complete(graph, S) => seen \subseteq S
  /\ Range(order) \cap PathOf(stack) = {}
  /\ Walked(graph, stack, seen, Range(order))
  /\ Cyclic(graph) \/ (Sound(graph, stack, Range(order)) /\ InOrder(graph, order))
Sorting(g, deg, q, os) ==
  /\ Range(os) \subseteq DOMAIN g
  /\ deg \in [DOMAIN g -> Nat]
  /\ \A m \in DOMAIN g : deg[m] = Cardinality(Uses(g, m) \ Range(os))
  /\ q = {m \in DOMAIN g : deg[m] = 0} \ Range(os)
  /\ InOrder(g, os)
  /\ Complete(g, Range(os)) /\ Untangled(g, Range(os))
ModulesTypeOK ==
  /\ IsGraph(graph) /\ job \in {"check", "sort", "load"} /\ root \in Nat
  /\ todo \subseteq Nat /\ queue \subseteq Nat /\ order \in Seq(Nat)
  /\ stack \in Seq(Calls) /\ found \in BOOLEAN
ModulesInv ==
  /\ ModulesTypeOK
  /\ job = "check" => CheckingInv
  /\ job = "load" => LoadingInv
  /\ job = "sort" /\ Clean(graph) => Sorting(graph, degree, queue, order)

LEMMA Entered ==
  ASSUME ModulesTypeOK, NEW m \in Nat, NEW calls, Enter(m, calls)
  PROVE  /\ IsGraph(graph')
         /\ \A x : Deps(graph', x) = Deps(graph, x)
         /\ Cyclic(graph') <=> Cyclic(graph)
         /\ DOMAIN graph \subseteq DOMAIN graph'
         /\ job = "check" => graph' = graph
         /\ job = "load" => m \in DOMAIN graph'
         /\ seen' = seen \cup {m} /\ stack' = Append(calls, CallOf(m))
<1>1. seen' = seen \cup {m} /\ stack' = Append(calls, CallOf(m))
  BY DEF Enter, CallOf
<1>2. CASE job = "load" /\ m \notin DOMAIN graph
  <2>1. graph' = [d \in DOMAIN graph \cup {m} |-> Deps(graph, d)]
    BY <1>2 DEF Enter
  <2>2. IsGraph(graph') /\ (\A x : Deps(graph', x) = Deps(graph, x)) /\ (Cyclic(graph') <=> Cyclic(graph))
    <3>1. IsGraph(graph)
      BY DEF ModulesTypeOK
    <3>2. QED
      BY <2>1, <3>1, LoadedSame
  <2>3. DOMAIN graph' = DOMAIN graph \cup {m}
    BY <2>1
  <2>4. QED
    BY <1>1, <1>2, <2>2, <2>3
<1>3. CASE ~(job = "load" /\ m \notin DOMAIN graph)
  <2>1. graph' = graph
    BY <1>3 DEF Enter
  <2>2. QED
    BY <1>1, <1>3, <2>1 DEF ModulesTypeOK
<1>4. QED
  BY <1>2, <1>3

LEMMA FromKeeps ==
  ASSUME ModulesInv, NEW m \in todo, From(m)
  PROVE  ModulesInv'
<1>1. /\ job \in {"check", "load"} /\ ~found /\ stack = <<>> /\ m \in Nat
      /\ todo' = todo \ {m} /\ Enter(m, <<>>)
      /\ job' = job /\ root' = root /\ found' = found /\ order' = order /\ queue' = queue
      /\ ModulesTypeOK
  BY DEF From, Walking, ModulesInv, ModulesTypeOK, sortVars
<1>2. /\ IsGraph(graph') /\ (\A x : Deps(graph', x) = Deps(graph, x))
      /\ Cyclic(graph') <=> Cyclic(graph)
      /\ DOMAIN graph \subseteq DOMAIN graph'
      /\ job = "check" => graph' = graph
      /\ job = "load" => m \in DOMAIN graph'
      /\ seen' = seen \cup {m} /\ stack' = Append(<<>>, CallOf(m))
  BY <1>1, Entered
<1>3. IsGraph(graph)
  BY <1>1 DEF ModulesTypeOK
<1>4. PICK F : /\ Walked(graph, <<>>, seen, F)
               /\ job = "check" => Sound(graph, <<>>, F)
               /\ job = "load" => F = Range(order)
  BY <1>1 DEF ModulesInv, CheckingInv, LoadingInv
<1>5. /\ stack' \in Seq(Calls) /\ PathOf(stack') = {m} /\ Chained(graph, stack')
      /\ Walked(graph, stack', seen', F)
      /\ Sound(graph, <<>>, F) => Sound(graph, stack', F)
  <2>1. stack' = <<CallOf(m)>>
    BY <1>1, <1>2, <1>3, <1>4, FromWalks
  <2>2. seen' = seen \cup {m}
    BY <1>2
  <2>3. /\ <<CallOf(m)>> \in Seq(Calls) /\ PathOf(<<CallOf(m)>>) = {m} /\ Chained(graph, <<CallOf(m)>>)
        /\ Walked(graph, <<CallOf(m)>>, seen \cup {m}, F)
        /\ Sound(graph, <<>>, F) => Sound(graph, <<CallOf(m)>>, F)
    BY <1>1, <1>3, <1>4, FromWalks
  <2>4. QED
    BY <2>1, <2>2, <2>3, Zenon
<1>6. /\ Chained(graph', stack') /\ Walked(graph', stack', seen', F)
      /\ Sound(graph, <<>>, F) => Sound(graph', stack', F)
      /\ InOrder(graph, order) => InOrder(graph', order)
  BY <1>2, <1>5, SameWalk
<1>7. ModulesTypeOK'
  BY <1>1, <1>2, <1>5 DEF ModulesTypeOK
<1>8. CASE job = "check"
  <2>1. DOMAIN graph' \subseteq todo' \cup seen'
    BY <1>1, <1>2, <1>8 DEF ModulesInv, CheckingInv
  <2>2. CheckingInv'
    BY <2>1, <1>1, <1>4, <1>6, <1>8 DEF CheckingInv
  <2>3. QED
    BY <2>2, <1>1, <1>7, <1>8 DEF ModulesInv
<1>9. CASE job = "load"
  <2>1. LoadingInv
    BY <1>9 DEF ModulesInv
  <2>2. todo = {root} /\ seen = {} /\ m = root
    BY <2>1, <1>1 DEF LoadingInv
  <2>3. Range(order) = {} /\ F = Range(order)
    BY <2>2, <1>4, <1>9 DEF Walked
  <2>4. \A S \in SUBSET Nat : root' \in S /\ Complete(graph', S) => seen' \subseteq S
    BY <2>2, <1>1, <1>2
  <2>5. todo' = {} /\ root' \in seen' /\ seen' \subseteq DOMAIN graph'
    BY <2>2, <1>1, <1>2, <1>9
  <2>6. Cyclic(graph') \/ (Sound(graph', stack', Range(order)) /\ InOrder(graph', order))
    BY <2>1, <2>3, <1>1, <1>2, <1>6 DEF LoadingInv
  <2>7. LoadingInv'
    BY <2>3, <2>4, <2>5, <2>6, <1>1, <1>6 DEF LoadingInv
  <2>8. QED
    BY <2>7, <1>1, <1>7, <1>9 DEF ModulesInv
<1>10. QED
  BY <1>1, <1>8, <1>9

LEMMA DescendKeeps ==
  ASSUME ModulesInv, Descend
  PROVE  ModulesInv'
<1> DEFINE d == NextOf(graph, stack)
<1>1. /\ job \in {"check", "load"} /\ ~found /\ stack # <<>>
      /\ todo' = todo /\ job' = job /\ root' = root /\ found' = found /\ order' = order /\ queue' = queue
      /\ ModulesTypeOK /\ stack \in Seq(Calls) /\ IsGraph(graph)
  BY DEF Descend, Walking, ModulesInv, ModulesTypeOK, sortVars
<1>2. Len(stack) > 0
  BY <1>1
<1>3. Unfinished(graph, stack) /\ NextName = d /\ Passed = PassedOf(stack) /\ Top = stack[Len(stack)]
  BY <1>2 DEF Descend, Unfinished, NextName, NextOf, Passed, PassedOf, Top
<1>4. d \in Nat /\ d \in Uses(graph, stack[Len(stack)].module)
  BY <1>1, <1>3, NextUsed
<1>5. Enter(d, PassedOf(stack)) /\ d \notin seen
  BY <1>3 DEF Descend
<1> HIDE DEF d
<1>6. /\ IsGraph(graph') /\ (\A x : Deps(graph', x) = Deps(graph, x))
      /\ Cyclic(graph') <=> Cyclic(graph)
      /\ DOMAIN graph \subseteq DOMAIN graph'
      /\ job = "check" => graph' = graph
      /\ job = "load" => d \in DOMAIN graph'
      /\ seen' = seen \cup {d} /\ stack' = Append(PassedOf(stack), CallOf(d))
  BY <1>1, <1>4, <1>5, Entered
<1>7. PICK F : /\ Walked(graph, stack, seen, F)
               /\ job = "check" => Sound(graph, stack, F)
               /\ job = "load" => F = Range(order)
  BY <1>1 DEF ModulesInv, CheckingInv, LoadingInv
<1>8. Chained(graph, stack)
  BY <1>1 DEF ModulesInv, CheckingInv, LoadingInv
<1>9. /\ stack' \in Seq(Calls) /\ PathOf(stack') = PathOf(stack) \cup {d} /\ Chained(graph, stack')
      /\ Walked(graph, stack', seen', F)
      /\ Sound(graph, stack, F) => Sound(graph, stack', F)
  BY <1>1, <1>3, <1>5, <1>6, <1>7, <1>8, DescendWalks DEF d
<1>10. /\ Chained(graph', stack') /\ Walked(graph', stack', seen', F)
       /\ Sound(graph, stack, F) => Sound(graph', stack', F)
       /\ InOrder(graph, order) => InOrder(graph', order)
  BY <1>6, <1>9, SameWalk
<1>11. ModulesTypeOK'
  BY <1>1, <1>6, <1>9 DEF ModulesTypeOK
<1>12. CASE job = "check"
  <2>1. DOMAIN graph' \subseteq todo' \cup seen'
    BY <1>1, <1>6, <1>12 DEF ModulesInv, CheckingInv
  <2>2. CheckingInv'
    BY <2>1, <1>1, <1>7, <1>10, <1>12 DEF CheckingInv
  <2>3. QED
    BY <2>2, <1>1, <1>11, <1>12 DEF ModulesInv
<1>13. CASE job = "load"
  <2>1. LoadingInv /\ F = Range(order)
    BY <1>7, <1>13 DEF ModulesInv
  <2>2. stack[Len(stack)].module \in seen /\ d \notin F
    <3>1. Len(stack) \in DOMAIN stack
      BY <1>1, <1>2
    <3>2. QED
      BY <3>1, <1>5, <1>7 DEF Walked, PathOf
  <2>3. todo = {} /\ root \in seen
    BY <2>1, <1>1 DEF LoadingInv
  <2>4. ASSUME NEW S \in SUBSET Nat, root' \in S, Complete(graph', S)
        PROVE  seen' \subseteq S
    <3>1. Complete(graph, S)
      BY <2>4, <1>6, SameWalk
    <3>2. seen \subseteq S
      BY <2>1, <2>4, <3>1, <1>1 DEF LoadingInv
    <3>3. d \in S
      BY <2>2, <3>1, <3>2, <1>4 DEF Complete
    <3>4. QED
      BY <3>2, <3>3, <1>6
  <2>5. Range(order) \cap PathOf(stack') = {}
    BY <2>1, <2>2, <1>9 DEF LoadingInv
  <2>6. todo' = {} /\ root' \in seen' /\ seen' \subseteq DOMAIN graph'
    BY <2>1, <2>3, <1>1, <1>6, <1>13 DEF LoadingInv
  <2>7. Cyclic(graph') \/ (Sound(graph', stack', Range(order)) /\ InOrder(graph', order))
    BY <2>1, <1>6, <1>10 DEF LoadingInv
  <2>8. LoadingInv'
    BY <2>1, <2>4, <2>5, <2>6, <2>7, <1>1, <1>10 DEF LoadingInv
  <2>9. QED
    BY <2>8, <1>1, <1>11, <1>13 DEF ModulesInv
<1>14. QED
  BY <1>1, <1>12, <1>13

LEMMA PassKeeps ==
  ASSUME ModulesInv, Pass
  PROVE  ModulesInv'
<1> DEFINE d == NextOf(graph, stack)
<1>1. /\ job \in {"check", "load"} /\ ~found /\ stack # <<>>
      /\ graph' = graph /\ todo' = todo /\ seen' = seen /\ job' = job /\ root' = root
      /\ order' = order /\ queue' = queue
      /\ ModulesTypeOK /\ stack \in Seq(Calls) /\ IsGraph(graph)
  BY DEF Pass, Walking, ModulesInv, ModulesTypeOK, sortVars
<1>2. Len(stack) > 0
  BY <1>1
<1>3. Unfinished(graph, stack) /\ NextName = d /\ Passed = PassedOf(stack) /\ Top = stack[Len(stack)]
      /\ Path = PathOf(stack)
  BY <1>2 DEF Pass, Unfinished, NextName, NextOf, Passed, PassedOf, Top, Path, PathOf
<1>4. d \in Nat /\ d \in Uses(graph, stack[Len(stack)].module)
  BY <1>1, <1>3, NextUsed
<1>5. /\ stack' = PassedOf(stack) /\ d \in seen
      /\ found' = (job = "check" /\ d \in PathOf(stack))
  BY <1>3 DEF Pass
<1>6. Chained(graph, stack)
  BY <1>1 DEF ModulesInv, CheckingInv, LoadingInv
<1>7. d \in PathOf(stack) => Cyclic(graph)
  BY <1>1, <1>2, <1>4, <1>6, LoopIsCycle
<1>8. Chained(graph, stack') /\ stack' \in Seq(Calls) /\ PathOf(stack') = PathOf(stack)
  BY <1>1, <1>2, <1>3, <1>5, <1>6, PassedChained, PassedIs
<1>9. PICK F : /\ Walked(graph, stack, seen, F)
               /\ job = "check" => Sound(graph, stack, F)
               /\ job = "load" => F = Range(order)
  BY <1>1 DEF ModulesInv, CheckingInv, LoadingInv
<1>10. /\ Walked(graph, stack', seen, F)
       /\ Sound(graph, stack, F) /\ d \notin PathOf(stack) => Sound(graph, stack', F)
  BY <1>1, <1>3, <1>5, <1>6, <1>9, PassWalks
<1> HIDE DEF d
<1>11. ModulesTypeOK'
  BY <1>1, <1>5, <1>8 DEF ModulesTypeOK
<1>12. CASE job = "check"
  <2>1. DOMAIN graph \subseteq todo \cup seen
    BY <1>1, <1>12 DEF ModulesInv, CheckingInv
  <2>2. CheckingInv'
    BY <2>1, <1>1, <1>5, <1>7, <1>8, <1>9, <1>10, <1>12 DEF CheckingInv
  <2>3. QED
    BY <2>2, <1>1, <1>11, <1>12 DEF ModulesInv
<1>13. CASE job = "load"
  <2>1. LoadingInv /\ F = Range(order)
    BY <1>9, <1>13 DEF ModulesInv
  <2>2. Cyclic(graph) \/ (Sound(graph, stack', Range(order)) /\ InOrder(graph, order))
    BY <2>1, <1>7, <1>10 DEF LoadingInv
  <2>3. ~found'
    BY <1>5, <1>13
  <2>4. todo = {} /\ root \in seen
    BY <2>1, <1>1 DEF LoadingInv
  <2>5. LoadingInv'
    BY <2>1, <2>2, <2>3, <2>4, <1>1, <1>8, <1>10 DEF LoadingInv
  <2>6. QED
    BY <2>5, <1>1, <1>11, <1>13 DEF ModulesInv
<1>14. QED
  BY <1>1, <1>12, <1>13

\* A module is put behind the others.
LEMMA PutBehind ==
  ASSUME NEW os \in Seq(Nat), NEW m \in Nat
  PROVE  /\ Append(os, m) \in Seq(Nat) /\ Range(Append(os, m)) = Range(os) \cup {m}
         /\ \A g : m \notin Range(os) /\ Uses(g, m) \subseteq Range(os) /\ InOrder(g, os)
                     => InOrder(g, Append(os, m))
<1> DEFINE new == Append(os, m)
           n == Len(os)
<1>1. /\ n \in Nat /\ DOMAIN os = 1..n
      /\ new \in Seq(Nat) /\ DOMAIN new = 1..(n + 1)
      /\ new[n + 1] = m /\ \A i \in 1..n : new[i] = os[i]
  OBVIOUS
<1> HIDE DEF new, n
<1>2. \A i : i \in 1..(n + 1) <=> i \in 1..n \/ i = n + 1
  BY <1>1
<1>3. \A x : x \in Range(os) <=> \E i \in 1..n : os[i] = x
  BY <1>1 DEF Range
<1>4. Range(new) = Range(os) \cup {m}
  BY <1>1, <1>2, <1>3 DEF Range
<1>5. ASSUME NEW g, m \notin Range(os), Uses(g, m) \subseteq Range(os), InOrder(g, os)
      PROVE  InOrder(g, new)
  <2>1. IsInjective(new)
    <3>1. \A i \in 1..n : new[i] # m
      BY <1>1, <1>3, <1>5
    <3>2. \A i, j \in 1..n : new[i] = new[j] => i = j
      BY <1>1, <1>5 DEF InOrder, IsInjective
    <3>3. QED
      BY <3>1, <3>2, <1>1, <1>2 DEF IsInjective
  <2>2. ASSUME NEW i \in 1..(n + 1), NEW d \in Uses(g, new[i])
        PROVE  \E j \in 1..(i - 1) : new[j] = d
    <3>1. CASE i \in 1..n
      <4>1. PICK j \in 1..(i - 1) : os[j] = d
        BY <3>1, <2>2, <1>1, <1>5 DEF InOrder
      <4>2. j \in 1..n
        BY <3>1, <1>1
      <4>3. QED
        BY <4>1, <4>2, <1>1
    <3>2. CASE i = n + 1
      <4>1. d \in Range(os)
        BY <3>2, <2>2, <1>1, <1>5
      <4>2. PICK j \in 1..n : os[j] = d
        BY <4>1, <1>3
      <4>3. i - 1 = n
        BY <3>2, <1>1
      <4>4. QED
        BY <4>2, <4>3, <1>1
    <3>3. QED
      BY <3>1, <3>2, <1>2
  <2>3. QED
    BY <2>1, <2>2, <1>1 DEF InOrder
<1>6. QED
  BY <1>1, <1>4, <1>5 DEF new

LEMMA LeaveKeeps ==
  ASSUME ModulesInv, Leave
  PROVE  ModulesInv'
<1> DEFINE m == stack[Len(stack)].module
<1>1. /\ job \in {"check", "load"} /\ ~found /\ stack # <<>>
      /\ graph' = graph /\ todo' = todo /\ seen' = seen /\ job' = job /\ root' = root
      /\ found' = found /\ queue' = queue
      /\ stack[Len(stack)].past = Len(Deps(graph, m))
      /\ stack' = BelowOf(stack)
      /\ order' = IF job = "load" THEN Append(order, m) ELSE order
      /\ ModulesTypeOK /\ stack \in Seq(Calls) /\ IsGraph(graph) /\ order \in Seq(Nat)
  BY DEF Leave, Walking, ModulesInv, ModulesTypeOK, sortVars, Top, BelowOf
<1>2. Len(stack) > 0 /\ Len(stack) \in 1..Len(stack) /\ DOMAIN stack = 1..Len(stack)
  BY <1>1
<1>3. m \in Nat /\ m \in PathOf(stack)
  BY <1>1, <1>2, CallTyped DEF PathOf
<1>4. Chained(graph, stack)
  BY <1>1 DEF ModulesInv, CheckingInv, LoadingInv
<1>5. PICK F : /\ Walked(graph, stack, seen, F)
               /\ job = "check" => Sound(graph, stack, F)
               /\ job = "load" => F = Range(order)
  BY <1>1 DEF ModulesInv, CheckingInv, LoadingInv
<1>6. /\ stack' \in Seq(Calls) /\ PathOf(stack') \subseteq PathOf(stack) \ {m}
      /\ Chained(graph, stack')
      /\ Walked(graph, stack', seen, F \cup {m})
      /\ Sound(graph, stack, F) => Sound(graph, stack', F \cup {m}) /\ Uses(graph, m) \subseteq F
  BY <1>1, <1>2, <1>4, <1>5, LeaveWalks
<1>7. /\ Append(order, m) \in Seq(Nat) /\ Range(Append(order, m)) = Range(order) \cup {m}
      /\ m \notin Range(order) /\ Uses(graph, m) \subseteq Range(order) /\ InOrder(graph, order)
           => InOrder(graph, Append(order, m))
  BY <1>1, <1>3, PutBehind
<1> HIDE DEF m
<1>8. ModulesTypeOK'
  BY <1>1, <1>6, <1>7 DEF ModulesTypeOK
<1>9. CASE job = "check"
  <2>1. DOMAIN graph \subseteq todo \cup seen
    BY <1>1, <1>9 DEF ModulesInv, CheckingInv
  <2>2. CheckingInv'
    BY <2>1, <1>1, <1>5, <1>6, <1>9 DEF CheckingInv
  <2>3. QED
    BY <2>2, <1>1, <1>8, <1>9 DEF ModulesInv
<1>10. CASE job = "load"
  <2>1. LoadingInv /\ F = Range(order)
    BY <1>5, <1>10 DEF ModulesInv
  <2>2. order' = Append(order, m) /\ Range(order') = F \cup {m}
    BY <2>1, <1>1, <1>7, <1>10
  <2>3. m \notin Range(order)
    BY <2>1, <1>3 DEF LoadingInv
  <2>4. Cyclic(graph) \/ (Sound(graph, stack', Range(order')) /\ InOrder(graph, order'))
    BY <2>1, <2>2, <2>3, <1>6, <1>7 DEF LoadingInv
  <2>5. todo = {} /\ root \in seen
    BY <2>1, <1>1 DEF LoadingInv
  <2>6. Range(order') \cap PathOf(stack') = {}
    BY <2>1, <2>2, <1>6 DEF LoadingInv
  <2>7. Walked(graph, stack', seen, Range(order'))
    BY <2>2, <1>6
  <2>8. LoadingInv'
    BY <2>1, <2>4, <2>5, <2>6, <2>7, <1>1, <1>6 DEF LoadingInv
  <2>9. QED
    BY <2>8, <1>1, <1>8, <1>10 DEF ModulesInv
<1>11. QED
  BY <1>1, <1>9, <1>10

\* A list without repetition is as long as it has elements.
LEMMA OnceCounted ==
  ASSUME NEW s \in Seq(Nat), IsInjective(s)
  PROVE  IsFiniteSet(Range(s)) /\ Cardinality(Range(s)) = Len(s)
<1>1. Len(s) \in Nat /\ DOMAIN s = 1..Len(s)
  OBVIOUS
<1>2. s \in [1..Len(s) -> Range(s)] /\ \A x \in Range(s) : \E i \in 1..Len(s) : s[i] = x
  BY <1>1 DEF Range
<1>3. s \in Bijection(1..Len(s), Range(s))
  BY <1>1, <1>2 DEF Bijection, Injection, Surjection, IsInjective
<1>4. ExistsBijection(1..Len(s), Range(s))
  BY <1>3 DEF ExistsBijection
<1>5. IsFiniteSet(1..Len(s)) /\ Cardinality(1..Len(s)) = Len(s)
  BY <1>1, FS_Interval
<1>6. QED
  BY <1>4, <1>5, FS_Bijection

LEMMA CleanUses ==
  ASSUME NEW g, IsGraph(g), Clean(g)
  PROVE  /\ Names(g) = DOMAIN g
         /\ \A m \in DOMAIN g : /\ IsFiniteSet(Uses(g, m)) /\ Uses(g, m) \subseteq DOMAIN g
                                /\ Cardinality(Uses(g, m)) = Len(Deps(g, m))
<1>1. ASSUME NEW m \in DOMAIN g
      PROVE  /\ IsFiniteSet(Uses(g, m)) /\ Uses(g, m) \subseteq DOMAIN g
             /\ Cardinality(Uses(g, m)) = Len(Deps(g, m))
  <2>1. Deps(g, m) = g[m] /\ g[m] \in Seq(Nat) /\ IsInjective(g[m])
    BY DEF Deps, IsGraph, Clean
  <2>2. Uses(g, m) = Range(g[m])
    BY <2>1 DEF Uses
  <2>3. IsFiniteSet(Range(g[m])) /\ Cardinality(Range(g[m])) = Len(g[m])
    BY <2>1, OnceCounted
  <2>4. QED
    BY <2>1, <2>2, <2>3 DEF Clean
<1>2. QED
  BY <1>1 DEF Names

\* Placing what waits for nothing: the others wait for one less.
LEMMA PlaceSorts ==
  ASSUME NEW g, IsGraph(g), Clean(g), NEW deg, NEW q, NEW os \in Seq(Nat),
         Sorting(g, deg, q, os), NEW m \in q,
         NEW deg2, deg2 = [d \in DOMAIN deg |-> IF m \in Uses(g, d) THEN deg[d] - 1 ELSE deg[d]],
         NEW q2, q2 = (q \ {m}) \cup {d \in DOMAIN g : m \in Uses(g, d) /\ deg[d] = 1}
  PROVE  Sorting(g, deg2, q2, Append(os, m))
<1> DEFINE R == Range(os)
           R2 == Range(os) \cup {m}
<1>1. /\ m \in DOMAIN g /\ m \in Nat /\ deg[m] = 0 /\ m \notin R
      /\ DOMAIN deg = DOMAIN g /\ \A d \in DOMAIN g : deg[d] \in Nat
      /\ \A d \in DOMAIN g : deg[d] = Cardinality(Uses(g, d) \ R)
  BY DEF Sorting, IsGraph
<1>2. \A d \in DOMAIN g : IsFiniteSet(Uses(g, d)) /\ Uses(g, d) \subseteq DOMAIN g
  BY CleanUses
<1>3. \A d \in DOMAIN g : IsFiniteSet(Uses(g, d) \ R)
  BY <1>2, FS_Subset
<1>4. \A d \in DOMAIN g : deg[d] = 0 => Uses(g, d) \subseteq R
  <2>1. ASSUME NEW d \in DOMAIN g, deg[d] = 0
        PROVE  Uses(g, d) \subseteq R
    <3>1. IsFiniteSet(Uses(g, d) \ R) /\ Cardinality(Uses(g, d) \ R) = 0
      BY <2>1, <1>1, <1>3
    <3>2. Uses(g, d) \ R = {}
      BY <3>1, FS_EmptySet
    <3>3. QED
      BY <3>2
  <2>2. QED
    BY <2>1
<1>5. Uses(g, m) \subseteq R
  BY <1>1, <1>4
<1>6. /\ Append(os, m) \in Seq(Nat) /\ Range(Append(os, m)) = R2
      /\ InOrder(g, Append(os, m))
  BY <1>1, <1>5, PutBehind DEF Sorting
<1>7. Complete(g, R2) /\ Untangled(g, R2)
  BY <1>5, OneMore DEF Sorting
<1> HIDE DEF R
<1>8. ASSUME NEW d \in DOMAIN g
      PROVE  /\ deg2[d] \in Nat
             /\ deg2[d] = Cardinality(Uses(g, d) \ R2)
             /\ deg2[d] = IF m \in Uses(g, d) THEN deg[d] - 1 ELSE deg[d]
  <2>1. deg2[d] = IF m \in Uses(g, d) THEN deg[d] - 1 ELSE deg[d]
    BY <1>1
  <2>2. Uses(g, d) \ R2 = (Uses(g, d) \ R) \ {m}
    BY DEF R
  <2>3. (m \in Uses(g, d) \ R) <=> m \in Uses(g, d)
    BY <1>1
  <2>4. Cardinality((Uses(g, d) \ R) \ {m}) =
          IF m \in Uses(g, d) \ R THEN Cardinality(Uses(g, d) \ R) - 1 ELSE Cardinality(Uses(g, d) \ R)
    BY <1>3, FS_RemoveElement
  <2>5. IsFiniteSet((Uses(g, d) \ R) \ {m})
    BY <1>3, FS_RemoveElement
  <2>6. Cardinality((Uses(g, d) \ R) \ {m}) \in Nat
    BY <2>5, FS_CardinalityType
  <2>7. deg[d] = Cardinality(Uses(g, d) \ R)
    BY <1>1
  <2>8. deg2[d] = Cardinality((Uses(g, d) \ R) \ {m})
    BY <2>1, <2>3, <2>4, <2>7
  <2>9. QED
    BY <2>1, <2>2, <2>6, <2>8
<1>9. deg2 \in [DOMAIN g -> Nat]
  BY <1>1, <1>8
<1>10. q = {d \in DOMAIN g : deg[d] = 0} \ R
  BY DEF Sorting, R
<1>11. q2 = {d \in DOMAIN g : deg2[d] = 0} \ R2
  <2>1. ASSUME NEW d \in DOMAIN g
        PROVE  d \in q2 <=> deg2[d] = 0 /\ d \notin R2
    <3>1. CASE d = m
      BY <3>1, <1>1, <1>5 DEF R
    <3>2. CASE d # m /\ m \in Uses(g, d)
      <4>1. deg2[d] = deg[d] - 1 /\ deg[d] \in Nat
        BY <3>2, <1>1, <1>8
      <4>2. deg[d] # 0
        BY <3>2, <1>1, <1>4
      <4>3. d \notin R
        BY <3>2, <1>1 DEF Sorting, Complete, R
      <4>4. d \in q2 <=> deg[d] = 1
        BY <3>2, <4>2, <1>10
      <4>5. QED
        BY <3>2, <4>1, <4>3, <4>4 DEF R
    <3>3. CASE d # m /\ m \notin Uses(g, d)
      BY <3>3, <1>8, <1>10 DEF R
    <3>4. QED
      BY <3>1, <3>2, <3>3
  <2>2. q2 \subseteq DOMAIN g
    BY <1>10
  <2>3. QED
    BY <2>1, <2>2
<1>12. Range(Append(os, m)) \subseteq DOMAIN g
  BY <1>1, <1>6 DEF Sorting
<1>13. \A d \in DOMAIN g : deg2[d] = Cardinality(Uses(g, d) \ Range(Append(os, m)))
  BY <1>6, <1>8
<1>14. QED
  BY <1>6, <1>7, <1>9, <1>11, <1>12, <1>13 DEF Sorting

LEMMA PlaceKeeps ==
  ASSUME ModulesInv, NEW m \in queue, Place(m)
  PROVE  ModulesInv'
<1>1. /\ job = "sort" /\ graph' = graph /\ job' = job /\ root' = root
      /\ todo' = todo /\ stack' = stack /\ found' = found
      /\ order' = Append(order, m) /\ m \in Nat
      /\ degree' = [d \in DOMAIN degree |-> IF m \in Uses(graph, d) THEN degree[d] - 1 ELSE degree[d]]
      /\ queue' = (queue \ {m}) \cup {d \in DOMAIN graph : m \in Uses(graph, d) /\ degree[d] = 1}
      /\ ModulesTypeOK /\ IsGraph(graph) /\ order \in Seq(Nat)
  BY DEF Place, ModulesInv, ModulesTypeOK, walkVars, Released
<1>2. queue' \subseteq Nat
  BY <1>1 DEF ModulesTypeOK, IsGraph
<1>3. Append(order, m) \in Seq(Nat)
  BY <1>1, PutBehind
<1>4. ModulesTypeOK'
  BY <1>1, <1>2, <1>3 DEF ModulesTypeOK
<1>5. ASSUME Clean(graph)
      PROVE  Sorting(graph, degree', queue', Append(order, m))
  <2>1. Sorting(graph, degree, queue, order)
    BY <1>1, <1>5 DEF ModulesInv
  <2>2. QED
    BY <2>1, <1>1, <1>5, PlaceSorts
<1>6. QED
  BY <1>1, <1>4, <1>5 DEF ModulesInv

LEMMA BeginInv ==
  ASSUME NEW g, IsGraph(g), NEW j \in {"check", "sort", "load"}, NEW r \in Nat,
         j = "load" => r \in Names(g), Begin(g, j, r)
  PROVE  ModulesInv
<1>1. /\ graph = g /\ job = j /\ root = r /\ stack = <<>> /\ seen = {} /\ found = FALSE
      /\ degree = Degree(g) /\ queue = {m \in Names(g) : Len(Deps(g, m)) = 0} /\ order = <<>>
      /\ todo = CASE j = "check" -> DOMAIN g [] j = "load" -> {r} [] OTHER -> {}
  BY DEF Begin
<1>2. Names(g) \subseteq Nat
  <2>1. \A m \in DOMAIN g : Uses(g, m) \subseteq Nat
    BY DepsTyped
  <2>2. QED
    BY <2>1 DEF Names, IsGraph
<1>3. /\ j = "check" => todo = DOMAIN g
      /\ j = "load" => todo = {r}
      /\ j = "sort" => todo = {}
  BY <1>1
<1>4. Range(order) = {} /\ order \in Seq(Nat) /\ stack \in Seq(Calls) /\ PathOf(<<>>) = {}
  BY <1>1 DEF Range, PathOf
<1>5. ModulesTypeOK
  <2>1. todo \subseteq Nat
    BY <1>3 DEF IsGraph
  <2>2. QED
    BY <2>1, <1>1, <1>2, <1>4 DEF ModulesTypeOK
<1>6. Chained(g, <<>>) /\ Walked(g, <<>>, {}, {}) /\ Complete(g, {}) /\ Untangled(g, {})
      /\ Sound(g, <<>>, {}) /\ InOrder(g, <<>>)
  <2>1. Chained(g, <<>>)
    BY DEF Chained
  <2>2. Walked(g, <<>>, {}, {})
    BY <1>4 DEF Walked
  <2>3. Complete(g, {}) /\ Untangled(g, {})
    BY DEF Complete, Untangled
  <2>4. Sound(g, <<>>, {})
    BY <2>3 DEF Sound
  <2>5. InOrder(g, <<>>)
    BY DEF InOrder, IsInjective
  <2>6. QED
    BY <2>1, <2>2, <2>3, <2>4, <2>5
<1>7. CASE j = "check"
  <2>1. CheckingInv
    BY <1>1, <1>3, <1>6, <1>7 DEF CheckingInv
  <2>2. QED
    BY <2>1, <1>1, <1>5, <1>7 DEF ModulesInv
<1>8. CASE j = "load"
  <2>1. Walked(graph, stack, seen, Range(order)) /\ Sound(graph, stack, Range(order))
        /\ InOrder(graph, order) /\ Chained(graph, stack)
    BY <1>1, <1>4, <1>6
  <2>2. todo = {root} /\ seen = {} /\ stack = <<>>
    BY <1>1, <1>3, <1>8
  <2>3. LoadingInv
    BY <2>1, <2>2, <1>1, <1>4 DEF LoadingInv
  <2>4. QED
    BY <2>3, <1>1, <1>5, <1>8 DEF ModulesInv
<1>9. CASE j = "sort"
  <2>1. ASSUME Clean(g)
        PROVE  Sorting(g, degree, queue, order)
    <3>1. /\ Names(g) = DOMAIN g
          /\ \A m \in DOMAIN g : IsFiniteSet(Uses(g, m)) /\ Cardinality(Uses(g, m)) = Len(Deps(g, m))
      BY <2>1, CleanUses
    <3>2. \A m \in DOMAIN g : Len(Deps(g, m)) \in Nat
      BY DepsTyped
    <3>3. degree = [m \in DOMAIN g |-> Len(Deps(g, m))]
      BY <3>1, <1>1 DEF Degree
    <3>4. \A m \in DOMAIN g : Uses(g, m) \ Range(order) = Uses(g, m)
      BY <1>4
    <3>5. degree \in [DOMAIN g -> Nat]
          /\ \A m \in DOMAIN g : degree[m] = Cardinality(Uses(g, m) \ Range(order))
      BY <3>1, <3>2, <3>3, <3>4
    <3>6. queue = {m \in DOMAIN g : degree[m] = 0} \ Range(order)
      BY <3>1, <3>3, <1>1, <1>4
    <3>7. Complete(g, Range(order)) /\ Untangled(g, Range(order)) /\ InOrder(g, order)
      BY <1>1, <1>4, <1>6
    <3>8. QED
      BY <3>5, <3>6, <3>7, <1>4 DEF Sorting
  <2>2. QED
    BY <2>1, <1>1, <1>5, <1>9 DEF ModulesInv
<1>10. QED
  BY <1>7, <1>8, <1>9

LEMMA ModulesInitInv == ModulesInit => ModulesInv
<1> SUFFICES ASSUME ModulesInit PROVE ModulesInv
  OBVIOUS
<1>1. PICK g \in DependencyGraphs : \/ \E j \in {"check", "sort"} : Begin(g, j, 0)
                                    \/ \E r \in Names(g) : Begin(g, "load", r)
  BY DEF ModulesInit
<1>2. IsGraph(g)
  BY GraphsAssumption
<1>3. Names(g) \subseteq Nat
  <2>1. \A m \in DOMAIN g : Uses(g, m) \subseteq Nat
    BY <1>2, DepsTyped
  <2>2. QED
    BY <2>1, <1>2 DEF Names, IsGraph
<1>4. ASSUME NEW j \in {"check", "sort"}, Begin(g, j, 0)
      PROVE  ModulesInv
  BY <1>2, <1>4, BeginInv
<1>5. ASSUME NEW r \in Names(g), Begin(g, "load", r)
      PROVE  ModulesInv
  <2>1. r \in Nat
    BY <1>3, <1>5
  <2>2. QED
    BY <2>1, <1>2, <1>5, BeginInv
<1>6. QED
  BY <1>1, <1>4, <1>5

LEMMA ModulesNextInv == ModulesInv /\ [ModulesNext]_modulesVars => ModulesInv'
<1> SUFFICES ASSUME ModulesInv, [ModulesNext]_modulesVars PROVE ModulesInv'
  OBVIOUS
<1>1. CASE UNCHANGED modulesVars
  <2>1. /\ graph' = graph /\ job' = job /\ root' = root /\ todo' = todo /\ stack' = stack
        /\ seen' = seen /\ found' = found /\ degree' = degree /\ queue' = queue /\ order' = order
    BY <1>1 DEF modulesVars
  <2>2. ModulesTypeOK'
    BY <2>1 DEF ModulesInv, ModulesTypeOK
  <2>3. CheckingInv => CheckingInv'
    BY <2>1 DEF CheckingInv
  <2>4. LoadingInv => LoadingInv'
    BY <2>1 DEF LoadingInv
  <2>5. Sorting(graph, degree, queue, order) => Sorting(graph', degree', queue', order')
    BY <2>1
  <2>6. QED
    BY <2>1, <2>2, <2>3, <2>4, <2>5 DEF ModulesInv
<1>2. CASE ModulesNext
  BY <1>2, FromKeeps, DescendKeeps, PassKeeps, LeaveKeeps, PlaceKeeps DEF ModulesNext
<1>3. QED
  BY <1>1, <1>2

LEMMA CheckAnswers ==
  ASSUME ModulesInv, job = "check", Ended
  PROVE  found <=> Cyclic(graph)
<1>1. CheckingInv /\ (found \/ (todo = {} /\ stack = <<>>))
  BY DEF ModulesInv, Ended
<1>2. CASE found
  BY <1>1, <1>2 DEF CheckingInv
<1>3. CASE ~found
  <2>1. PICK F : Walked(graph, <<>>, seen, F) /\ Sound(graph, <<>>, F)
    BY <1>1, <1>3 DEF CheckingInv
  <2>2. DOMAIN graph \subseteq F
    BY <2>1, <1>1, <1>3 DEF CheckingInv, Walked, PathOf
  <2>3. ~Cyclic(graph)
    BY <2>1, <2>2 DEF Sound, Untangled, Cyclic
  <2>4. QED
    BY <2>3, <1>3
<1>4. QED
  BY <1>2, <1>3

LEMMA SortAnswers ==
  ASSUME ModulesInv, job = "sort", Ended, Clean(graph)
  PROVE  (Sorted <=> ~Cyclic(graph)) /\ InOrder(graph, order)
<1>1. /\ Sorting(graph, degree, queue, order) /\ queue = {}
      /\ IsGraph(graph) /\ order \in Seq(Nat)
  BY DEF ModulesInv, ModulesTypeOK, Ended
<1>2. InOrder(graph, order) /\ Range(order) \subseteq DOMAIN graph
  BY <1>1 DEF Sorting
<1>3. IsInjective(order)
  BY <1>2 DEF InOrder
<1>4. IsFiniteSet(Range(order)) /\ Cardinality(Range(order)) = Len(order)
  BY <1>1, <1>3, OnceCounted
<1>5. IsFiniteSet(DOMAIN graph)
  BY <1>1 DEF IsGraph
<1>6. Sorted <=> Range(order) = DOMAIN graph
  BY <1>2, <1>4, <1>5, FS_Subset DEF Sorted
<1>7. ASSUME Range(order) = DOMAIN graph
      PROVE  ~Cyclic(graph)
  BY <1>1, <1>7 DEF Sorting, Untangled, Cyclic
<1>8. ASSUME Range(order) # DOMAIN graph
      PROVE  Cyclic(graph)
  <2> DEFINE R == DOMAIN graph \ Range(order)
  <2>1. R # {} /\ R \in SUBSET DOMAIN graph
    BY <1>2, <1>8
  <2>2. ASSUME NEW m \in R
        PROVE  Uses(graph, m) \cap R # {}
    <3>1. degree[m] # 0 /\ degree[m] = Cardinality(Uses(graph, m) \ Range(order))
      BY <2>2, <1>1 DEF Sorting
    <3>2. Uses(graph, m) \ Range(order) # {}
      BY <3>1, FS_EmptySet
    <3>3. Uses(graph, m) \subseteq DOMAIN graph
      BY <2>2, <1>1, CleanUses
    <3>4. QED
      BY <3>2, <3>3
  <2> HIDE DEF R
  <2>3. QED
    BY <2>1, <2>2 DEF Cyclic
<1>9. QED
  BY <1>2, <1>6, <1>7, <1>8

LEMMA LoadAnswers ==
  ASSUME ModulesInv, job = "load", Ended
  PROVE  Range(order) = Under(graph, root) /\ (~Cyclic(graph) => InOrder(graph, order))
<1>1. /\ LoadingInv /\ todo = {} /\ stack = <<>> /\ IsGraph(graph)
  BY DEF ModulesInv, ModulesTypeOK, Ended, LoadingInv
<1>2. seen = Range(order) /\ Complete(graph, seen) /\ root \in seen /\ seen \subseteq DOMAIN graph
  BY <1>1 DEF LoadingInv, Walked, PathOf, Complete
<1>3. DOMAIN graph \subseteq Names(graph) /\ Names(graph) \subseteq Nat
  <2>1. \A m \in DOMAIN graph : Uses(graph, m) \subseteq Nat
    BY <1>1, DepsTyped
  <2>2. QED
    BY <2>1, <1>1 DEF Names, IsGraph
<1>4. seen \subseteq Under(graph, root)
  <2>1. \A S \in SUBSET Names(graph) : root \in S /\ Complete(graph, S) => seen \subseteq S
    BY <1>1, <1>3 DEF LoadingInv
  <2>2. QED
    BY <2>1, <1>2, <1>3 DEF Under
<1>5. Under(graph, root) \subseteq seen
  BY <1>2, <1>3 DEF Under
<1>6. QED
  BY <1>1, <1>2, <1>4, <1>5 DEF LoadingInv

(* The modules, in any finite graph: has_cycle finds a cycle where there is   *)
(* one and only there; where modules are mentioned once and exist,           *)
(* topological_sort succeeds exactly where there is none, and puts each      *)
(* module after what it uses; and resolve_all lists what is under a module,  *)
(* each after its own unless they depend on each other.                      *)
THEOREM LoadedInOrder == ModulesSpec => []ModulesInOrder
<1>1. ModulesInv => ModulesInOrder
  <2>1. ASSUME ModulesInv, Ended
        PROVE  ModulesInOrder
    <3>1. job = "check" => (found <=> Cyclic(graph))
      BY <2>1, CheckAnswers
    <3>2. job = "sort" /\ Clean(graph) =>
            (Sorted <=> ~Cyclic(graph)) /\ (Sorted => InOrder(graph, order))
      BY <2>1, SortAnswers
    <3>3. job = "load" =>
            Range(order) = Under(graph, root) /\ (~Cyclic(graph) => InOrder(graph, order))
      BY <2>1, LoadAnswers
    <3>4. QED
      BY <3>1, <3>2, <3>3 DEF ModulesInOrder
  <2>2. QED
    BY <2>1 DEF ModulesInOrder
<1>2. QED
  BY <1>1, ModulesInitInv, ModulesNextInv, PTL DEF ModulesSpec
=============================================================================
