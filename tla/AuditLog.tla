------------------------------ MODULE AuditLog ------------------------------
(* The audit log of the evolve command (src/cli/src/cmd/evolve.rs): one file *)
(* per decision and an index of all of them, written by every process on its *)
(* own.  Writing a file truncates it and then fills it, so that another      *)
(* process, or one that died between the two, leaves half a file to readers. *)
EXTENDS Integers, Sequences

CONSTANTS Procs,
          Changes,   \* the ids of the changes one can decide on
          MaxId,     \* the largest of them, under which a revert is filed
          MaxDay,    \* bound on the days
          MaxRuns    \* bound on the commands ever run

ASSUME AuditAssumption == MaxId \in Changes /\ {MaxDay, MaxRuns} \subseteq Nat

VARIABLES day,       \* the calendar
          runs,      \* the commands run so far
          index,     \* _index.json
          files,     \* the files of the entries, by day, action and change
          snapshot,  \* the baseline that a revert saves, always the same file
          proc       \* what each process is about
logVars == <<day, runs, index, files, snapshot, proc>>

Actions == {"accept", "reject", "revert"}
Entry == [run : Nat, day : Nat, action : Actions, id : Changes]
Keys == Nat \X Actions \X Changes
\* A file is whole, with what it holds, or torn: it does not parse.
Torn == [whole |-> FALSE]
Whole(content) == [whole |-> TRUE, content |-> content]
Contents(S) == {Torn} \cup {Whole(c) : c \in S}
Idle == [at |-> "idle"]
Log == Seq(Entry)
\* Where a process is and what it holds there.
Process ==
  {Idle} \cup [at : {"snapping"}, run : Nat]
         \cup [at : {"deciding"}, run : Nat, action : Actions, id : Changes]
         \cup [at : {"loaded", "filed"}, log : Log, entry : Entry]
         \cup [at : {"filing"}, log : Log, entry : Entry, key : Keys]
         \cup [at : {"saving"}, log : Log]

LogInit ==
  /\ day = 0
  /\ runs = 0
  /\ index = Whole(<<>>)
  /\ files = [k \in {} |-> Torn]
  /\ snapshot = "none"
  /\ proc = [p \in Procs |-> Idle]

Move(p, to) == proc' = [proc EXCEPT ![p] = to]
At(p, where) == proc[p].at = where

\* cmd_accept, cmd_reject; cmd_revert, which saves its snapshot first.
Decide(p, action, id) ==
  /\ At(p, "idle") /\ runs < MaxRuns
  /\ runs' = runs + 1
  /\ IF action = "revert"
     THEN id = MaxId /\ snapshot' = "torn" /\ Move(p, [at |-> "snapping", run |-> runs])
     ELSE UNCHANGED snapshot /\ Move(p, [at |-> "deciding", run |-> runs, action |-> action, id |-> id])
  /\ UNCHANGED <<day, index, files>>
\* do_revert: two reverts overwrite each other's baseline, and may tear it.
Snapshot(p) ==
  /\ At(p, "snapping")
  /\ snapshot' \in (IF snapshot = "whole" THEN {"whole", "torn"} ELSE {"whole"})
  /\ Move(p, [at |-> "deciding", run |-> proc[p].run, action |-> "revert", id |-> MaxId])
  /\ UNCHANGED <<day, runs, index, files>>

\* load_audit_log: an index that does not parse is an empty one.
Listed == IF index.whole THEN index.content ELSE <<>>
\* Mutant of Load: the index is saved before the file.
LoadIndexFirst(p) ==
  /\ At(p, "deciding")
  /\ Move(p, [at |-> "filed", log |-> Listed,
              entry |-> [run |-> proc[p].run, day |-> day, action |-> proc[p].action, id |-> proc[p].id]])
  /\ UNCHANGED <<day, runs, index, files, snapshot>>

Load(p) ==
  /\ At(p, "deciding")
  /\ Move(p, [at |-> "loaded", log |-> Listed,
              entry |-> [run |-> proc[p].run, day |-> day, action |-> proc[p].action, id |-> proc[p].id]])
  /\ UNCHANGED <<day, runs, index, files, snapshot>>

\* record_entry: the file is named after the day on which it is written.
KeyOf(entry, d) == <<d, entry.action, entry.id>>
Put(k, content) == files' = [j \in DOMAIN files \cup {k} |-> IF j = k THEN content ELSE files[j]]
CreateFile(p) ==
  /\ At(p, "loaded")
  /\ Put(KeyOf(proc[p].entry, day), Torn)
  /\ Move(p, [at |-> "filing", log |-> proc[p].log, entry |-> proc[p].entry, key |-> KeyOf(proc[p].entry, day)])
  /\ UNCHANGED <<day, runs, index, snapshot>>
\* Over what another has written meanwhile, the end of it may stay behind.
Over(old, new) == IF old.whole THEN {Torn, Whole(new)} ELSE {Whole(new)}
FillFile(p) ==
  /\ At(p, "filing")
  /\ \E content \in Over(files[proc[p].key], proc[p].entry) : Put(proc[p].key, content)
  /\ Move(p, [at |-> "filed", log |-> proc[p].log, entry |-> proc[p].entry])
  /\ UNCHANGED <<day, runs, index, snapshot>>

\* save_audit_log: the log that was loaded and the new entry, whatever another
\* process has saved since.
CreateIndex(p) ==
  /\ At(p, "filed")
  /\ index' = Torn
  /\ Move(p, [at |-> "saving", log |-> Append(proc[p].log, proc[p].entry)])
  /\ UNCHANGED <<day, runs, files, snapshot>>
FillIndex(p) ==
  /\ At(p, "saving")
  /\ index' \in (IF index.whole /\ Len(index.content) < Len(proc[p].log)
                 THEN {Whole(proc[p].log)} ELSE Over(index, proc[p].log))
  /\ Move(p, Idle)
  /\ UNCHANGED <<day, runs, files, snapshot>>

\* A process dies, wherever it is.
Crash(p) == ~At(p, "idle") /\ Move(p, Idle) /\ UNCHANGED <<day, runs, index, files, snapshot>>
Midnight == day < MaxDay /\ day' = day + 1 /\ UNCHANGED <<runs, index, files, snapshot, proc>>

LogNext ==
  \/ \E p \in Procs, action \in Actions, id \in Changes : Decide(p, action, id)
  \/ \E p \in Procs :
       Snapshot(p) \/ Load(p) \/ CreateFile(p) \/ FillFile(p) \/ CreateIndex(p) \/ FillIndex(p) \/ Crash(p)
  \/ Midnight

LogSpec == LogInit /\ [][LogNext]_logVars

LogTypeOK ==
  /\ day \in Nat /\ runs \in Nat
  /\ index \in Contents(Log)
  /\ DOMAIN files \subseteq Keys
  /\ \A k \in DOMAIN files : files[k] \in Contents(Entry)
  /\ snapshot \in {"none", "torn", "whole"}
  /\ proc \in [Procs -> Process]

\* An entry is filed: its file is there, and a revert's snapshot with it.
Filed(entry) ==
  /\ \E k \in DOMAIN files : k[1] >= entry.day /\ k = KeyOf(entry, k[1])
  /\ entry.action = "revert" => snapshot # "none"

\* Whatever else is lost when processes overlap or die, what the index lists has
\* a file on disk, which it shares with what was decided of the same change on
\* the same day, and a listed revert has its snapshot: the index is saved last
\* (record_entry and cmd_revert, evolve.rs).
ListedIsFiled == \A i \in DOMAIN Listed : Filed(Listed[i])
=============================================================================
