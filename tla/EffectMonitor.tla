--------------------------- MODULE EffectMonitor ---------------------------
(* The effect monitors of the sessions and their quota of children           *)
(* (src/control-plane/src/effect_monitor.rs).  A monitor is shared by all    *)
(* who asked for its session, and outlives the session's removal with them.  *)
(* Only check_effect is called by the rest of the code so far; spawning and  *)
(* releasing follow the module's own tests: a child that was let in is       *)
(* released once, and one that was refused is not.                           *)
EXTENDS Integers, Sequences

CONSTANTS Sessions,
          MaxChildren,   \* DEFAULT_MAX_CHILDREN (64 in the code)
          Word,          \* one more than the largest usize
          MaxMonitors,   \* bound on the monitors ever made
          MaxAsked       \* bound on the spawns asked of one monitor

ASSUME MonitorAssumption ==
  /\ {MaxChildren, Word, MaxMonitors, MaxAsked} \subseteq Nat
  /\ MaxAsked < Word

VARIABLES monitors,  \* the monitors made so far
          current    \* the monitor of each session that has one
monitorVars == <<monitors, current>>

Effects == {"pure", "io", "async", "spawn"}
Monitor == [context : Effects, count : 0..Word - 1, alive : Nat, refused : Nat]

\* EffectMonitor::new and set_context.
New(effect) == [context |-> effect, count |-> 0, alive |-> 0, refused |-> 0]

\* check_effect: a table of its own, beside the order the compiler uses.
Allows(context, required) ==
  CASE required = "io" -> context # "pure"
    [] required = "async" -> context \notin {"pure", "io"}
    [] required = "spawn" -> context = "spawn"
    [] OTHER -> TRUE

\* What the counter holds after one more and after one less.
Raised(n) == IF n = Word - 1 THEN 0 ELSE n + 1
Lowered(n) == IF n = 0 THEN Word - 1 ELSE n - 1

MonitorInit == monitors = <<>> /\ current = [s \in {} |-> 0]

\* SessionManager::get_or_create: the effect counts for the first to ask.
GetOrCreate(s, effect) ==
  /\ s \notin DOMAIN current
  /\ Len(monitors) < MaxMonitors
  /\ monitors' = Append(monitors, New(effect))
  /\ current' = [t \in DOMAIN current \cup {s} |->
                   IF t = s THEN Len(monitors) + 1 ELSE current[t]]

\* SessionManager::remove: those who hold the monitor keep it.
RemoveSession(s) ==
  /\ s \in DOMAIN current
  /\ current' = [t \in DOMAIN current \ {s} |-> current[t]]
  /\ UNCHANGED monitors

\* check_spawn: the counter is raised before it is looked at.
Admitted(m) == [m EXCEPT !.count = Raised(@), !.alive = @ + 1]
Turned(m) == [m EXCEPT !.count = Raised(@), !.refused = @ + 1]
\* Mutant of HasPlace: one too many.
HasPlaceAtMost(m) == m.count <= MaxChildren

HasPlace(m) == m.count < MaxChildren
CheckSpawn(i) ==
  /\ monitors[i].context # "pure"
  /\ monitors[i].alive + monitors[i].refused < MaxAsked
  /\ monitors' = [monitors EXCEPT ![i] = IF HasPlace(@) THEN Admitted(@) ELSE Turned(@)]
  /\ UNCHANGED current

\* release_child, when a child is done.
ReleaseChild(i) ==
  /\ monitors[i].alive > 0
  /\ monitors' = [monitors EXCEPT ![i].count = Lowered(@), ![i].alive = @ - 1]
  /\ UNCHANGED current

MonitorNext ==
  \/ \E s \in Sessions, effect \in Effects : GetOrCreate(s, effect)
  \/ \E s \in Sessions : RemoveSession(s)
  \/ \E i \in DOMAIN monitors : CheckSpawn(i)
  \/ \E i \in DOMAIN monitors : ReleaseChild(i)

MonitorSpec == MonitorInit /\ [][MonitorNext]_monitorVars

MonitorTypeOK ==
  /\ monitors \in Seq(Monitor)
  /\ DOMAIN current \subseteq Sessions
  /\ \A s \in DOMAIN current : current[s] \in DOMAIN monitors

\* The counter is the children alive and the spawns refused, so it never wraps,
\* and no more than MaxChildren are alive: spawns that were refused take places
\* for good, they never make any (check_spawn and release_child, effect_monitor.rs).
QuotaAccounted ==
  \A i \in DOMAIN monitors :
    /\ monitors[i].count = monitors[i].alive + monitors[i].refused
    /\ monitors[i].alive <= MaxChildren
=============================================================================
