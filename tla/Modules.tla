------------------------------ MODULE Modules ------------------------------
(* The module system (src/compiler/src/module.rs): a graph of modules is     *)
(* searched for a cycle, sorted, or loaded from one module down.  A module   *)
(* is a number, in the order of the names; a graph maps a module to the      *)
(* sequence of what it depends on, which may repeat itself and name what is  *)
(* no module.                                                                *)
EXTENDS Integers, Sequences, FiniteSets, Functions

CONSTANT DependencyGraphs

IsGraph(g) ==
  /\ IsFiniteSet(DOMAIN g) /\ DOMAIN g \subseteq Nat
  /\ g \in [DOMAIN g -> Seq(Nat)]
ASSUME GraphsAssumption == \A g \in DependencyGraphs : IsGraph(g)

VARIABLES graph,  \* the modules: of the dependency graph, or loaded
          job,    \* what is done with them
          root,   \* load: the module asked for
          todo,   \* the modules the walk is still to start from
          stack,  \* the calls of the walk, each with how many names it is past
          seen,   \* visited
          found,  \* check: a cycle is
          degree, \* sort: in_degree, what each module waits for
          queue,  \* sort: what waits for nothing
          order   \* the answer of sort and of load
modulesVars == <<graph, job, root, todo, stack, seen, found, degree, queue, order>>
walkVars == <<todo, stack, seen, found>>
sortVars == <<degree, queue>>

Deps(g, m) == IF m \in DOMAIN g THEN g[m] ELSE <<>>
Uses(g, m) == Range(Deps(g, m))
Names(g) == DOMAIN g \cup UNION {Uses(g, m) : m \in DOMAIN g}
\* One for every mention.
Degree(g) == [m \in Names(g) |-> Len(Deps(g, m))]

Begin(g, j, r) ==
  /\ graph = g /\ job = j /\ root = r
  /\ todo = CASE j = "check" -> DOMAIN g [] j = "load" -> {r} [] OTHER -> {}
  /\ stack = <<>> /\ seen = {} /\ found = FALSE
  /\ degree = Degree(g)
  /\ queue = {m \in Names(g) : Len(Deps(g, m)) = 0}
  /\ order = <<>>
ModulesInit ==
  \E g \in DependencyGraphs : \/ \E j \in {"check", "sort"} : Begin(g, j, 0)
                              \/ \E r \in Names(g) : Begin(g, "load", r)

-----------------------------------------------------------------------------
(* The walks: has_cycle_util and resolve_recursive, one call in another.     *)
Walking == job \in {"check", "load"} /\ ~found
Top == stack[Len(stack)]
Path == {stack[i].module : i \in DOMAIN stack}
\* The call at the top goes on to the next name.
Passed == [stack EXCEPT ![Len(stack)].past = @ + 1]
NextName == Deps(graph, Top.module)[Top.past + 1]

\* The walk enters m; resolve makes an empty module of a name that is not loaded.
Enter(m, calls) ==
  /\ seen' = seen \cup {m}
  /\ stack' = Append(calls, [module |-> m, past |-> 0])
  /\ graph' = IF job = "load" /\ m \notin DOMAIN graph
                THEN [d \in DOMAIN graph \cup {m} |-> Deps(graph, d)] ELSE graph

\* has_cycle starts from every module, seen or not, in the order of a hash map;
\* resolve_all from one.
From(m) ==
  /\ Walking /\ stack = <<>> /\ m \in todo
  /\ todo' = todo \ {m}
  /\ Enter(m, <<>>)
  /\ UNCHANGED <<job, root, found, sortVars, order>>

\* A name not seen yet is walked; one seen is passed, or on the path a cycle.
Descend ==
  /\ Walking /\ stack # <<>> /\ Top.past < Len(Deps(graph, Top.module))
  /\ NextName \notin seen
  /\ Enter(NextName, Passed)
  /\ UNCHANGED <<job, root, todo, found, sortVars, order>>
Pass ==
  /\ Walking /\ stack # <<>> /\ Top.past < Len(Deps(graph, Top.module))
  /\ NextName \in seen
  /\ stack' = Passed
  /\ found' = (job = "check" /\ NextName \in Path)
  /\ UNCHANGED <<graph, job, root, todo, seen, sortVars, order>>

\* The end of a call: the path is left, and a loaded module comes after its own.
Leave ==
  /\ Walking /\ stack # <<>> /\ Top.past = Len(Deps(graph, Top.module))
  /\ stack' = SubSeq(stack, 1, Len(stack) - 1)
  /\ order' = IF job = "load" THEN Append(order, Top.module) ELSE order
  /\ UNCHANGED <<graph, job, root, todo, seen, found, sortVars>>

-----------------------------------------------------------------------------
(* The sort, a turn of its loop: the last name of the queue is placed, and   *)
(* every module that mentions it waits for one less.                         *)
\* Mutant of Released: whoever mentions the module is ready, whatever else it
\* waits for.
ReleasedAny(m) == {d \in DOMAIN graph : m \in Uses(graph, d)}
Released(m) == {d \in DOMAIN graph : m \in Uses(graph, d) /\ degree[d] = 1}
Place(m) ==
  /\ job = "sort" /\ m \in queue /\ \A d \in queue : d <= m
  /\ order' = Append(order, m)
  /\ degree' = [d \in DOMAIN degree |-> IF m \in Uses(graph, d) THEN degree[d] - 1 ELSE degree[d]]
  /\ queue' = (queue \ {m}) \cup Released(m)
  /\ UNCHANGED <<graph, job, root, walkVars>>
\* The answer, told by its length alone: an order, or that there is a cycle.
Sorted == Len(order) = Cardinality(DOMAIN graph)

ModulesNext ==
  \/ \E m \in todo : From(m)
  \/ Descend \/ Pass \/ Leave
  \/ \E m \in queue : Place(m)
ModulesSpec == ModulesInit /\ [][ModulesNext]_modulesVars

-----------------------------------------------------------------------------
(* What the walks and the sort promise.                                      *)
Ended ==
  \/ job = "sort" /\ queue = {}
  \/ job \in {"check", "load"} /\ (found \/ (todo = {} /\ stack = <<>>))

\* Modules none of which can be loaded first.
Cyclic(g) == \E R \in SUBSET DOMAIN g : R # {} /\ \A m \in R : Uses(g, m) \cap R # {}
\* Everything is mentioned once, and is a module.
Clean(g) == \A m \in DOMAIN g : Uses(g, m) \subseteq DOMAIN g /\ IsInjective(g[m])
Complete(g, S) == \A m \in S : Uses(g, m) \subseteq S
\* What is under a module: itself, what it uses, and so on.
Under(g, m) ==
  {d \in Names(g) : \A S \in SUBSET Names(g) : (m \in S /\ Complete(g, S)) => d \in S}
InOrder(g, ms) ==
  /\ IsInjective(ms)
  /\ \A i \in DOMAIN ms : \A d \in Uses(g, ms[i]) : \E j \in 1..(i - 1) : ms[j] = d

\* A cycle is found if and only if there is one; where modules are mentioned once
\* and exist, the sort succeeds if and only if there is none, and puts each module
\* after what it uses; and so does the loading of what is under one module, which
\* lists that and nothing else.  (A second mention is waited for and never comes,
\* and a name that is no module counts in the length the sort is told by, which
\* can hide a cycle: both are kept out.)  (DependencyGraph and ModuleResolver,
\* module.rs.)
ModulesInOrder ==
  Ended =>
    /\ job = "check" => (found <=> Cyclic(graph))
    /\ job = "sort" /\ Clean(graph) =>
         (Sorted <=> ~Cyclic(graph)) /\ (Sorted => InOrder(graph, order))
    /\ job = "load" =>
         Range(order) = Under(graph, root) /\ (~Cyclic(graph) => InOrder(graph, order))
=============================================================================
