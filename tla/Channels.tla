------------------------------ MODULE Channels ------------------------------
(* The channels beside the value type (src/compiler/src/ty2.rs): effect,     *)
(* capability, confidence, cognitive loop, governance and time, inferred of  *)
(* the trees of Parser and checked against what a function declares.         *)
EXTENDS Integers, Sequences, SequencesExt, FiniteSetsExt, TLC

LOCAL T == INSTANCE Types

\* The orders and what two values have in common; effects and capabilities may
\* have nothing in common, then the caller's default stands.
Rank(s, x) == CHOOSE i \in DOMAIN s : s[i] = x
Confidences == <<"uncertain", "generated", "inferred", "verified", "proven">>
Loops == <<"perceive", "reason", "decide", "act", "loop">>
Levels == <<"prepare", "suggest", "approve", "execute">>
Leq(s, a, b) == Rank(s, a) <= Rank(s, b)
Highest(s, xs) == FoldLeft(LAMBDA a, b : IF Leq(s, b, a) THEN a ELSE b, s[1], xs)
Lowest(s, xs) == FoldLeft(LAMBDA a, b : IF Leq(s, a, b) THEN a ELSE b, s[Len(s)], xs)
EffectLeq(a, b) == a \in {"pure", b} \/ <<a, b>> = <<"io", "async">>
CapabilityLeq(a, b) == a \in {"cpu", b}
Join(a, b) == CASE EffectLeq(a, b) -> b [] EffectLeq(b, a) -> a [] OTHER -> "async"
JoinCapability(a, b) == CASE CapabilityLeq(a, b) -> b [] CapabilityLeq(b, a) -> a [] OTHER -> "cpu"

\* The expressions a channel is collected from: arguments, branches, and the
\* arms that are expressions.
InArms(arms) == LET es == SelectSeq(arms, LAMBDA a : a[3][1][1] = "expr")
                IN [i \in DOMAIN es |-> es[i][3][1][2]]
Parts(e) ==
  CASE e[1] = "call" -> e[3]
    [] e[1] = "ifx" -> <<e[3], e[4]>>
    [] e[1] = "matchx" -> InArms(e[3])
    [] OTHER -> <<>>
\* The name a call calls, if it is a plain name.
Callee(e) == IF e[1] = "call" /\ e[2][1] = "ident" THEN e[2][2] ELSE ""
Each(F(_), es) == [i \in DOMAIN es |-> F(es[i])]

\* EffectInferencer::infer_expr.
RECURSIVE Effect(_)
Effect(e) ==
  FoldLeft(Join, "pure",
           Append(Each(Effect, Parts(e)), IF Callee(e) \in {"print", "println"} THEN "io" ELSE "pure"))

\* CapabilityInferencer::infer_expr; of the builtins, one name of each prefix.
Accelerated == "sfa_encode" :> "sfa" @@ "gpu_run" :> "gpu" @@ "net_fetch" :> "net"
RECURSIVE Capability(_, _)
Capability(e, fns) ==
  LET known == Accelerated @@ fns
      own == IF Callee(e) \in DOMAIN known THEN known[Callee(e)] ELSE "cpu"
  IN FoldLeft(JoinCapability, "cpu",
              Append(Each(LAMBDA p : Capability(p, fns), Parts(e)), own))

\* ConfidenceInferencer::infer_expr.
RECURSIVE Confidence(_)
Confidence(e) ==
  CASE e[1] \in {"int", "float", "str", "bool", "char", "range"} -> "proven"
    [] e[1] \in {"none", "some", "ok", "err"} -> "inferred"
    [] e[1] = "array" -> Lowest(Confidences, Each(Confidence, e[2]))
    [] e[1] = "bin" -> Lowest(Confidences, Each(Confidence, <<e[3], e[4]>>))
    [] e[1] = "un" -> Confidence(e[3])
    [] e[1] \in {"call", "ifx", "matchx"} ->
         LET own == CASE e[1] # "call" -> "proven"
                      [] Callee(e) \in {"llm_generate", "llm_complete", "llm_embed"} -> "generated"
                      [] Callee(e) \in {"verify", "validate", "check"} -> "verified"
                      [] Callee(e) \in {"prove", "formal_verify"} -> "proven"
                      [] OTHER -> "inferred"
         IN Lowest(Confidences, Append(Each(Confidence, Parts(e)), own))
    [] OTHER -> "uncertain"

\* CognitiveLoopInferencer::infer_expr: a call with arguments has their phase.
RECURSIVE Loop(_)
Loop(e) ==
  CASE e[1] \in {"bin", "un"} -> "reason"
    [] e[1] \in {"ifx", "matchx"} -> "decide"
    [] e[1] = "call" ->
         CASE Callee(e) \in {"sfa_encode", "sfa_query", "sfa_attend", "llm_infer"} -> "loop"
           [] Callee(e) = "" \/ e[3] = <<>> -> "act"
           [] OTHER -> Highest(Loops, Each(Loop, e[3]))
    [] OTHER -> "perceive"

\* GovernanceInferencer::infer_expr.
Approved == {"write", "delete", "update", "charge", "pay", "send_money", "delete_user", "modify_permissions"}
Executed == {"execute", "deploy", "shutdown", "format", "exec"}
RECURSIVE Governance(_)
Governance(e) ==
  CASE e[1] \in {"bin", "un", "ifx", "matchx"} -> "suggest"
    [] e[1] = "call" ->
         CASE Callee(e) \in Approved -> "approve"
           [] Callee(e) \in Executed -> "execute"
           [] Callee(e) = "" -> "suggest"
           [] OTHER -> Highest(Levels, Each(Governance, e[3]))
    [] OTHER -> "prepare"

\* TimeConstraintInferencer: only a latency is ever inferred, 10 ms for a call.
Latency(e) == IF e[1] = "call" THEN <<10>> ELSE IF e[1] \in {"member", "index", "pipe"} THEN <<>> ELSE <<0>>

\* walk_expr_check: an expression and what it is made of, but not what is in an
\* array, an option, a result, an index, a pipe or the arms of a match.
RECURSIVE Visited(_), Walked(_)
Visited(e) ==
  <<e>> \o FlattenSeq(Each(Visited, CASE e[1] = "bin" -> <<e[3], e[4]>>
                                      [] e[1] = "un" -> <<e[3]>>
                                      [] e[1] = "call" -> e[3]
                                      [] e[1] = "ifx" -> <<e[2], e[3], e[4]>>
                                      [] OTHER -> <<>>))
\* walk_stmt_for_check: the expressions of a body, also of the blocks in it.
\* Mutant of OfStmt: the other branch of an if is forgotten.
OfStmtThen(s) ==
  CASE s[1] \in {"expr", "assert"} -> Visited(s[2])
    [] s[1] \in {"return", "let", "const"} -> FlattenSeq(Each(Visited, s[Len(s)]))
    [] s[1] \in {"if", "while"} -> Visited(s[2]) \o Walked(s[3])
    [] s[1] = "for" -> Visited(s[3]) \o Walked(s[4])
    [] s[1] = "match" -> Visited(s[2]) \o FlattenSeq(Each(LAMBDA a : Walked(a[3]), s[3]))
    [] s[1] = "try" -> Walked(s[2]) \o Walked(s[4])
    [] OTHER -> <<>>
OfStmt(s) ==
  CASE s[1] \in {"expr", "assert"} -> Visited(s[2])
    [] s[1] \in {"return", "let", "const"} -> FlattenSeq(Each(Visited, s[Len(s)]))
    [] s[1] = "if" -> Visited(s[2]) \o Walked(s[3]) \o Walked(s[4])
    [] s[1] = "while" -> Visited(s[2]) \o Walked(s[3])
    [] s[1] = "for" -> Visited(s[3]) \o Walked(s[4])
    [] s[1] = "match" -> Visited(s[2]) \o FlattenSeq(Each(LAMBDA a : Walked(a[3]), s[3]))
    [] s[1] = "try" -> Walked(s[2]) \o Walked(s[4])
    [] OTHER -> <<>>
Walked(ss) == FlattenSeq(Each(OfStmt, ss))

\* SevenChannelInferencer::infer_program, for one function: what it declares,
\* and the errors of its body.  The capability is declared and never checked.
\* parse_effect and the others: a word that is not known is the first of them.
Known(words, note) == IF note \in Range(words) THEN note ELSE words[1]
Effects == <<"pure", "io", "async", "spawn">>
Capabilities == <<"cpu", "gpu", "sfa", "net">>
Read(words, notes) == Each(LAMBDA w : Known(words, w), notes)
Millis(note, units) == IF note = <<>> \/ note[1][2] \notin DOMAIN units THEN <<>>
                       ELSE <<note[1][1] * units[note[1][2]]>>
Declared(f, types) ==
  LET n == f[5]
      latency == Millis(n.latency, "ms" :> 1 @@ "" :> 1)
      timeout == Millis(n.timeout, "ms" :> 1 @@ "s" :> 1000 @@ "" :> 1000)
      throughput == Millis(n.throughput, "/s" :> 1 @@ "" :> 1)
  IN [name |-> f[2], value |-> IF f[2] \in DOMAIN types THEN types[f[2]] ELSE T!Base("func"),
      effect |-> IF n.effect = <<>> THEN (IF f[7] THEN "async" ELSE "pure") ELSE Known(Effects, n.effect[1]),
      capability |-> IF n.capability = <<>> THEN "cpu" ELSE Known(Capabilities, n.capability[1]),
      confidence |-> Read(Confidences, n.confidence), loop |-> Read(Loops, n.loop), gov |-> Read(Levels, n.gov),
      time |-> [latency |-> latency, timeout |-> timeout, throughput |-> throughput]]
Violations(d, body) ==
  LET es == Walked(body)
      Count(Bad(_)) == Len(SelectSeq(es, Bad))
  IN [effect |-> Count(LAMBDA e : ~EffectLeq(Effect(e), d.effect)),
      loop |-> IF d.loop = <<>> THEN 0 ELSE Count(LAMBDA e : ~Leq(Loops, Loop(e), d.loop[1])),
      gov |-> IF d.gov = <<>> THEN 0 ELSE Count(LAMBDA e : ~Leq(Levels, Governance(e), d.gov[1])),
      time |-> IF d.time.latency = <<>> THEN 0
               ELSE Count(LAMBDA e : Latency(e) # <<>> /\ Latency(e)[1] > d.time.latency[1])]
Infer(program) ==
  LET fns == SelectSeq(program, LAMBDA s : s[1] = "fn")
      types == T!Infer(program).known
  IN Each(LAMBDA f : LET d == Declared(f, types)
                     IN [declared |-> d, errors |-> Violations(d, f[6])], fns)
=============================================================================
