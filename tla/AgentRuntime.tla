---------------------------- MODULE AgentRuntime ----------------------------
(* The seven-channel runtime and its healing wrapper                         *)
(* (src/compiler/src/runtime.rs).  A runtime r is a record: its frames, the  *)
(* functions loaded, the cognitive phase, the session's governance level,    *)
(* the depth of calls, and the flag and value of a return; refused is        *)
(* history, the calls refused so far.  Events, logs of checks and the clock, *)
(* whose violations are only warnings, are left out.                         *)
EXTENDS Values

CONSTANTS MaxDepth,  \* max_depth (64 in the code)
          Fuel       \* bound on loop turns of one call

Empty == [x \in {} |-> None]
Levels == <<"prepare", "suggest", "approve", "execute">>
Phases == <<"perceive", "reason", "decide", "act", "loop">>
Rank(s, x) == CHOOSE i \in DOMAIN s : s[i] = x

New(level) == [frames |-> <<Empty>>, fns |-> Empty, phase |-> "idle", level |-> level,
               depth |-> 0, refused |-> 0, returned |-> FALSE, value |-> None, fuel |-> Fuel]

\* load_stmt: only the functions of a program are loaded; what is not written is
\* pure and neither staged nor governed.
Definition(s) == [name |-> s[2], params |-> [i \in DOMAIN s[3] |-> s[3][i][1]], body |-> s[6],
                  effect |-> IF s[5].effect = <<>> THEN "pure" ELSE s[5].effect[1],
                  loop |-> s[5].loop, gov |-> s[5].gov]
Load(r, program) ==
  FoldLeft(LAMBDA q, s : IF Of(s, "fn") THEN [q EXCEPT !.fns = (s[2] :> Definition(s)) @@ @] ELSE q,
           r, program)

PushScope(r) == [r EXCEPT !.frames = Append(@, Empty)]
PopScope(r) == [r EXCEPT !.frames = SubSeq(@, 1, Len(@) - 1)]
Popped(res) == [res EXCEPT !.m = PopScope(@)]
Define(r, x, v) == [r EXCEPT !.frames[Len(r.frames)] = (x :> v) @@ @]
Holders(r, x) == {i \in 1..Len(r.frames) : x \in DOMAIN r.frames[i]}
Lookup(r, x) == r.frames[CHOOSE i \in Holders(r, x) : \A j \in Holders(r, x) : j <= i][x]

\* An error of its own kind, which a try catches and the healing looks at.
Err(kind, r) == Stop("error", kind, r)

\* check_phase and GovernanceChecker::check.
PhaseAllows(r, f) == f.loop = <<>> \/ r.phase = "idle" \/ Rank(Phases, f.loop[1]) <= Rank(Phases, r.phase)
LevelAllows(r, f) == f.gov = <<>> \/ Rank(Levels, f.gov[1]) <= Rank(Levels, r.level)
PhaseOf(f) == IF f.loop # <<>> THEN f.loop[1]
              ELSE IF f.effect \in {"io", "async"} THEN "act" ELSE "reason"

\* as_bool.
Condition(v) == Tag(v) \in {"bool", "int", "none", "str"}
Holds(v) == CASE Of(v, "bool") -> v[2] [] Of(v, "int") -> v[2] # 0
              [] Of(v, "none") -> FALSE [] Of(v, "str") -> v[2] # ""
Test(v, r, K(_, _)) == IF Condition(v) THEN K(Holds(v), r) ELSE Err("type", r)

\* eval_binary_op: both sides of one type, and no assignment.
Operate(op, a, b, r) ==
  CASE Of(a, "int") /\ Of(b, "int") /\ op \in {"/", "%"} ->
         IF b[2] = 0 THEN Err("zero", r)
         ELSE Ok(Num(IF op = "/" THEN Quotient(a[2], b[2]) ELSE Remainder(a[2], b[2])), r)
    [] Of(a, "int") /\ Of(b, "int") /\ op \in {"+", "-", "*"} ->
         Ok(Num(CASE op = "+" -> a[2] + b[2] [] op = "-" -> a[2] - b[2] [] op = "*" -> a[2] * b[2]), r)
    [] Of(a, "int") /\ Of(b, "int") /\ op \in {"<", ">", "<=", ">="} ->
         Ok(Bool(Compare(op, a[2], b[2])), r)
    [] Tag(a) = Tag(b) /\ Tag(a) \in {"int", "str", "bool"} /\ op \in {"==", "!="} ->
         Ok(Bool((a[2] = b[2]) = (op = "==")), r)
    [] Of(a, "str") /\ Of(b, "str") /\ op = "+" -> Ok(Str(a[2] \o b[2]), r)
    [] Of(a, "bool") /\ Of(b, "bool") /\ op \in {"&&", "||"} ->
         Ok(Bool(IF op = "&&" THEN a[2] /\ b[2] ELSE a[2] \/ b[2]), r)
    [] OTHER -> IF "float" \in {Tag(a), Tag(b)} THEN Beyond(r) ELSE Err("type", r)

\* Debug, the text a bare name of a pattern is looked for in.
RECURSIVE Text(_)
Text(v) ==
  CASE Of(v, "int") -> "Int(" \o ToString(v[2]) \o ")"
    [] Of(v, "bool") -> "Bool(" \o Show(v) \o ")"
    [] Of(v, "str") -> "String(\"" \o v[2] \o "\")"
    [] Of(v, "char") -> "Char('" \o v[2] \o "')"
    [] Of(v, "none") -> "None"
    [] Of(v, "array") -> IF v[2] = <<>> THEN "Array([])"
         ELSE FoldLeft(LAMBDA s, x : s \o ", " \o Text(x), "Array([" \o Text(v[2][1]), Tail(v[2])) \o "])"
    [] Of(v, "some") -> "Option(true, Some(" \o Text(v[2]) \o "))"
    [] Of(v, "nothing") -> "Option(false, None)"
    [] Of(v, "ok") -> "Result(true, Some(" \o Text(v[2]) \o "), None)"
    [] Of(v, "err") -> "Result(false, None, Some(" \o Text(v[2]) \o "))"
    [] Of(v, "func") -> "Func(\"" \o v[2] \o "\")"
Within(s, part) == \E i \in 1..Len(s) - Len(part) + 1 : SubSeq(s, i, i + Len(part) - 1) = part
\* match_pattern: it binds nothing, so Some(x) leaves x unknown to its arm.
Matches(p, v) ==
  CASE p.kind = "wild" -> TRUE
    [] p.kind = "lit" -> v = p.value[1]
    [] p.kind = "ctor" /\ p.name = "Some" -> Of(v, "some")
    [] p.kind = "ctor" /\ p.name = "None" -> Of(v, "nothing")
    [] p.kind = "ctor" /\ p.name = "Ok" -> Of(v, "ok")
    [] p.kind = "ctor" /\ p.name = "Err" -> Of(v, "err")
    [] p.kind = "ctor" /\ p.name \notin {"Some", "None", "Ok", "Err"} -> Within(Text(v), p.name)
    [] OTHER -> FALSE

\* What there is to do of a tree; the functions below call each other through it.
RECURSIVE Do(_, _)
Eval(e, r) == Do(<<"eval", e>>, r)
EvalAll(es, vs, r) == Do(<<"all", es, vs>>, r)
Exec(s, r) == Do(<<"exec", s>>, r)
Stmts(ss, last, r) == Do(<<"block", ss, last>>, r)
While(c, body, r) == Do(<<"while", c, body>>, r)
For(x, items, body, r) == Do(<<"for", x, items, body>>, r)
Arms(v, arms, scoped, r) == Do(<<"arms", v, arms, scoped>>, r)
Piped(v, ops, r) == Do(<<"pipe", v, ops>>, r)

\* exec_block: the flag of a return is reset where a block starts, and tested
\* after each statement, whoever has set it.
ExecStmts(ss, last, r) ==
  IF ss = <<>> THEN Ok(last, r)
  ELSE Bind(Exec(ss[1], r), LAMBDA v, q :
         IF q.returned THEN Ok(q.value, q) ELSE Stmts(Tail(ss), v, q))
Block(ss, r) == Stmts(ss, None, [r EXCEPT !.returned = FALSE, !.value = None])
Scoped(ss, r) == Popped(Block(ss, PushScope(r)))

Refused(r) == [r EXCEPT !.depth = @ + 1, !.refused = @ + 1]
\* call_fn: a call refused for its phase or its level keeps its depth.  The
\* arguments beyond the parameters are dropped, missing ones stay unbound.
\* Mutant of CallFn: an error of the body leaves before the depth is given back.
CallFnLeaky(f, args, r) ==
  IF r.depth >= MaxDepth THEN Err("overflow", r)
  ELSE IF ~PhaseAllows(r, f) THEN Err("phase", Refused(r))
  ELSE IF ~LevelAllows(r, f) THEN Err("governance", Refused(r))
  ELSE LET inside == [PushScope(r) EXCEPT !.depth = @ + 1, !.phase = PhaseOf(f)]
           bound == FoldLeft(LAMBDA q, i : Define(q, f.params[i], args[i]), inside,
                             [i \in DOMAIN f.params \cap DOMAIN args |-> i])
           res == Block(f.body, bound)
       IN IF res.sig = "error" THEN res ELSE [Popped(res) EXCEPT !.m.depth = @ - 1]
CallFn(f, args, r) ==
  IF r.depth >= MaxDepth THEN Err("overflow", r)
  ELSE IF ~PhaseAllows(r, f) THEN Err("phase", Refused(r))
  ELSE IF ~LevelAllows(r, f) THEN Err("governance", Refused(r))
  ELSE LET inside == [PushScope(r) EXCEPT !.depth = @ + 1, !.phase = PhaseOf(f)]
           bound == FoldLeft(LAMBDA q, i : Define(q, f.params[i], args[i]), inside,
                             [i \in DOMAIN f.params \cap DOMAIN args |-> i])
           res == Block(f.body, bound)
       IN [Popped(res) EXCEPT !.m.depth = @ - 1]
CallNamed(name, args, r) ==
  IF name \in DOMAIN r.fns THEN CallFn(r.fns[name], args, r) ELSE Err("undefined", r)
\* map, filter and fold call the function their operand names, which is how every
\* other operator is called: the parser makes the operand of the operator's name.
EvalPipe(v, ops, r) ==
  IF ops = <<>> THEN Ok(v, r)
  ELSE Bind(CallNamed(ops[1], <<v>>, r), LAMBDA w, q : Piped(w, Tail(ops), q))

EvalArgs(es, vs, r) ==
  IF es = <<>> THEN Ok(vs, r) ELSE Bind(Eval(es[1], r), LAMBDA v, q : EvalAll(Tail(es), Append(vs, v), q))

\* The first arm that matches and whose guard holds; without one the match is none.
ExecMatch(v, arms, scoped, r) ==
  IF arms = <<>> THEN Ok(None, r)
  ELSE IF ~Matches(arms[1][1], v) THEN Arms(v, Tail(arms), scoped, r)
  ELSE Bind(IF arms[1][2] = <<>> THEN Ok(Bool(TRUE), r) ELSE Eval(arms[1][2][1], r), LAMBDA g, q :
         Test(g, q, LAMBDA holds, p :
           IF ~holds THEN Arms(v, Tail(arms), scoped, p)
           ELSE IF scoped THEN Scoped(arms[1][3], p) ELSE Exec(arms[1][3][1], p)))

Ident(x, r) ==
  CASE Holders(r, x) # {} -> Ok(Lookup(r, x), r)
    [] Holders(r, x) = {} /\ x \in DOMAIN r.fns -> Ok(<<"func", x>>, r)
    [] OTHER -> Err("undefined", r)
Unary(op, e, r) ==
  Bind(Eval(e, r), LAMBDA v, q :
    CASE op = "-" /\ Of(v, "int") -> Ok(Num(-v[2]), q)
      [] op = "!" /\ Of(v, "bool") -> Ok(Bool(~v[2]), q)
      [] OTHER -> IF Of(v, "float") THEN Beyond(q) ELSE Err("type", q))
\* A call by the name a function or a text has, evaluated before its arguments.
Call(callee, args, r) ==
  Bind(Eval(callee, r), LAMBDA f, q :
    IF Tag(f) \notin {"func", "str"} THEN Err("type", q)
    ELSE Bind(EvalAll(args, <<>>, q), LAMBDA vs, p : CallNamed(f[2], vs, p)))
Index(object, at, r) ==
  Bind(Eval(object, r), LAMBDA a, q : Bind(Eval(at, q), LAMBDA i, p :
    IF ~Of(a, "array") \/ ~Of(i, "int") THEN Err("type", p)
    ELSE IF i[2] \in 0..Len(a[2]) - 1 THEN Ok(a[2][i[2] + 1], p) ELSE Err("bounds", p)))
\* A range leaves its end out: the parser writes no other.
Upto(from, to) == <<"array", [i \in 1..(to - from) |-> Num(from + i - 1)]>>
Wrapped(e, r) ==
  IF Of(e, "none") THEN Ok(<<"nothing">>, r)
  ELSE Bind(Eval(e[2], r), LAMBDA v, q : Ok(<<Tag(e), v>>, q))
EvalExpr(e, r) ==
  CASE Tag(e) \in {"int", "str", "bool", "char", "float"} -> Ok(e, r)
    [] Of(e, "ident") -> Ident(e[2], r)
    [] Of(e, "bin") -> Bind(Eval(e[3], r), LAMBDA a, q : Bind(Eval(e[4], q), LAMBDA b, p :
         Operate(e[2], a, b, p)))
    [] Of(e, "un") -> Unary(e[2], e[3], r)
    [] Of(e, "call") -> Call(e[2], e[3], r)
    [] Of(e, "ifx") -> Bind(Eval(e[2], r), LAMBDA c, q : Test(c, q, LAMBDA holds, p :
         Eval(IF holds THEN e[3] ELSE e[4], p)))
    [] Of(e, "matchx") -> Bind(Eval(e[2], r), LAMBDA v, q : Arms(v, e[3], FALSE, q))
    [] Of(e, "array") -> Bind(EvalAll(e[2], <<>>, r), LAMBDA vs, q : Ok(<<"array", vs>>, q))
    [] Of(e, "member") -> Bind(Eval(e[2], r), LAMBDA v, q : Err("type", q))
    [] Of(e, "index") -> Index(e[2], e[3], r)
    [] Of(e, "pipe") -> Bind(Eval(e[2], r), LAMBDA v, q : Piped(v, e[3], q))
    [] Of(e, "range") -> Ok(Upto(e[2], e[3]), r)
    [] Tag(e) \in {"none", "some", "ok", "err"} -> Wrapped(e, r)

\* A loop's scope is popped after its body, but not when the body fails.
ExecWhile(c, body, r) ==
  IF r.fuel = 0 THEN Stop("diverges", None, r)
  ELSE Bind(Eval(c, r), LAMBDA v, q : Test(v, q, LAMBDA holds, p :
    IF ~holds THEN Ok(None, p)
    ELSE Bind(Block(body, PushScope([p EXCEPT !.fuel = @ - 1])), LAMBDA w, o :
      IF o.returned THEN Ok(o.value, PopScope(o)) ELSE While(c, body, PopScope(o)))))
ExecFor(x, items, body, r) ==
  IF items = <<>> THEN Ok(None, r)
  ELSE Bind(Block(body, Define(PushScope(r), x, items[1])), LAMBDA v, q :
    IF q.returned THEN Ok(q.value, PopScope(q)) ELSE For(x, Tail(items), body, PopScope(q)))
OrNone(opt, r) == IF opt = <<>> THEN Ok(None, r) ELSE Eval(opt[1], r)

\* A try catches every error of its body and gives the handler its text.
Try(body, name, handler, r) ==
  LET res == Scoped(body, r)
      into == PushScope(res.m)
  IN IF res.sig # "error" THEN res
     ELSE Popped(Block(handler, IF name = <<>> THEN into ELSE Define(into, name[1], Str(res.v))))
Asserted(c, msg, r) ==
  Bind(Eval(c, r), LAMBDA v, q : Test(v, q, LAMBDA holds, p :
    IF holds THEN Ok(None, p) ELSE Bind(OrNone(msg, p), LAMBDA t, o : Err("assertion", o))))
Spawn(decl, r) ==
  LET f == [Definition(decl) EXCEPT !.effect = IF decl[5].effect = <<>> THEN "spawn" ELSE @,
                                    !.loop = <<>>, !.gov = <<>>]
  IN Ok(None, [r EXCEPT !.fns = (f.name :> f) @@ @])

\* exec_stmt.  A spawned function is only loaded; other declarations do nothing.
ExecStmt(s, r) ==
  CASE Tag(s) \in {"let", "const"} ->
         Bind(OrNone(s[Len(s)], r), LAMBDA v, q : Ok(None, Define(q, s[Len(s) - 2], v)))
    [] Of(s, "return") -> Bind(OrNone(s[2], r), LAMBDA v, q :
         Ok(v, [q EXCEPT !.returned = TRUE, !.value = v]))
    [] Of(s, "if") -> Bind(Eval(s[2], r), LAMBDA c, q : Test(c, q, LAMBDA holds, p :
         Scoped(IF holds THEN s[3] ELSE s[4], p)))
    [] Of(s, "while") -> While(s[2], s[3], r)
    [] Of(s, "for") -> Bind(Eval(s[3], r), LAMBDA v, q :
         CASE Of(v, "array") -> For(s[2], v[2], s[4], q)
           [] Of(v, "str") -> Beyond(q)
           [] OTHER -> Err("type", q))
    [] Of(s, "match") -> Bind(Eval(s[2], r), LAMBDA v, q : Arms(v, s[3], TRUE, q))
    [] Of(s, "expr") -> Eval(s[2], r)
    [] Of(s, "try") -> Try(s[2], s[3], s[4], r)
    [] Of(s, "assert") -> Asserted(s[2], s[3], r)
    [] Of(s, "spawn") -> Spawn(s[2], r)
    [] OTHER -> Ok(None, r)

Do(work, r) ==
  CASE work[1] = "eval" -> EvalExpr(work[2], r)
    [] work[1] = "all" -> EvalArgs(work[2], work[3], r)
    [] work[1] = "exec" -> ExecStmt(work[2], r)
    [] work[1] = "block" -> ExecStmts(work[2], work[3], r)
    [] work[1] = "while" -> ExecWhile(work[2], work[3], r)
    [] work[1] = "for" -> ExecFor(work[2], work[3], work[4], r)
    [] work[1] = "arms" -> ExecMatch(work[2], work[3], work[4], r)
    [] work[1] = "pipe" -> EvalPipe(work[2], work[3], r)

\* Runtime::call.
Invoke(name, args, r) == CallNamed(name, args, [r EXCEPT !.fuel = Fuel])

(* SelfHealingRuntime::call_with_healing, for each recovery mode.            *)
Modes == {"Fallback", "RetryWithDefault", "DegradeGovernance"}
\* A fallback lowers the session to suggest, whatever it was, and a fallback
\* that fails leaves it at execute, whatever it was.
Fallback(name, args, res) ==
  LET again == Invoke(name, args, [res.m EXCEPT !.level = "suggest"])
  IN IF res.v # "phase" THEN res
     ELSE IF again.sig = "ok" THEN again ELSE Err(res.v, [again.m EXCEPT !.level = "execute"])
\* Mutant of Degrade: one level up.
DegradeUp(name, args, res) ==
  IF res.v # "governance" \/ res.m.level = "execute" THEN res
  ELSE LET higher == Levels[Rank(Levels, res.m.level) + 1]
           again == Invoke(name, args, [res.m EXCEPT !.level = higher])
       IN IF again.sig = "ok" THEN again ELSE Err(res.v, again.m)
Degrade(name, args, res) ==
  IF res.v # "governance" \/ res.m.level = "prepare" THEN res
  ELSE LET lower == Levels[Rank(Levels, res.m.level) - 1]
           again == Invoke(name, args, [res.m EXCEPT !.level = lower])
       IN IF again.sig = "ok" THEN again ELSE Err(res.v, again.m)
CallWithHealing(mode, name, args, r) ==
  LET res == Invoke(name, args, r)
  IN CASE res.sig # "error" -> res
       [] res.sig = "error" /\ mode = "Fallback" -> Fallback(name, args, res)
       [] res.sig = "error" /\ mode = "RetryWithDefault" ->
            IF res.v = "zero" THEN Ok(Num(0), res.m) ELSE res
       [] res.sig = "error" /\ mode = "DegradeGovernance" -> Degrade(name, args, res)
=============================================================================
