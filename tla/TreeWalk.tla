------------------------------ MODULE TreeWalk ------------------------------
(* The tree-walking interpreter (src/runtime/src/interpreter.rs, env.rs): a  *)
(* machine m is the chain of scopes, innermost last, and the interpreter's   *)
(* tables of functions, structs and enums.  Tasks and channels are in        *)
(* TaskRuntime.                                                              *)
EXTENDS Values

CONSTANT Fuel   \* bound on loop turns and calls of one run

Empty == [x \in {} |-> None]
Fresh == [env |-> <<Empty>>, fns |-> Empty, structs |-> Empty, enums |-> Empty, fuel |-> Fuel]
Spend(m) == [m EXCEPT !.fuel = @ - 1]

\* Environment: define in the innermost scope, look up and assign outwards.
Define(m, x, v) == [m EXCEPT !.env[Len(m.env)] = (x :> v) @@ @]
Scopes(m, x) == {i \in 1..Len(m.env) : x \in DOMAIN m.env[i]}
Inner(S) == CHOOSE i \in S : \A j \in S : j <= i
Found(m, x) == Scopes(m, x) # {}
Lookup(m, x) == m.env[Inner(Scopes(m, x))][x]
Assign(m, x, v) == [m EXCEPT !.env[Inner(Scopes(m, x))][x] = v]
\* child copies the chain, so what a child scope assigns outside is lost with it.
Child(m) == [m EXCEPT !.env = Append(@, Empty)]
BackTo(r, m) == [r EXCEPT !.m.env = m.env]

Truthy(v) ==
  CASE Of(v, "bool") -> v[2]
    [] Of(v, "int") -> v[2] # 0
    [] Of(v, "str") -> v[2] # ""
    [] Of(v, "array") -> v[2] # <<>>
    [] Tag(v) \in {"none", "nothing", "err"} -> FALSE
    [] OTHER -> TRUE
\* values_equal: scalars of one type only; anything else is never equal.
Same(a, b) == Tag(a) \in {"int", "str", "bool", "char"} /\ Tag(a) = Tag(b) /\ a[2] = b[2]

\* eval_binary, after both operands.
Arithmetic(op, a, b, m) ==
  LET ints == Of(a, "int") /\ Of(b, "int")
  IN CASE op = "+" /\ ints -> Ok(Num(a[2] + b[2]), m)
       [] op = "+" /\ ~ints /\ (Of(a, "str") \/ Of(b, "str")) -> Ok(Str(Show(a) \o Show(b)), m)
       [] op = "-" /\ ints -> Ok(Num(a[2] - b[2]), m)
       [] op = "*" /\ ints -> Ok(Num(a[2] * b[2]), m)
       [] op \in {"/", "%"} /\ ints /\ b[2] = 0 -> Panic(m)
       [] op = "/" /\ ints /\ b[2] # 0 -> Ok(Num(Quotient(a[2], b[2])), m)
       [] op = "%" /\ ints /\ b[2] # 0 -> Ok(Num(Remainder(a[2], b[2])), m)
       [] OTHER -> Error(m)
Operate(op, a, b, m) ==
  CASE op = "==" -> Ok(Bool(Same(a, b)), m)
    [] op = "!=" -> Ok(Bool(~Same(a, b)), m)
    [] op = "&&" -> Ok(Bool(Truthy(a) /\ Truthy(b)), m)
    [] op = "||" -> Ok(Bool(Truthy(a) \/ Truthy(b)), m)
    [] op \in {"<", ">", "<=", ">="} ->
         CASE Of(a, "int") /\ Of(b, "int") -> Ok(Bool(Compare(op, a[2], b[2])), m)
           [] Of(a, "str") /\ Of(b, "str") -> Beyond(m)
           [] OTHER -> Error(m)
    [] OTHER -> Arithmetic(op, a, b, m)

\* eval_range: the end is left out.
Upto(from, to) == <<"array", [i \in 1..(to - from) |-> Num(from + i - 1)]>>
\* call_builtin: a missing argument is a panic, not an error.
Builtins == {"println", "print", "len", "push", "assert", "int", "float", "str", "abs", "range",
             "await", "send", "recv", "spawn_task"}
Builtin(f, args, m) ==
  CASE f \in {"println", "print"} -> Ok(None, m)
    [] f = "assert" -> IF Len(args) > 1 /\ ~Truthy(args[1]) THEN Error(m) ELSE Ok(None, m)
    [] f \in {"float", "await", "send", "recv", "spawn_task"} -> Beyond(m)
    [] OTHER ->
         IF Len(args) < (IF f \in {"push", "range"} THEN 2 ELSE 1) THEN Panic(m)
         ELSE LET v == args[1]
              IN CASE f = "len" -> Ok(Num(IF Tag(v) \in {"array", "str"} THEN Len(v[2]) ELSE 0), m)
                   [] f = "push" -> IF Of(v, "array") THEN Ok(<<"array", Append(v[2], args[2])>>, m)
                                    ELSE Error(m)
                   [] f = "int" -> IF Of(v, "str") THEN Beyond(m)
                                   ELSE Ok(IF Of(v, "int") THEN v ELSE Num(0), m)
                   [] f = "str" -> Ok(Str(Show(v)), m)
                   [] f = "abs" -> IF Of(v, "int") THEN Ok(Num(Magnitude(v[2])), m) ELSE Error(m)
                   [] f = "range" ->
                        IF Of(v, "int") /\ Of(args[2], "int")
                        THEN Ok(Upto(v[2], args[2][2]), m)
                        ELSE Error(m)

\* match_pattern: what the pattern binds, or that it does not match.  A bare
\* name is an enum variant, so it matches no other value.
Miss == [hit |-> FALSE]
Hit(binds) == [hit |-> TRUE, binds |-> binds]
Matched(p, v) ==
  CASE p.kind = "wild" -> Hit(Empty)
    [] p.kind = "lit" -> IF Same(p.value[1], v) THEN Hit(Empty) ELSE Miss
    [] p.kind = "ctor" /\ p.name \in {"Some", "Ok", "Err"} ->
         IF p.binding # <<>> /\ Tag(v) = [Some |-> "some", Ok |-> "ok", Err |-> "err"][p.name]
         THEN Hit(p.binding[1] :> v[2]) ELSE Miss
    [] p.kind = "ctor" /\ p.name = "None" -> IF Of(v, "nothing") THEN Hit(Empty) ELSE Miss
    [] p.kind = "ctor" /\ p.name \notin {"Some", "Ok", "Err", "None"} ->
         IF Of(v, "variant") /\ v[3] = p.name THEN Hit(Empty) ELSE Miss
    [] OTHER -> Miss

\* What there is to do of a tree; the functions below call each other through it.
RECURSIVE Do(_, _)
Eval(e, m) == Do(<<"eval", e>>, m)
EvalAll(es, vs, m) == Do(<<"all", es, vs>>, m)
Exec(s, m) == Do(<<"exec", s>>, m)
Block(ss, last, m) == Do(<<"block", ss, last>>, m)
While(c, body, m) == Do(<<"while", c, body>>, m)
For(x, items, body, r) == Do(<<"for", x, items, body, r>>, r.m)
Match(v, arms, guarded, m) == Do(<<"match", v, arms, guarded>>, m)
Piped(v, ops, m) == Do(<<"pipe", v, ops>>, m)

\* eval_ident: a variable, or a variant of some enum.
Ident(x, m) ==
  IF Found(m, x) THEN Ok(Lookup(m, x), m)
  ELSE LET E == {e \in DOMAIN m.enums : \E i \in DOMAIN m.enums[e] : m.enums[e][i] = x}
       IN IF E = {} THEN Error(m) ELSE Ok(<<"variant", CHOOSE e \in E : TRUE, x>>, m)
InBounds(a, i) == Of(a, "array") /\ Of(i, "int") /\ i[2] \in 0..Len(a[2]) - 1
\* The assignment of eval_binary.  An element of an array is assigned in a copy.
Store(left, v, m) ==
  CASE Of(left, "ident") -> IF Found(m, left[2]) THEN Ok(v, Assign(m, left[2], v)) ELSE Error(m)
    [] Of(left, "index") -> Bind(Eval(left[2], m), LAMBDA a, n : Bind(Eval(left[3], n), LAMBDA i, o :
         IF InBounds(a, i) THEN Ok(v, o) ELSE Error(o)))
    [] OTHER -> Error(m)
\* call_function: a new scope on the closure; a body that does not return gives none.
Call(f, args, m) ==
  IF Len(args) # Len(f[3]) THEN Error(m)
  ELSE IF m.fuel = 0 THEN Stop("diverges", None, m)
  ELSE LET bound == [x \in {f[3][i][1] : i \in DOMAIN f[3]} |->
                       args[CHOOSE i \in DOMAIN f[3] : f[3][i][1] = x
                              /\ \A j \in DOMAIN f[3] : f[3][j][1] = x => j <= i]]
           r == BackTo(Block(f[4], None, [Spend(m) EXCEPT !.env = Append(f[5], bound)]), m)
       IN CASE r.sig = "return" -> Ok(r.v, r.m)
            [] r.sig = "ok" -> Ok(None, r.m)
            [] OTHER -> r
\* eval_call: builtins before structs before the table of functions before variables.
CallNamed(f, args, m) ==
  CASE f \in Builtins -> Builtin(f, args, m)
    [] f \in DOMAIN m.structs \ Builtins ->
         Ok(<<"struct", f, [x \in {m.structs[f][i] : i \in DOMAIN m.structs[f] \cap DOMAIN args} |->
              args[CHOOSE i \in DOMAIN m.structs[f] : m.structs[f][i] = x]]>>, m)
    [] f \in DOMAIN m.fns \ (DOMAIN m.structs \cup Builtins) -> Call(m.fns[f], args, m)
    [] OTHER -> IF Found(m, f) /\ Of(Lookup(m, f), "fn") THEN Call(Lookup(m, f), args, m) ELSE Error(m)
\* eval_pipe knows the functions of the environment only.
EvalPipe(v, ops, m) ==
  IF ops = <<>> THEN Ok(v, m)
  ELSE IF ~Found(m, ops[1]) \/ ~Of(Lookup(m, ops[1]), "fn") THEN Error(m)
  ELSE Bind(Call(Lookup(m, ops[1]), <<v>>, m), LAMBDA w, n : Piped(w, Tail(ops), n))

\* eval_member_access, eval_index.
Member(object, field, m) ==
  Bind(Eval(object, m), LAMBDA v, n :
    IF Of(v, "struct") /\ field \in DOMAIN v[3] THEN Ok(v[3][field], n) ELSE Error(n))
Index(object, at, m) ==
  Bind(Eval(object, m), LAMBDA a, n : Bind(Eval(at, n), LAMBDA i, o :
    IF InBounds(a, i) THEN Ok(a[2][i[2] + 1], o) ELSE Error(o)))
EvalArgs(es, vs, m) ==
  IF es = <<>> THEN Ok(vs, m)
  ELSE Bind(Eval(es[1], m), LAMBDA v, n : EvalAll(Tail(es), Append(vs, v), n))

EvalExpr(e, m) ==
  CASE Tag(e) \in {"int", "str", "bool", "char"} -> Ok(e, m)
    [] Of(e, "float") -> Beyond(m)
    [] Of(e, "ident") -> Ident(e[2], m)
    [] Of(e, "bin") /\ e[2] = "=" -> Bind(Eval(e[4], m), LAMBDA v, n : Store(e[3], v, n))
    [] Of(e, "bin") /\ e[2] # "=" ->
         Bind(Eval(e[3], m), LAMBDA a, n : Bind(Eval(e[4], n), LAMBDA b, o : Operate(e[2], a, b, o)))
    [] Of(e, "un") -> Bind(Eval(e[3], m), LAMBDA v, n :
         IF e[2] = "!" THEN Ok(Bool(~Truthy(v)), n)
         ELSE IF Of(v, "int") THEN Ok(Num(-v[2]), n) ELSE Error(n))
    [] Of(e, "call") ->
         IF Tag(e[2]) \notin {"ident", "member"} THEN Error(m)
         ELSE Bind(EvalAll(e[3], <<>>, m), LAMBDA vs, n : CallNamed(e[2][Len(e[2])], vs, n))
    [] Of(e, "member") -> Member(e[2], e[3], m)
    [] Of(e, "index") -> Index(e[2], e[3], m)
    [] Of(e, "pipe") -> Bind(Eval(e[2], m), LAMBDA v, n : Piped(v, e[3], n))
    [] Of(e, "range") -> Ok(Upto(e[2], e[3]), m)
    [] Of(e, "array") -> Bind(EvalAll(e[2], <<>>, m), LAMBDA vs, n : Ok(<<"array", vs>>, n))
    [] Of(e, "none") -> Ok(<<"nothing">>, m)
    [] Tag(e) \in {"some", "ok", "err"} -> Bind(Eval(e[2], m), LAMBDA v, n : Ok(<<Tag(e), v>>, n))
    [] Of(e, "ifx") -> Bind(Eval(e[2], m), LAMBDA c, n : Eval(IF Truthy(c) THEN e[3] ELSE e[4], n))
    [] Of(e, "matchx") -> Bind(Eval(e[2], m), LAMBDA v, n : Match(v, e[3], FALSE, n))

\* eval_match, and MatchExpr, which forgets the guards: each arm has a scope of its own.
EvalMatch(v, arms, guarded, m) ==
  IF arms = <<>> THEN Error(m)
  ELSE LET hit == Matched(arms[1][1], v)
           inArm == [Child(m) EXCEPT !.env[Len(m.env) + 1] = hit.binds]
           guard == IF guarded /\ arms[1][2] # <<>> THEN Eval(arms[1][2][1], inArm) ELSE Ok(Bool(TRUE), inArm)
       IN CASE ~hit.hit -> Match(v, Tail(arms), guarded, m)
            [] hit.hit /\ guard.sig # "ok" -> BackTo(guard, m)
            [] hit.hit /\ guard.sig = "ok" /\ ~Truthy(guard.v) ->
                 Match(v, Tail(arms), guarded, BackTo(guard, m).m)
            [] OTHER -> BackTo(Block(arms[1][3], None, guard.m), m)

\* eval_while: each turn runs in a child scope, and its errors are dropped.
EvalWhile(c, body, m) ==
  IF m.fuel = 0 THEN Stop("diverges", None, m)
  ELSE Bind(Eval(c, m), LAMBDA v, n :
    IF ~Truthy(v) THEN Ok(None, n)
    ELSE LET r == BackTo(Block(body, None, Child(Spend(n))), n)
         IN IF r.sig \in {"ok", "error"} THEN While(c, body, r.m) ELSE r)
\* eval_for: in the scope of the loop itself.  A string is the sequence of its
\* characters (left out); any other value is the only item.
EvalFor(x, items, body, r) ==
  IF items = <<>> \/ r.sig # "ok" THEN r
  ELSE For(x, Tail(items), body, Block(body, None, Define(r.m, x, items[1])))

OrNone(opt, m) == IF opt = <<>> THEN Ok(None, m) ELSE Eval(opt[1], m)
Let(x, value, m) == Bind(OrNone(value, m), LAMBDA v, n : Ok(v, Define(n, x, v)))
\* eval_fn_decl: the closure is the chain of scopes before the function is in it.
FnDecl(name, params, body, m) ==
  LET f == <<"fn", name, params, body, m.env>>
  IN Ok(None, Define([m EXCEPT !.fns = (name :> f) @@ @], name, f))
\* eval_if: the branches run in the scope they are in.
If(c, yes, no, m) ==
  Bind(Eval(c, m), LAMBDA v, n : Block(IF Truthy(v) THEN yes ELSE no, None, n))

\* eval_stmt.  A const, a try, a trait, an impl, a use, an export and an alias do nothing.
EvalStmt(s, m) ==
  CASE Of(s, "let") -> Let(s[3], s[5], m)
    [] Of(s, "fn") -> FnDecl(s[2], s[3], s[6], m)
    [] Of(s, "return") -> Bind(OrNone(s[2], m), LAMBDA v, n : Stop("return", v, n))
    [] Of(s, "if") -> If(s[2], s[3], s[4], m)
    [] Of(s, "while") -> While(s[2], s[3], m)
    [] Of(s, "for") -> Bind(Eval(s[3], m), LAMBDA v, n :
         IF Of(v, "str") THEN Beyond(n)
         ELSE For(s[2], IF Of(v, "array") THEN v[2] ELSE <<v>>, s[4], Ok(None, n)))
    [] Of(s, "match") -> Bind(Eval(s[2], m), LAMBDA v, n : Match(v, s[3], TRUE, n))
    [] Of(s, "struct") -> Ok(None, [m EXCEPT !.structs = (s[2] :> [i \in DOMAIN s[3] |-> s[3][i][1]]) @@ @])
    [] Of(s, "enum") -> Ok(None, [m EXCEPT !.enums = (s[2] :> s[3]) @@ @])
    [] Tag(s) \in {"spawn", "channel"} -> Beyond(m)
    [] Of(s, "assert") -> Bind(Eval(s[2], m), LAMBDA c, n : IF Truthy(c) THEN Ok(None, n) ELSE Error(n))
    [] Of(s, "expr") -> Eval(s[2], m)
    [] OTHER -> Ok(None, m)

\* eval_block: the value of the last statement.
EvalBlock(ss, last, m) ==
  IF ss = <<>> THEN Ok(last, m) ELSE Bind(Exec(ss[1], m), LAMBDA v, n : Block(Tail(ss), v, n))

Do(work, m) ==
  CASE work[1] = "eval" -> EvalExpr(work[2], m)
    [] work[1] = "all" -> EvalArgs(work[2], work[3], m)
    [] work[1] = "exec" -> EvalStmt(work[2], m)
    [] work[1] = "block" -> EvalBlock(work[2], work[3], m)
    [] work[1] = "while" -> EvalWhile(work[2], work[3], m)
    [] work[1] = "for" -> EvalFor(work[2], work[3], work[4], work[5])
    [] work[1] = "match" -> EvalMatch(work[2], work[3], work[4], m)
    [] work[1] = "pipe" -> EvalPipe(work[2], work[3], m)

\* interpret: the values of the statements up to the first that fails.
Run(program) == Block(program, None, Fresh)
=============================================================================
