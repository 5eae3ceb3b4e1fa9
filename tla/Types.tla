------------------------------- MODULE Types -------------------------------
(* Type inference (src/compiler/src/ty.rs) over the trees of Parser.  A type *)
(* is <<base, arg, err>> with optional parts, or a variable <<"var", n>>;    *)
(* the inferencer s is the chain of scopes, the signatures of the functions, *)
(* the names whose type is known, the errors counted, and the next variable. *)
EXTENDS Integers, Sequences, SequencesExt, TLC

Empty == [x \in {} |-> <<>>]
Blank == [env |-> <<Empty>>, sigs |-> Empty, known |-> Empty, errors |-> 0, fresh |-> 0]

Base(b) == <<b, <<>>, <<>>>>
Of(b, t) == <<b, <<t>>, <<>>>>
IsVar(t) == t[1] = "var"

\* apply_subst_local: the parts of a type are never variables.
RECURSIVE Apply(_, _)
Apply(subst, t) == IF IsVar(t) /\ t[2] \in DOMAIN subst THEN Apply(subst, subst[t[2]]) ELSE t

\* bind, with the occurs check, which is also what a variable meets in itself.
Bound(v, t, subst) ==
  IF v = t THEN [ok |-> FALSE, subst |-> subst] ELSE [ok |-> TRUE, subst |-> (v[2] :> t) @@ subst]
\* unify: an error part that one side lacks is not compared.
RECURSIVE Unify(_, _, _)
Unify(left, right, subst) ==
  LET a == Apply(subst, left)
      b == Apply(subst, right)
      args == IF a[2] = <<>> THEN [ok |-> TRUE, subst |-> subst] ELSE Unify(a[2][1], b[2][1], subst)
  IN CASE IsVar(a) -> Bound(a, b, subst)
       [] ~IsVar(a) /\ IsVar(b) -> Bound(b, a, subst)
       [] ~IsVar(a) /\ ~IsVar(b) /\ (a[1] # b[1] \/ Len(a[2]) # Len(b[2])) ->
            [ok |-> FALSE, subst |-> subst]
       [] OTHER -> IF args.ok /\ a[3] # <<>> /\ b[3] # <<>> THEN Unify(a[3][1], b[3][1], args.subst)
                   ELSE args

(* Inference: a result is a type and the inferencer left.                    *)
Gives(t, s) == [t |-> t, s |-> s]
With(r, K(_, _)) == K(r.t, r.s)
Declare(x, t, s) == [s EXCEPT !.env[Len(s.env)] = (x :> t) @@ @]
Learn(x, t, s) == IF IsVar(t) THEN s ELSE [s EXCEPT !.known = (x :> t) @@ @]
Expect(want, t, s) == IF Unify(want, t, Empty).ok THEN s ELSE [s EXCEPT !.errors = @ + 1]
NewVar(s) == Gives(<<"var", s.fresh>>, [s EXCEPT !.fresh = @ + 1])
\* A variable of a signature is made new at each use, apart from the others.
Instance(t, s) == IF IsVar(t) THEN NewVar(s) ELSE Gives(t, s)

Literals == [int |-> "int", float |-> "float", str |-> "string", bool |-> "bool", char |-> "char"]

\* infer_ident: an unknown name gets a variable in the innermost scope.
Ident(x, s) ==
  LET S == {i \in 1..Len(s.env) : x \in DOMAIN s.env[i]}
  IN IF S # {} THEN Gives(s.env[CHOOSE i \in S : \A j \in S : j <= i][x], s)
     ELSE With(NewVar(s), LAMBDA v, n : Gives(v, Declare(x, v, n)))

\* infer_binary and infer_unary, after their operands: operands that do not fit
\* are no error.
Arithmetic(op, l, r) ==
  LET t == Apply(Unify(l, r, Empty).subst, l)
      numeric == t[1] \in {"int", "float"}
  IN CASE IsVar(t) -> t
       [] numeric /\ op = "+" /\ "string" \in {l[1], r[1]} -> Base("string")
       [] numeric /\ ~(op = "+" /\ "string" \in {l[1], r[1]}) /\ "float" \in {l[1], r[1]} -> Base("float")
       [] OTHER -> Base("int")
Operate(op, l, r) ==
  CASE op \in {"+", "-", "*", "/", "%"} -> Arithmetic(op, l, r)
    [] op = "=" -> r
    [] OTHER -> Base("bool")
\* Mutant of Negate: a "!" is typed like a "-".
NegateSame(op, t) == IF t[1] \in {"var", "int", "float"} THEN t ELSE Base("int")
Negate(op, t) ==
  IF op = "!" THEN Base("bool") ELSE IF t[1] \in {"var", "int", "float"} THEN t ELSE Base("int")

\* What there is to infer of a tree; the functions below call each other through it.
RECURSIVE Do(_, _)
Expr(e, s) == Do(<<"expr", e>>, s)
Stmt(st, s) == Do(<<"stmt", st>>, s)
Each(es, t, s) == Do(<<"each", es, t>>, s)
Args(args, params, subst, s) == Do(<<"args", args, params, subst>>, s)
Elements(first, es, s) == Do(<<"array", first, es>>, s)
Arms(arms, sofar, s) == Do(<<"arms", arms, sofar>>, s)

LastOf(ss, s) == IF ss = <<>> THEN Gives(Base("none"), s) ELSE Stmt(ss[Len(ss)], s)
\* What is inferred of each and dropped, with the type the whole gets.
InferEach(es, t, s) == IF es = <<>> THEN Gives(t, s) ELSE With(Expr(es[1], s), LAMBDA u, n : Each(Tail(es), t, n))
\* Arguments against parameters; those beyond the parameters are only inferred.
InferArgs(args, params, subst, s) ==
  IF args = <<>> THEN Gives(subst, s)
  ELSE With(Expr(args[1], s), LAMBDA t, n :
         IF params = <<>> THEN Args(Tail(args), params, subst, n)
         ELSE Args(Tail(args), Tail(params), Unify(params[1], t, subst).subst, n))
RECURSIVE Instances(_, _, _)
Instances(ts, sofar, s) ==
  IF ts = <<>> THEN Gives(sofar, s)
  ELSE With(Instance(ts[1], s), LAMBDA t, n : Instances(Tail(ts), Append(sofar, t), n))
\* infer_call: signatures before builtins; anything else gives none.
Call(f, args, s) ==
  CASE f[1] = "ident" /\ f[2] \in DOMAIN s.sigs ->
         With(Instances(s.sigs[f[2]].params, <<>>, s), LAMBDA params, n :
           With(Instance(s.sigs[f[2]].ret, n), LAMBDA ret, o :
             With(Args(args, params, Empty, o), LAMBDA subst, p : Gives(Apply(subst, ret), p))))
    [] f[1] = "ident" /\ f[2] \in {"int", "float", "str", "abs", "len", "range"} \ DOMAIN s.sigs ->
         Each(args, Base("int"), s)
    [] OTHER -> Each(args, Base("none"), s)
RECURSIVE Piped(_, _, _)
\* infer_pipe: what a function gives does not depend on what it is given.
Piped(t, ops, s) ==
  IF ops = <<>> THEN Gives(t, s)
  ELSE With(CASE ops[1] \in DOMAIN s.sigs -> Instance(s.sigs[ops[1]].ret, s)
              [] ops[1] = "len" /\ "len" \notin DOMAIN s.sigs -> Gives(Base("int"), s)
              [] ops[1] \in {"int", "float", "str", "abs"} \ DOMAIN s.sigs -> Gives(t, s)
              [] OTHER -> Gives(Base("unknown"), s),
            LAMBDA u, n : Piped(u, Tail(ops), n))
\* infer_array: each element against the first.
InferArray(first, es, s) ==
  IF es = <<>> THEN Gives(IF IsVar(first) THEN Base("array") ELSE Of("array", first), s)
  ELSE With(Expr(es[1], s), LAMBDA t, n : Elements(first, Tail(es), Expect(first, t, n)))
\* infer_match: every arm is inferred, the first one counts.
InferArms(arms, sofar, s) ==
  IF arms = <<>> THEN Gives(IF sofar = <<>> THEN Base("none") ELSE sofar[1], s)
  ELSE With(Stmt(arms[1][3][1], s), LAMBDA t, n : Arms(Tail(arms), Append(sofar, t), n))
Wrapped(what, e, s) ==
  With(Expr(e, s), LAMBDA t, n :
    Gives(IF IsVar(t) THEN Base(what)
          ELSE IF what = "result" THEN <<what, <<t>>, <<Base("string")>>>> ELSE Of(what, t), n))

\* infer_expr.
InferExpr(e, s) ==
  CASE e[1] \in DOMAIN Literals -> Gives(Base(Literals[e[1]]), s)
    [] e[1] = "ident" -> Ident(e[2], s)
    [] e[1] = "bin" -> With(Expr(e[3], s), LAMBDA l, n : With(Expr(e[4], n), LAMBDA r, o :
         Gives(Operate(e[2], l, r), o)))
    [] e[1] = "un" -> With(Expr(e[3], s), LAMBDA t, n : Gives(Negate(e[2], t), n))
    [] e[1] = "call" -> Call(e[2], e[3], s)
    [] e[1] = "pipe" -> With(Expr(e[2], s), LAMBDA t, n : Piped(t, e[3], n))
    [] e[1] = "range" -> Gives(Base("array"), s)
    [] e[1] = "array" -> IF e[2] = <<>> THEN Gives(Base("array"), s)
                         ELSE With(Expr(e[2][1], s), LAMBDA t, n : Elements(t, Tail(e[2]), n))
    [] e[1] = "none" -> Gives(Base("option"), s)
    [] e[1] = "some" -> Wrapped("option", e[2], s)
    [] e[1] = "ok" -> Wrapped("result", e[2], s)
    [] e[1] = "err" -> Gives(Base("result"), s)
    [] e[1] = "member" -> Gives(Base("none"), s)
    [] e[1] = "index" -> With(Expr(e[2], s), LAMBDA t, n :
         Each(<<e[3]>>, IF IsVar(t) \/ t[2] = <<>> THEN Base("none") ELSE t[2][1], n))
    [] e[1] = "ifx" -> With(Expr(e[2], s), LAMBDA c, n : With(Expr(e[3], n), LAMBDA t, o :
         Each(<<e[4]>>, t, o)))
    [] e[1] = "matchx" -> With(Expr(e[2], s), LAMBDA t, n : Arms(e[3], <<>>, n))

\* infer_let: an annotation stands, whatever the value is.
Let(x, ann, value, s) ==
  CASE ann # <<>> ->
         LET n == Learn(x, ann[1], Declare(x, ann[1], s))
         IN IF value = <<>> THEN Gives(ann[1], n)
            ELSE With(Expr(value[1], n), LAMBDA t, o : Gives(ann[1], Expect(ann[1], t, o)))
    [] ann = <<>> /\ value # <<>> ->
         With(Expr(value[1], s), LAMBDA t, n : Gives(t, Learn(x, t, Declare(x, t, n))))
    [] OTHER -> Gives(Base("none"), s)

\* infer_fn: the body is inferred in a scope of its parameters, and of the body
\* the last statement only; the function itself is known there to calls alone.
Params(ps, s) ==
  FoldLeft(LAMBDA r, p : With(IF p[2] = <<>> THEN NewVar(r.s) ELSE Gives(p[2][1], r.s),
                              LAMBDA t, n : Gives(Append(r.t, t), Declare(p[1], t, n))),
           Gives(<<>>, [s EXCEPT !.env = Append(@, Empty)]), ps)
Fn(f, s) ==
  LET Sign(params, t, n) == [n EXCEPT !.sigs = (f[2] :> [params |-> params, ret |-> t]) @@ @]
  IN With(Params(f[3], s), LAMBDA params, n : With(NewVar(n), LAMBDA ret, o :
       With(LastOf(f[6], Sign(params, ret, o)), LAMBDA t, p :
         LET final == IF f[4] = <<>> THEN t ELSE f[4][1]
             checked == IF f[4] = <<>> THEN p ELSE Expect(f[4][1], t, p)
         IN Gives(final, Declare(f[2], Base("func"), Sign(params, final, [checked EXCEPT !.env = s.env]))))))

\* infer_stmt.  Of a block only the last statement is inferred; trials, structs
\* and the like are not looked into.
InferStmt(st, s) ==
  CASE st[1] = "let" -> Let(st[3], st[4], st[5], s)
    [] st[1] = "const" /\ st[4] # <<>> -> With(Expr(st[4][1], s), LAMBDA t, n :
         Gives(Base("none"), Learn(st[2], t, Declare(st[2], t, n))))
    [] st[1] = "fn" -> Fn(st, s)
    [] st[1] = "if" -> With(Expr(st[2], s), LAMBDA c, n : With(LastOf(st[3], n), LAMBDA yes, o :
         With(LastOf(st[4], o), LAMBDA no, p : Gives(IF yes[1] = "none" THEN no ELSE yes, p))))
    [] st[1] = "while" -> With(Expr(st[2], s), LAMBDA c, n : LastOf(st[3], n))
    [] st[1] = "for" -> With(Expr(st[3], s), LAMBDA t, n : LastOf(st[4], Declare(st[2], Base("int"), n)))
    [] st[1] = "match" -> With(Expr(st[2], s), LAMBDA t, n : Arms(st[3], <<>>, n))
    [] st[1] = "return" -> IF st[2] = <<>> THEN Gives(Base("none"), s) ELSE Expr(st[2][1], s)
    [] st[1] = "expr" -> Expr(st[2], s)
    [] OTHER -> Gives(Base("none"), s)

Do(work, s) ==
  CASE work[1] = "expr" -> InferExpr(work[2], s)
    [] work[1] = "stmt" -> InferStmt(work[2], s)
    [] work[1] = "each" -> InferEach(work[2], work[3], s)
    [] work[1] = "args" -> InferArgs(work[2], work[3], work[4], s)
    [] work[1] = "array" -> InferArray(work[2], work[3], s)
    [] work[1] = "arms" -> InferArms(work[2], work[3], s)

\* infer_program.
Infer(program) == FoldLeft(LAMBDA s, st : Stmt(st, s).s, Blank, program)
=============================================================================
