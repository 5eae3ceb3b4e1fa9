------------------------------- MODULE Parser -------------------------------
(* The recursive-descent parser (src/compiler/src/parser.rs, the tree of     *)
(* ast.rs).  toks is a sequence of tokens <<kind, value>>; a tree is a tuple *)
(* that starts with the name of its node, an optional part is a sequence of  *)
(* at most one.  What an error says and where it points are left out.        *)
EXTENDS Integers, Sequences

CONSTANT toks

\* current and peek: past the last token there is the end.
Kind(i) == IF i <= Len(toks) THEN toks[i][1] ELSE "eof"
Value(i) == toks[i][2]
Is(i, kinds, values) == Kind(i) \in kinds /\ Value(i) \in values

Got(node, next) == [ok |-> TRUE, node |-> node, at |-> next]
Fail == [ok |-> FALSE]
Then(r, K(_, _)) == IF r.ok THEN K(r.node, r.at) ELSE Fail
\* expect and match_token.
Expect(kind, i) == IF Kind(i) = kind THEN Got(Value(i), i + 1) ELSE Fail
Past(kind, i) == IF Kind(i) = kind THEN i + 1 ELSE i

Literals == {"int", "float", "str", "bool", "char"}
Effects == {"pure", "io", "async", "spawn"}
Capabilities == {"cpu", "gpu", "sfa", "net"}
Loops == {"perceive", "reason", "decide", "act", "loop"}
Times == {"latency", "timeout", "throughput"}
Confidences == {"proven", "verified", "inferred", "generated", "uncertain"}
Levels == {"prepare", "suggest", "approve", "execute"}
Notes == [effect |-> <<>>, capability |-> <<>>, llm |-> <<>>, loop |-> <<>>, gov |-> <<>>,
          latency |-> <<>>, timeout |-> <<>>, throughput |-> <<>>, confidence |-> <<>>]

\* op_precedence.
Precedence(kind) ==
  CASE kind = "||" -> 1
    [] kind = "&&" -> 2
    [] kind \in {"=", "==", "!="} -> 3
    [] kind \in {"<", ">", "<=", ">="} -> 4
    [] kind \in {"+", "-"} -> 5
    [] kind \in {"*", "/", "%"} -> 6
    [] OTHER -> 0

\* stmt_to_expr_single and stmts_to_expr: only the last statement of a block
\* counts, and one that is no value (an if among them) counts as 0.
Valued(stmt) ==
  CASE stmt[1] = "expr" -> stmt[2]
    [] stmt[1] \in {"return", "let"} /\ stmt[Len(stmt)] # <<>> -> stmt[Len(stmt)][1]
    [] OTHER -> <<"int", 0>>
LastValued(stmts) == IF stmts = <<>> THEN <<"int", 0>> ELSE Valued(stmts[Len(stmts)])
\* Parser::stmt_to_expr: an if or a match at the place of an expression.
AsExpr(stmt) ==
  CASE stmt[1] = "if" -> <<"ifx", stmt[2], LastValued(stmt[3]), LastValued(stmt[4])>>
    [] stmt[1] = "match" -> <<"matchx", stmt[2], stmt[3]>>
    [] OTHER -> Valued(stmt)

RECURSIVE Parse(_, _), Many(_, _, _), More(_, _, _, _), Binary(_, _), Rest(_, _, _),
          Postfix(_, _), Pipes(_, _, _), Annotations(_, _)

Opt(kind, what, i) ==
  IF Kind(i) = kind THEN Then(Parse(what, i + 1), LAMBDA n, j : Got(<<n>>, j))
  ELSE Got(<<>>, i)
\* Items up to a closing brace; each takes its own trailing comma.
Many(what, i, sofar) ==
  IF Kind(i) \in {"}", "eof"} THEN Then(Expect("}", i), LAMBDA v, j : Got(sofar, j))
  ELSE Then(Parse(what, i), LAMBDA n, j : Many(what, j, Append(sofar, n)))
\* Items between commas up to a closing sign.
More(what, close, i, sofar) ==
  Then(Parse(what, i), LAMBDA n, j :
    IF Kind(j) = "," THEN More(what, close, j + 1, Append(sofar, n))
    ELSE Then(Expect(close, j), LAMBDA v, k : Got(Append(sofar, n), k)))
Listed(what, close, i) ==
  IF Kind(i) = close THEN Got(<<>>, i + 1) ELSE More(what, close, i, <<>>)

\* parse_channel_annotations, after the @ of each; the last of a kind counts.
Timed(note, notes, i) ==
  Then(Expect("(", i), LAMBDA p, j : Then(Expect("int", j), LAMBDA n, k :
    LET l == Past("ident", k)
        unit == IF l = k THEN "" ELSE Value(k)
    IN Then(IF Kind(l) = "/"
            THEN Then(Expect("ident", l + 1), LAMBDA u, m : Got("/" \o u, m))
            ELSE Got(unit, l),
            LAMBDA u, m : Then(Expect(")", m), LAMBDA q, end :
              Annotations([notes EXCEPT ![note] = <<<<n, u>>>>], end)))))
Governed(notes, i) ==
  Then(Expect("(", i), LAMBDA p, j : Then(Expect("ident", j), LAMBDA level, k :
    IF level \notin Levels THEN Fail
    ELSE Then(Expect(")", k), LAMBDA q, end : Annotations([notes EXCEPT !.gov = <<level>>], end))))
Prompted(notes, i) ==
  Then(Expect("(", i), LAMBDA p, j : Then(Expect("str", j), LAMBDA prompt, k :
    Then(Expect(")", k), LAMBDA q, end : Annotations([notes EXCEPT !.llm = <<prompt>>], end))))
\* parse_effect_or_cap: a name, one of two keywords, or a text that says the same.
Channelled(i, words) == Is(i, {"ident", "async", "spawn", "str", "char"}, words)
Annotations(notes, i) ==
  LET Says(words) == Channelled(i + 1, words)
      Set(f) == Annotations([notes EXCEPT ![f] = <<Value(i + 1)>>], i + 2)
  IN CASE Kind(i) # "@" -> Got(notes, i)
       [] Is(i + 1, {"ident", "str", "char"}, {"llm"}) -> Prompted(notes, i + 2)
       [] Says(Effects) -> Set("effect")
       [] Says(Capabilities) -> Set("capability")
       [] Says(Loops) -> Set("loop")
       [] Says({"gov"}) -> Governed(notes, i + 2)
       [] Says(Confidences) -> Set("confidence")
       [] Says(Times) -> Timed(Value(i + 1), notes, i + 2)
       [] OTHER -> Fail

\* parse_block and parse_fn_params.
Block(i) == Then(Expect("{", i), LAMBDA b, j : Many("statement", j, <<>>))
Params(i) == Then(Expect("(", i), LAMBDA p, j : Listed("param", ")", j))
\* parse_fn, parse_async_fn: an async function starts with the effect async.
Fn(isAsync, i) ==
  Then(Expect("ident", i), LAMBDA name, j :
    Then(Parse("params", j), LAMBDA params, k :
      Then(Opt("->", "type", k), LAMBDA ret, l :
        Then(Annotations(IF isAsync THEN [Notes EXCEPT !.effect = <<"async">>] ELSE Notes, l),
             LAMBDA notes, m : Then(Parse("block", m), LAMBDA body, end :
               Got(<<"fn", name, params, ret, notes, body, isAsync>>, end))))))
\* parse_let, parse_mut_let, parse_const: a name, its type, its value.
Named(node, i) ==
  Then(Expect("ident", i), LAMBDA name, j : Then(Opt(":", "type", j), LAMBDA ty, k :
    Then(Opt("=", "expression", k), LAMBDA value, l : Got(node \o <<name, ty, value>>, l))))
\* parse_if: an else with an if is a branch of that one statement.
If(i) ==
  Then(Parse("expression", i), LAMBDA c, j : Then(Parse("block", j), LAMBDA yes, k :
    Then(CASE Kind(k) = "else" /\ Kind(k + 1) = "if" ->
                Then(Parse("if", k + 2), LAMBDA s, l : Got(<<s>>, l))
           [] Kind(k) = "else" /\ Kind(k + 1) # "if" -> Parse("block", k + 1)
           [] OTHER -> Got(<<>>, k),
         LAMBDA no, end : Got(<<"if", c, yes, no>>, end))))
\* parse_match: the body of an arm is one statement.
Arm(i) ==
  Then(Parse("pattern", i), LAMBDA p, j : Then(Opt("if", "expression", j), LAMBDA g, k :
    Then(Expect("=>", k), LAMBDA a, l : Then(Parse("statement", l), LAMBDA s, m :
      Got(<<p, g, <<s>>>>, Past(",", m))))))
Match(i) ==
  Then(Parse("expression", i), LAMBDA target, j : Then(Expect("{", j), LAMBDA b, k :
    Then(Many("arm", k, <<>>), LAMBDA arms, l : Got(<<"match", target, arms>>, l))))
Field(i) ==
  Then(Expect("ident", i), LAMBDA f, j : Then(Expect(":", j), LAMBDA c, k :
    Then(Parse("type", k), LAMBDA ty, l : Got(<<f, ty>>, Past(",", l)))))
\* parse_struct, parse_enum, parse_trait, parse_impl: a name and its members.
Members(node, what, i) ==
  Then(Expect("ident", i), LAMBDA name, j : Then(Expect("{", j), LAMBDA b, k :
    Then(Many(what, k, <<>>), LAMBDA ms, l : Got(<<node, name, ms>>, l))))
\* A method of a trait, or of an impl: its body is read and dropped.
Method(withBody, i) ==
  Then(Expect("fn", i), LAMBDA f, j : Then(Expect("ident", j), LAMBDA name, k :
    Then(Parse("params", k), LAMBDA params, l : Then(Opt("->", "type", l), LAMBDA ret, m :
      IF withBody THEN Then(Parse("block", m), LAMBDA b, n : Got(<<name, ret>>, n))
      ELSE Got(<<name, ret, params>>, m)))))

\* parse_while and parse_for.
While(i) ==
  Then(Parse("expression", i), LAMBDA c, j : Then(Parse("block", j), LAMBDA b, k :
    Got(<<"while", c, b>>, k)))
For(i) ==
  Then(Expect("ident", i), LAMBDA x, j : Then(Expect("in", j), LAMBDA w, k :
    Then(Parse("expression", k), LAMBDA e, l : Then(Parse("block", l), LAMBDA b, m :
      Got(<<"for", x, e, b>>, m)))))
\* parse_return: a value unless the block or the statement ends here.
Return(i) ==
  IF Kind(i) \in {"}", ";"} THEN Got(<<"return", <<>>>>, i)
  ELSE Then(Parse("expression", i), LAMBDA e, j : Got(<<"return", <<e>>>>, j))
\* parse_use, parse_export.
OneName(node, i) == Then(Expect("ident", i), LAMBDA n, j : Got(<<node, n>>, j))
Spawn(i) ==
  Then(Expect("fn", i), LAMBDA f, j : Then(Fn(FALSE, j), LAMBDA n, k : Got(<<"spawn", n>>, k)))
Channel(i) ==
  Then(Expect("ident", i), LAMBDA s, j : Then(Expect("ident", j), LAMBDA r, k :
    Then(Opt(":", "type", k), LAMBDA ty, l : Got(<<"channel", s, r, ty>>, l))))
Assert(i) ==
  Then(Parse("expression", i), LAMBDA c, j : Then(Opt(",", "expression", j), LAMBDA m, k :
    Got(<<"assert", c, m>>, k)))
\* parse_try_catch: the handler may name the error.
Caught(i) ==
  IF Kind(i) # "(" THEN Got(<<>>, i)
  ELSE Then(Expect("ident", i + 1), LAMBDA x, j : Then(Expect(")", j), LAMBDA q, k : Got(<<x>>, k)))
TryCatch(i) ==
  Then(Parse("block", i), LAMBDA b, j : Then(Expect("catch", j), LAMBDA c, k :
    Then(Caught(k), LAMBDA x, l : Then(Parse("block", l), LAMBDA h, m :
      Got(<<"try", b, x, h>>, m)))))
Alias(i) ==
  Then(Expect("ident", i), LAMBDA name, j : Then(Opt("=", "type", j), LAMBDA ty, k :
    Got(<<"alias", name, ty>>, k)))

\* parse_statement.  Only an expression statement takes a semicolon.
Statement(i) ==
  LET j == i + 1
  IN CASE Kind(i) = "let" -> Named(<<"let", Kind(j) = "mut">>, Past("mut", j))
       [] Kind(i) = "mut" -> Named(<<"let", TRUE>>, j)
       [] Kind(i) = "const" -> Named(<<"const">>, j)
       [] Kind(i) = "fn" -> Fn(FALSE, j)
       [] Kind(i) = "async" -> Then(Expect("fn", j), LAMBDA f, k : Fn(TRUE, k))
       [] Kind(i) = "spawn" -> Spawn(j)
       [] Kind(i) = "if" -> If(j)
       [] Kind(i) = "match" -> Match(j)
       [] Kind(i) = "while" -> While(j)
       [] Kind(i) = "for" -> For(j)
       [] Kind(i) = "struct" -> Members("struct", "field", j)
       [] Kind(i) = "enum" -> Members("enum", "variant", j)
       [] Kind(i) = "trait" -> Members("trait", "signature", j)
       [] Kind(i) = "impl" -> Members("impl", "method", j)
       [] Kind(i) = "return" -> Return(j)
       [] Kind(i) \in {"use", "export"} -> OneName(Kind(i), j)
       [] Kind(i) = "assert" -> Assert(j)
       [] Kind(i) = "channel" -> Channel(j)
       [] Kind(i) = "try" -> TryCatch(j)
       [] Kind(i) = "type" -> Alias(j)
       [] OTHER -> Then(Parse("expression", i), LAMBDA e, k : Got(<<"expr", e>>, Past(";", k)))

Pat(kind, name, binding, inner, fields, value) ==
  [kind |-> kind, name |-> name, binding |-> binding, inner |-> inner,
   fields |-> fields, value |-> value]
\* A field of a struct pattern, renamed after a colon.
FieldPattern(i) ==
  Then(Expect("ident", i), LAMBDA f, j :
    Then(IF Kind(j) = ":" THEN Expect("ident", j + 1) ELSE Got(f, j), LAMBDA x, k :
      Got(<<f, x>>, Past(",", k))))
\* What follows the name of a constructor: one pattern, fields or nothing.
Constructor(name, i) ==
  CASE Kind(i) = "(" -> Then(Parse("pattern", i + 1), LAMBDA p, j :
         Then(Expect(")", j), LAMBDA q, k : Got(Pat("ctor", name, <<p.name>>, <<p>>, <<>>, <<>>), k)))
    [] Kind(i) = "{" -> Then(Many("binding", i + 1, <<>>), LAMBDA fs, j :
         Got(Pat("struct", name, <<>>, <<>>, fs, <<>>), j))
    [] OTHER -> Got(Pat("ctor", name, <<>>, <<>>, <<>>, <<>>), i)
\* parse_pattern: a bare name is a constructor, never a binding.
Pattern(i) ==
  CASE Is(i, {"ident"}, {"_"}) -> Got(Pat("wild", "", <<>>, <<>>, <<>>, <<>>), i + 1)
    [] Kind(i) = "ident" /\ ~Is(i, {"ident"}, {"_"}) -> Constructor(Value(i), i + 1)
    [] Kind(i) \in Literals -> Got(Pat("lit", "", <<>>, <<>>, <<>>, <<toks[i]>>), i + 1)
    [] OTHER -> Fail

\* parse_type: the name, and between angles one or two types; names it does not
\* know are one type.
BaseTypes == {"int", "float", "string", "bool", "char", "none", "array", "option", "result", "func"}
TypeRef(i) ==
  Then(Expect("ident", i), LAMBDA word, j : LET name == IF word \in BaseTypes THEN word ELSE "unknown" IN
    IF Kind(j) # "<" THEN Got(<<name, <<>>, <<>>>>, j)
    ELSE Then(Parse("type", j + 1), LAMBDA arg, k : Then(Opt(",", "type", k), LAMBDA err, l :
           Then(Expect(">", l), LAMBDA g, m : Got(<<name, <<arg>>, err>>, m)))))

\* parse_pipe: only at the outside of an expression.
Pipes(input, ops, i) ==
  IF Kind(i) = "|>" THEN Then(Expect("ident", i + 1), LAMBDA f, j : Pipes(input, Append(ops, f), j))
  ELSE Got(IF ops = <<>> THEN input ELSE <<"pipe", input, ops>>, i)

\* parse_binary: climb from min; the operators of a level are left-associative.
\* Mutant of Rest: what follows an operator is read at its own level, so that
\* operators of one level group to the right.
RestRight(left, min, i) ==
  LET prec == Precedence(Kind(i))
  IN IF prec < min \/ prec = 0 THEN Got(left, i)
     ELSE Then(Binary(prec, i + 1), LAMBDA right, j :
            Rest(<<"bin", Kind(i), left, right>>, min, j))
Rest(left, min, i) ==
  LET prec == Precedence(Kind(i))
  IN IF prec < min \/ prec = 0 THEN Got(left, i)
     ELSE Then(Binary(prec + 1, i + 1), LAMBDA right, j :
            Rest(<<"bin", Kind(i), left, right>>, min, j))
Binary(min, i) == Then(Parse("unary", i), LAMBDA left, j : Rest(left, min, j))

Unary(i) ==
  IF Kind(i) \in {"-", "!"}
  THEN Then(Parse("unary", i + 1), LAMBDA e, j : Got(<<"un", Kind(i), e>>, j))
  ELSE Parse("primary", i)

\* Members, calls and indexes follow a name, and nothing but a name.
Postfix(obj, i) ==
  CASE Kind(i) = "." -> Then(Expect("ident", i + 1), LAMBDA m, j :
         Postfix(<<"member", obj, m>>, j))
    [] Kind(i) = "(" -> Then(Listed("expression", ")", i + 1), LAMBDA args, j :
         Postfix(<<"call", obj, args>>, j))
    [] Kind(i) = "[" -> Then(Parse("expression", i + 1), LAMBDA x, j :
         Then(Expect("]", j), LAMBDA b, k : Postfix(<<"index", obj, x>>, k)))
    [] OTHER -> Got(obj, i)

Enclosed(i) == Then(Parse("expression", i), LAMBDA e, j : Then(Expect(")", j), LAMBDA q, k : Got(e, k)))
\* A block as an expression is its last statement.
BlockValue(i) ==
  Then(Parse("block", i), LAMBDA ss, j :
    Got(IF ss = <<>> THEN <<"int", 0>> ELSE AsExpr(ss[Len(ss)]), j))
Ctors == [Some |-> "some", Ok |-> "ok", Err |-> "err"]
Primary(i) ==
  CASE Kind(i) = "if" -> Then(If(i + 1), LAMBDA s, j : Got(AsExpr(s), j))
    [] Kind(i) = "match" -> Then(Match(i + 1), LAMBDA s, j : Got(AsExpr(s), j))
    [] Kind(i) = "int" /\ Kind(i + 1) = ".." -> Then(Expect("int", i + 2), LAMBDA end, j :
         Got(<<"range", Value(i), end>>, j))
    [] Kind(i) \in Literals /\ ~(Kind(i) = "int" /\ Kind(i + 1) = "..") -> Got(toks[i], i + 1)
    [] Is(i, {"ident"}, {"None"}) -> Got(<<"none">>, i + 1)
    [] Is(i, {"ident"}, DOMAIN Ctors) -> Then(Expect("(", i + 1), LAMBDA p, j :
         Then(Enclosed(j), LAMBDA e, k : Got(<<Ctors[Value(i)], e>>, k)))
    [] Kind(i) = "(" -> Enclosed(i + 1)
    [] Kind(i) = "[" -> Then(Listed("expression", "]", i + 1), LAMBDA es, j :
         Got(<<"array", es>>, j))
    [] Kind(i) = "{" -> BlockValue(i)
    [] Kind(i) = "ident" /\ ~Is(i, {"ident"}, DOMAIN Ctors \cup {"None"}) ->
         Postfix(<<"ident", Value(i)>>, i + 1)
    [] OTHER -> Fail

\* What parse asks for by name, the parts of a statement or an expression.
Parse(what, i) ==
  CASE what = "statement" -> Statement(i)
    [] what = "block" -> Block(i)
    [] what = "if" -> If(i)
    [] what = "params" -> Params(i)
    [] what = "param" -> Named(<<>>, i)
    [] what = "arm" -> Arm(i)
    [] what = "field" -> Field(i)
    [] what = "variant" -> Then(Expect("ident", i), LAMBDA v, j : Got(v, Past(",", j)))
    [] what = "binding" -> FieldPattern(i)
    [] what = "signature" -> Method(FALSE, i)
    [] what = "method" -> Method(TRUE, i)
    [] what = "pattern" -> Pattern(i)
    [] what = "type" -> TypeRef(i)
    [] what = "expression" -> Then(Binary(0, i), LAMBDA left, j : Pipes(left, <<>>, j))
    [] what = "unary" -> Unary(i)
    [] what = "primary" -> Primary(i)

\* parse: statements up to the end, or the first error.
RECURSIVE Statements(_, _)
Statements(i, sofar) ==
  IF Kind(i) = "eof" THEN Got(sofar, i)
  ELSE Then(Parse("statement", i), LAMBDA s, j : Statements(j, Append(sofar, s)))
Program == Statements(1, <<>>)
=============================================================================
