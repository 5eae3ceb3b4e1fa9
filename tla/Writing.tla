------------------------------ MODULE Writing ------------------------------
(* How a program is written down, the reference the lexer and the parser are  *)
(* held against.                                                             *)
EXTENDS Integers, Sequences, SequencesExt, TLC

LOCAL L == INSTANCE Lexer WITH text <- <<>>

(* A tree by the grammar: a sequence of words, each a sequence of glyphs,    *)
(* with no parentheses but those the levels call for.                        *)
Levels == [sign \in {"||"} |-> 1] @@ [sign \in {"&&"} |-> 2] @@ [sign \in {"==", "!="} |-> 3]
          @@ [sign \in {"<", ">", "<=", ">="} |-> 4] @@ [sign \in {"+", "-"} |-> 5]
          @@ [sign \in {"*", "/", "%"} |-> 6]
Unary == 7

Halves == ("||" :> <<"|", "|">>) @@ ("&&" :> <<"&", "&">>) @@ ("==" :> <<"=", "=">>)
          @@ ("!=" :> <<"!", "=">>) @@ ("<=" :> <<"<", "=">>) @@ (">=" :> <<">", "=">>)
          @@ ("->" :> <<"-", ">">>) @@ ("=>" :> <<"=", ">">>) @@ ("|>" :> <<"|", ">">>)
          @@ (".." :> <<".", ".">>)
Sign(s) == <<IF s \in DOMAIN Halves THEN Halves[s] ELSE <<s>>>>
Name(x) == <<<<x>>>>
Digit(n) == ToString(n)
Number(n) == <<IF n < 10 THEN <<Digit(n)>> ELSE <<Digit(n \div 10), Digit(n % 10)>>>>
Quote(q, s) == <<<<q, s, q>>>>
Between(open, words, close) == Sign(open) \o words \o Sign(close)
Commas(seqs) ==
  IF seqs = <<>> THEN <<>> ELSE FoldLeft(LAMBDA ws, s : ws \o Sign(",") \o s, seqs[1], Tail(seqs))
All(F(_), xs) == [i \in DOMAIN xs |-> F(xs[i])]
Optional(word, F(_), opt) == IF opt = <<>> THEN <<>> ELSE Sign(word) \o F(opt[1])

RECURSIVE WrittenAt(_, _), WrittenStmt(_), WrittenType(_), WrittenPattern(_)
WrittenType(ty) ==
  Name(ty[1]) \o (IF ty[2] = <<>> THEN <<>>
                  ELSE Between("<", Commas(All(WrittenType, ty[2] \o ty[3])), ">"))
Literal(e) ==
  CASE e[1] = "int" -> Number(e[2])
    [] e[1] = "bool" -> Name(IF e[2] THEN "true" ELSE "false")
    [] e[1] = "str" -> Quote("\"", e[2])
    [] e[1] = "char" -> Quote("'", e[2])
WrittenPattern(p) ==
  CASE p.kind = "wild" -> Name("_")
    [] p.kind = "lit" -> Literal(p.value[1])
    [] p.kind = "ctor" -> Name(p.name) \o
         (IF p.inner = <<>> THEN <<>> ELSE Between("(", WrittenPattern(p.inner[1]), ")"))
    [] p.kind = "struct" -> Name(p.name) \o Between("{",
         Commas(All(LAMBDA f : Name(f[1]) \o Sign(":") \o Name(f[2]), p.fields)), "}")
WrittenBlock(ss) == Between("{", FlattenSeq(All(WrittenStmt, ss)), "}")
WrittenArm(arm) ==
  WrittenPattern(arm[1]) \o Optional("if", LAMBDA g : WrittenAt(g, 0), arm[2]) \o Sign("=>")
    \o WrittenStmt(arm[3][1]) \o Sign(",")
WrittenMatch(target, arms) ==
  Name("match") \o WrittenAt(target, 0) \o Between("{", FlattenSeq(All(WrittenArm, arms)), "}")

Written(e) == WrittenAt(e, 0)
\* At the start of a statement an if or a match is a statement, whose value a
\* block around it drops: there it is put in parentheses.
First(e) ==
  LET w == Written(e) IN IF w[1] \in {<<"if">>, <<"match">>} THEN Between("(", w, ")") ELSE w
InBraces(e) == Between("{", First(e), "}")
Level(e) == CASE e[1] = "bin" -> Levels[e[2]] [] e[1] = "un" -> Unary [] e[1] = "pipe" -> 0 [] OTHER -> Unary + 1
Plainly(e) ==
  CASE e[1] \in {"int", "bool", "str", "char"} -> Literal(e)
    [] e[1] = "ident" -> Name(e[2])
    [] e[1] = "bin" -> WrittenAt(e[3], Level(e)) \o Sign(e[2]) \o WrittenAt(e[4], Level(e) + 1)
    [] e[1] = "un" -> Sign(e[2]) \o WrittenAt(e[3], Unary)
    [] e[1] = "pipe" -> WrittenAt(e[2], 1) \o FlattenSeq(All(LAMBDA f : Sign("|>") \o Name(f), e[3]))
    [] e[1] = "call" -> Written(e[2]) \o Between("(", Commas(All(Written, e[3])), ")")
    [] e[1] = "member" -> Written(e[2]) \o Sign(".") \o Name(e[3])
    [] e[1] = "index" -> Written(e[2]) \o Between("[", Written(e[3]), "]")
    [] e[1] = "range" -> Number(e[2]) \o Sign("..") \o Number(e[3])
    [] e[1] = "array" -> Between("[", Commas(All(Written, e[2])), "]")
    [] e[1] = "none" -> Name("None")
    [] e[1] \in {"some", "ok", "err"} ->
         Name([some |-> "Some", ok |-> "Ok", err |-> "Err"][e[1]]) \o Between("(", Written(e[2]), ")")
    [] e[1] = "ifx" -> Name("if") \o Written(e[2]) \o InBraces(e[3]) \o Name("else") \o InBraces(e[4])
    [] e[1] = "matchx" -> WrittenMatch(e[2], e[3])
WrittenAt(e, level) == IF Level(e) < level THEN Between("(", Plainly(e), ")") ELSE Plainly(e)

WrittenParam(p) == Name(p[1]) \o Optional(":", WrittenType, p[2]) \o Optional("=", Written, p[3])
WrittenTime(word, opt) ==
  IF opt = <<>> THEN <<>>
  ELSE LET unit == CASE opt[1][2] = "" -> <<>> [] opt[1][2] = "/s" -> Sign("/") \o Name("s")
                     [] OTHER -> Name(opt[1][2])
       IN Sign("@") \o Name(word) \o Between("(", Number(opt[1][1]) \o unit, ")")
WrittenNotes(n, isAsync) ==
  LET Marks(opt) == IF opt = <<>> THEN <<>> ELSE Sign("@") \o Name(opt[1])
  IN (IF isAsync /\ n.effect = <<"async">> THEN <<>> ELSE Marks(n.effect)) \o Marks(n.capability)
     \o (IF n.llm = <<>> THEN <<>> ELSE Sign("@") \o Name("llm") \o Between("(", Quote("\"", n.llm[1]), ")"))
     \o Marks(n.loop)
     \o (IF n.gov = <<>> THEN <<>> ELSE Sign("@") \o Name("gov") \o Between("(", Name(n.gov[1]), ")"))
     \o WrittenTime("latency", n.latency) \o WrittenTime("timeout", n.timeout)
     \o WrittenTime("throughput", n.throughput) \o Marks(n.confidence)
WrittenFn(s) ==
  Name("fn") \o Name(s[2]) \o Between("(", Commas(All(WrittenParam, s[3])), ")")
    \o Optional("->", WrittenType, s[4]) \o WrittenNotes(s[5], s[7]) \o WrittenBlock(s[6])
WrittenMethod(m, body) ==
  Name("fn") \o Name(m[1]) \o Between("(", IF body THEN <<>> ELSE Commas(All(WrittenParam, m[3])), ")")
    \o Optional("->", WrittenType, m[2]) \o (IF body THEN WrittenBlock(<<>>) ELSE <<>>)
WrittenElse(no) ==
  IF no = <<>> THEN <<>>
  ELSE Name("else") \o (IF Len(no) = 1 /\ no[1][1] = "if" THEN WrittenStmt(no[1]) ELSE WrittenBlock(no))
WrittenStmt(s) ==
  LET Typed(x, ty, value) == Name(x) \o Optional(":", WrittenType, ty) \o Optional("=", Written, value)
      Fields(fs, F(_)) == Between("{", FlattenSeq(All(LAMBDA f : F(f) \o Sign(","), fs)), "}")
  IN CASE s[1] = "let" -> Name("let") \o (IF s[2] THEN Name("mut") ELSE <<>>) \o Typed(s[3], s[4], s[5])
       [] s[1] = "const" -> Name("const") \o Typed(s[2], s[3], s[4])
       [] s[1] = "fn" -> (IF s[7] THEN Name("async") ELSE <<>>) \o WrittenFn(s)
       [] s[1] = "spawn" -> Name("spawn") \o WrittenFn(s[2])
       [] s[1] = "return" -> Name("return") \o (IF s[2] = <<>> THEN <<>> ELSE Written(s[2][1]))
       [] s[1] = "if" -> Name("if") \o Written(s[2]) \o WrittenBlock(s[3]) \o WrittenElse(s[4])
       [] s[1] = "while" -> Name("while") \o Written(s[2]) \o WrittenBlock(s[3])
       [] s[1] = "for" -> Name("for") \o Name(s[2]) \o Name("in") \o Written(s[3]) \o WrittenBlock(s[4])
       [] s[1] = "match" -> WrittenMatch(s[2], s[3])
       [] s[1] = "struct" -> Name("struct") \o Name(s[2])
            \o Fields(s[3], LAMBDA f : Name(f[1]) \o Sign(":") \o WrittenType(f[2]))
       [] s[1] = "enum" -> Name("enum") \o Name(s[2]) \o Fields(s[3], Name)
       [] s[1] = "trait" -> Name("trait") \o Name(s[2])
            \o Between("{", FlattenSeq(All(LAMBDA m : WrittenMethod(m, FALSE), s[3])), "}")
       [] s[1] = "impl" -> Name("impl") \o Name(s[2])
            \o Between("{", FlattenSeq(All(LAMBDA m : WrittenMethod(m, TRUE), s[3])), "}")
       [] s[1] = "channel" -> Name("channel") \o Name(s[2]) \o Name(s[3]) \o Optional(":", WrittenType, s[4])
       [] s[1] = "try" -> Name("try") \o WrittenBlock(s[2]) \o Name("catch")
            \o (IF s[3] = <<>> THEN <<>> ELSE Between("(", Name(s[3][1]), ")")) \o WrittenBlock(s[4])
       [] s[1] = "assert" -> Name("assert") \o Written(s[2]) \o Optional(",", Written, s[3])
       [] s[1] \in {"use", "export"} -> Name(s[1]) \o Name(s[2])
       [] s[1] = "alias" -> Name("type") \o Name(s[2]) \o Optional("=", WrittenType, s[3])
       [] s[1] = "expr" -> First(s[2]) \o Sign(";")

\* The text of some words: apart by a space or a comment, or by nothing where
\* two words would not run into one.
Styles == {"spaced", "tight", "commented"}
Wordlike(g) == g \notin L!Singles \cup L!Quotes \cup L!Others
Gap(style, left, right) ==
  CASE style = "spaced" -> <<" ">>
    [] style = "commented" -> <<" ", "/", "*", "x", "*", "/">>
    [] style = "tight" ->
         IF \/ Wordlike(left[Len(left)]) /\ Wordlike(right[1])
            \/ left[Len(left)] \o right[1] \in L!Doubles
         THEN <<"\n">> ELSE <<>>
Text(style, words) ==
  FlattenSeq([i \in DOMAIN words |->
    words[i] \o (IF i = Len(words) THEN <<>> ELSE Gap(style, words[i], words[i + 1]))])
WrittenProgram(style, ss) == Text(style, FlattenSeq(All(WrittenStmt, ss)))
=============================================================================
