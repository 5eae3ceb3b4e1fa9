------------------------------- MODULE Values -------------------------------
(* What the engines' values have in common: Rust's integer division, how a   *)
(* value is shown, and the outcomes of running a piece of program.  A value  *)
(* is a tuple that starts with its type.                                     *)
EXTENDS Integers, Sequences, SequencesExt, TLC

None == <<"none">>
Num(n) == <<"int", n>>
Bool(b) == <<"bool", b>>
Str(s) == <<"str", s>>
Tag(v) == v[1]
Of(v, type) == v[1] = type

\* i64 division truncates and the remainder has the sign of the dividend.
Magnitude(n) == IF n < 0 THEN -n ELSE n
Quotient(a, b) ==
  LET q == Magnitude(a) \div Magnitude(b) IN IF (a < 0) = (b < 0) THEN q ELSE -q
Remainder(a, b) == a - b * Quotient(a, b)
Compare(op, a, b) ==
  CASE op = "<" -> a < b
    [] op = ">" -> a > b
    [] op = "<=" -> a <= b
    [] op = ">=" -> a >= b

\* A result: ok with a value, return with the value returned, an error the
\* program may handle, a panic it may not, diverges when the bound on loops and
\* calls is reached, or beyond for what is left out (floats, the order of
\* strings, tasks and channels).
Ok(v, m) == [sig |-> "ok", v |-> v, m |-> m]
Stop(sig, v, m) == [sig |-> sig, v |-> v, m |-> m]
Error(m) == Stop("error", <<"error">>, m)
Panic(m) == Stop("panic", None, m)
Beyond(m) == Stop("beyond", None, m)
Bind(r, K(_, _)) == IF r.sig = "ok" THEN K(r.v, r.m) ELSE r

\* Display.
RECURSIVE Show(_)
Show(v) ==
  CASE Of(v, "int") -> ToString(v[2])
    [] Of(v, "bool") -> IF v[2] THEN "true" ELSE "false"
    [] Tag(v) \in {"str", "char"} -> v[2]
    [] Of(v, "array") ->
         IF v[2] = <<>> THEN "[]"
         ELSE FoldLeft(LAMBDA s, x : s \o ", " \o Show(x), "[" \o Show(v[2][1]), Tail(v[2])) \o "]"
    [] Of(v, "some") -> "Some(" \o Show(v[2]) \o ")"
    [] Of(v, "nothing") -> "None"
    [] Of(v, "ok") -> "Ok(" \o Show(v[2]) \o ")"
    [] Of(v, "err") -> "Err(" \o Show(v[2]) \o ")"
    [] Of(v, "variant") -> v[2] \o "::" \o v[3]
    [] OTHER -> "none"
=============================================================================
