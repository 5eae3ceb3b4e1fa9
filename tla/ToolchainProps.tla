--------------------------- MODULE ToolchainProps ---------------------------
(* What the parts of Toolchain promise, with the reference definitions the   *)
(* promises are told in.                                                     *)
EXTENDS Toolchain, SequencesExt, TLC

P == INSTANCE Parser WITH toks <- chunk.toks
W == INSTANCE TreeWalk WITH Fuel <- Turns
T == INSTANCE Types
C == INSTANCE Channels

-----------------------------------------------------------------------------
\* A program that is written down reads as itself: operators bind and group by
\* their levels, branches, arms and blocks end where they end, and every
\* annotation reaches its function (tokenize, lexer.rs; parse, parser.rs).
RoundTrip ==
  part = "text" =>
    /\ chunk.ok
    /\ \E read \in {P!Program} : read.ok /\ read.node = input.program

-----------------------------------------------------------------------------
\* What stands directly in an expression, and all that stands in it, or in a
\* statement, down to nodes of the kinds in "at".
Subterms(e) ==
  CASE e[1] = "bin" -> {e[3], e[4]}
    [] e[1] = "un" -> {e[3]}
    [] e[1] = "call" -> {e[2]} \cup Range(e[3])
    [] e[1] = "ifx" -> {e[2], e[3], e[4]}
    [] e[1] = "array" -> Range(e[2])
    [] e[1] \in {"some", "ok", "err", "member", "pipe", "matchx"} -> {e[2]}
    [] e[1] = "index" -> {e[2], e[3]}
    [] OTHER -> {}
RECURSIVE Within(_, _), Stated(_, _)
Within(e, at) ==
  {e} \cup IF e[1] \in at THEN {}
           ELSE UNION {Within(x, at) : x \in Subterms(e)} \cup
                IF e[1] = "matchx" THEN Stated(<<"match", e[2], e[3]>>, at) ELSE {}
Stated(s, at) ==
  LET Block(ss) == UNION {Stated(x, at) : x \in Range(ss)}
      Each(es) == UNION {Within(e, at) : e \in Range(es)}
  IN CASE s[1] = "expr" -> Each(<<s[2]>>)
       [] s[1] \in {"let", "const", "return"} -> Each(s[Len(s)])
       [] s[1] = "assert" -> Each(<<s[2]>>) \cup IF "message" \in at THEN {} ELSE Each(s[3])
       [] s[1] = "if" -> Each(<<s[2]>>) \cup Block(s[3]) \cup Block(s[4])
       [] s[1] = "while" -> Each(<<s[2]>>) \cup Block(s[3])
       [] s[1] = "for" -> Each(<<s[3]>>) \cup Block(s[4])
       [] s[1] = "match" -> Each(<<s[2]>>) \cup UNION {Block(a[3]) : a \in Range(s[3])}
            \cup IF "guard" \in at THEN {} ELSE UNION {Each(a[2]) : a \in Range(s[3])}
       [] s[1] = "try" -> Block(s[2]) \cup Block(s[4])
       [] s[1] = "fn" -> IF "fn" \in at THEN {} ELSE Block(s[6])
       [] s[1] = "spawn" -> Stated(s[2], at)
       [] OTHER -> {}
StatedIn(body, at) == UNION {Stated(s, at) : s \in Range(body)}
\* The functions an expression calls itself.
CalledAt(e) ==
  CASE e[1] = "call" /\ e[2][1] = "ident" -> {e[2][2]}
    [] e[1] = "pipe" -> Range(e[3])
    [] OTHER -> {}

-----------------------------------------------------------------------------
(* The engines.                                                              *)
\* The type of an expression of the common language, in which every operator is
\* known to all the engines and has operands of one type that it takes; "no" for
\* any other expression.
RECURSIVE Sort(_)
Sort(e) ==
  CASE e[1] \in {"int", "bool", "str"} -> e[1]
    [] e[1] = "un" -> IF e[2] = "-" /\ Sort(e[3]) = "int" THEN "int" ELSE "no"
    [] e[1] = "ifx" -> IF Sort(e[2]) \in {"int", "bool"} /\ Sort(e[3]) = Sort(e[4]) THEN Sort(e[3]) ELSE "no"
    [] e[1] = "bin" ->
         LET t == Sort(e[3])
         IN CASE t # Sort(e[4]) \/ t = "no" -> "no"
              [] e[2] \in {"==", "!="} -> "bool"
              [] e[2] \in {"<", ">", "<=", ">="} /\ t = "int" -> "bool"
              [] e[2] \in {"+", "-", "*", "/"} /\ t = "int" -> "int"
              [] e[2] = "+" /\ t = "str" -> "str"
              [] OTHER -> "no"
    [] OTHER -> "no"
Exprs(program) == UNION {Range(IF s[1] = "expr" THEN <<s[2]>> ELSE s[Len(s)]) : s \in Range(program)}
Common(program) == /\ \A e \in Exprs(program) : Sort(e) # "no"
                   /\ program[Len(program)][1] # "let"

\* The program the compiler makes of one: "%", "&&" and "||" add, "!" is not
\* there, and a character is a text.
RECURSIVE AsCompiled(_)
AsCompiled(e) ==
  CASE e[1] = "char" -> W!Str(e[2])
    [] e[1] = "un" -> IF e[2] = "!" THEN AsCompiled(e[3]) ELSE <<"un", e[2], AsCompiled(e[3])>>
    [] e[1] = "bin" -> <<"bin", IF e[2] \in {"%", "&&", "||"} THEN "+" ELSE e[2], AsCompiled(e[3]), AsCompiled(e[4])>>
    [] e[1] = "ifx" -> <<"ifx", AsCompiled(e[2]), AsCompiled(e[3]), AsCompiled(e[4])>>
    [] OTHER -> e
CompiledAs(program) ==
  [i \in DOMAIN program |->
     LET s == program[i]
     IN IF s[1] = "expr" THEN <<"expr", AsCompiled(s[2])>>
        ELSE [s EXCEPT ![Len(s)] = [k \in DOMAIN @ |-> AsCompiled(@[k])]]]

MainOf(program) ==
  <<"fn", "main", <<>>, <<>>, P!Notes, program, FALSE>>
InAgent(program) == A!Invoke("main", <<>>, A!Load(A!New("execute"), <<MainOf(program)>>))
Failed == <<"failed">>
Given(run) == IF run.sig \in {"ok", "return"} THEN run.v ELSE Failed
Machine == IF vm.failed = "no" THEN D!Answer(vm) ELSE Failed

\* One operator between two literals that are not of one type it takes: the
\* interpreter joins what stands beside a text and gives nothing else a meaning
\* but equality, the machine calls any order false, and what only the machine
\* takes for one type is a character beside a text.
Unlike(op, a, b) ==
  LET walked == Given(W!Run(input))
  IN /\ op = "+" /\ "str" \in {a[1], b[1]} => walked = W!Str(W!Show(a) \o W!Show(b)) /\ Machine = Failed
     /\ op \in {"<", ">", "<=", ">="} => walked = Failed /\ Machine = W!Bool(FALSE)
     /\ op = "==" => walked = W!Bool(FALSE) /\ Machine = W!Bool(FALSE)
     /\ op = "!=" => walked = W!Bool(TRUE) /\ Machine = W!Bool(TRUE)
     /\ op \in {"-", "*", "/"} => walked = Failed /\ Machine = Failed

\* A program of the common language, arithmetic, comparisons and branches without
\* calls, gives the same value in the interpreter, in the agent runtime and on the
\* virtual machine, and fails in all of them or in none: then it has divided by
\* zero.  Of any other program without calls, the machine gives what the
\* interpreter gives of the program the compiler makes of it, where that one is of
\* the common language (7 % 2 is 9 on the machine, and !c takes the branch of c);
\* a name is none to it; the agent, if it gives a value, gives the interpreter's;
\* and operands of two types part them as told by Unlike (eval_expr of
\* interpreter.rs and of runtime.rs; compile_expr and execute_op of dlvm).
EnginesAgree ==
  part = "engines" /\ ~vm.running /\ (\A e \in StatedIn(input, {}) : CalledAt(e) = {}) =>
    LET walked == W!Run(input)
        agent == InAgent(input)
        final == input[Len(input)]
        compiled == CompiledAs(input)
    IN /\ Common(input) =>
            \/ Machine # Failed /\ Given(walked) = Machine /\ Given(agent) = Machine
            \/ vm.failed = "zero" /\ walked.sig = "panic" /\ agent.sig = "error" /\ agent.v = "zero"
       /\ Common(compiled) => Machine = Given(W!Run(compiled))
       /\ final[1] = "expr" /\ final[2][1] = "ident" => Machine = W!None
       /\ final[1] # "let" /\ Given(agent) # Failed => Given(walked) = Given(agent)
       /\ final[1] = "expr" /\ final[2][1] = "bin" /\ final[2][3][1] # final[2][4][1]
            /\ {final[2][3][1], final[2][4][1]} \subseteq {"int", "bool", "str"} =>
            Unlike(final[2][2], final[2][3], final[2][4])

\* The machine comes to an end on whatever is compiled: a call only marks its
\* place and its return runs what follows it once more, with every call in it, so
\* the work doubles with each call but is not endless (run, Call and Return,
\* dlvm lib.rs).
VmHalts == (part = "engines") ~> ~vm.running

-----------------------------------------------------------------------------
(* Types.                                                                    *)
Kinds == [int |-> "int", str |-> "string", bool |-> "bool", char |-> "char", array |-> "array",
          nothing |-> "option", some |-> "option", ok |-> "result", err |-> "result",
          fn |-> "func", none |-> "none"]
RECURSIVE Inhabits(_, _)
Inhabits(v, t) == T!IsVar(t) \/
  /\ t[1] = Kinds[v[1]]
  /\ t[2] # <<>> => CASE v[1] = "array" -> \A i \in DOMAIN v[2] : Inhabits(v[2][i], t[2][1])
                      [] v[1] \in {"some", "ok"} -> Inhabits(v[2], t[2][1])
                      [] OTHER -> TRUE

\* Two values of one type, as far as the second shows it.
RECURSIVE Like(_, _)
Like(v, w) ==
  /\ Kinds[v[1]] = Kinds[w[1]]
  /\ v[1] = "array" /\ w[2] # <<>> => \A i \in DOMAIN v[2] : Like(v[2][i], w[2][1])
  /\ v[1] = w[1] /\ v[1] \in {"some", "ok"} => Like(v[2], w[2])

\* Where inference guesses, and its guess is not the value: a text joined to
\* what is not a number, str and range, a branch or an arm that is not of the type
\* of the first, an array of several types, a call of a function that does not
\* end in a return, a loop, and an if without a branch to take.  Values are looked
\* up in "given", by the statements that have them.
RECURSIVE Misses(_, _)
Misses(e, given) ==
  LET Of(x) == given[<<<<"expr", x>>>>]
      v == Of(e)
  IN CASE e[1] = "bin" -> e[2] = "+" /\ v[1] = "str" /\ Of(e[3])[1] # "int"
       [] e[1] = "call" -> e[2][2] \in {"str", "range"} \/ v = <<"none">>
       [] e[1] = "ifx" -> ~Like(v, Of(e[3]))
       [] e[1] = "matchx" -> ~Like(v, given[e[3][1][3]])
       [] e[1] \in {"some", "ok"} -> Misses(e[2], given)
       [] e[1] = "array" -> \E x \in Range(e[2]) : Misses(x, given) \/ ~Like(Of(x), Of(e[2][1]))
       [] OTHER -> FALSE
MissesStmt(s, given) ==
  CASE s[1] = "expr" -> Misses(s[2], given)
    [] s[1] = "let" -> Misses(s[5][1], given)
    [] s[1] = "if" -> ~Like(given[<<s>>], given[s[3]])
    [] s[1] = "while" -> TRUE
    [] OTHER -> FALSE
\* What a statement is made of and may have a value: itself, its expressions, its
\* first branch and the first arms in it.
BlocksOf(s) ==
  LET exprs == Stated(s, {})
  IN {<<s>>} \cup {<<<<"expr", e>>>> : e \in exprs} \cup (IF s[1] = "if" THEN {s[3]} ELSE {})
     \cup {e[3][1][3] : e \in {x \in exprs : x[1] = "matchx"}}

\* The type inferred of a statement, unless it is left open, is the type of the
\* value the interpreter gives it, down to the elements of arrays and options,
\* unless and only unless inference guesses there as told by Misses: so it is of
\* a binding by itself, and of each use of a name that is bound to no guess,
\* through calls, pipes, indexes, branches and arms; and nothing but an array of
\* several types is reported (infer_program, ty.rs).
TypesHold ==
  part = "types" =>
    LET n == Len(input)
        Before(k) == SubSeq(input, 1, k - 1)
        after == [k \in {n - 1, n} |->
                    [block \in BlocksOf(input[k]) |-> W!Run(Before(k) \o block)]]
        given == [k \in {n - 1, n} |-> [block \in DOMAIN after[k] |-> after[k][block].v]]
        typed == [k \in {n - 1, n} |-> T!Stmt(input[k], T!Infer(Before(k)))]
        guess == [k \in {n - 1, n} |-> MissesStmt(input[k], given[k])]
    IN \A k \in {n - 1, n} :
         after[k][<<input[k]>>].sig = "ok" /\ (k = n => ~guess[n - 1]) =>
           /\ Inhabits(given[k][<<input[k]>>], typed[k].t) = ~guess[k]
           /\ typed[k].s.errors > 0 =>
                \E e \in Stated(input[k], {}) : e[1] = "array" /\ Misses(e, given[k])

-----------------------------------------------------------------------------
(* What a function does against what it declares.                            *)
\* Where a call is hidden from the check: inside an array, an option, a result,
\* an index, a member, a pipe or a match used as a value, in the guard of an arm,
\* the message of an assertion or a function declared in the body.
Hidden == {"array", "some", "ok", "err", "index", "member", "pipe", "matchx", "guard", "message", "fn"}
Open(body) == {e \in StatedIn(body, Hidden) : e[1] \notin Hidden}
CalledIn(nodes) == UNION {CalledAt(e) : e \in nodes}

\* What an expression is told by: itself, its arguments, its branches and its
\* arms.  This is how far a print is heard of, also from the arms of a match.
RECURSIVE Telling(_)
Telling(e) ==
  {e} \cup UNION {Telling(x) : x \in
    CASE e[1] = "call" -> Range(e[3])
      [] e[1] = "ifx" -> {e[3], e[4]}
      [] e[1] = "matchx" -> {arm[3][1][2] : arm \in Range(e[3])}
      [] OTHER -> {}}
Told(nodes) == CalledIn({x \in UNION {Telling(e) : e \in nodes} : x[1] # "pipe"})

\* All that an expression is made of but its conditions and the value matched.
RECURSIVE Weighed(_)
Weighed(e) ==
  Telling(e) \cup UNION {Weighed(x) : x \in
    CASE e[1] = "call" -> Range(e[3])
      [] e[1] = "ifx" -> {e[3], e[4]}
      [] e[1] = "matchx" -> {arm[3][1][2] : arm \in Range(e[3])}
      [] OTHER -> Subterms(e)}
\* An expression is proven if all in it, conditions apart, is made of literals,
\* operators, arrays and branches; it can do what its arguments, branches and arms
\* can, on their one accelerator.
GradedByParts(e) ==
  LET can == C!Capability(e, <<>>)
  IN /\ (C!Confidence(e) = "proven") =
          \A x \in Weighed(e) : x[1] \notin {"call", "ident", "some", "ok", "err", "index", "member", "pipe"}
     /\ can = IF "gpu_run" \in Told({e}) THEN "gpu" ELSE "cpu"

\* A function that declares no effect is reported if and only if it prints where
\* that is heard, and one governed by suggest if and only if it deploys or writes
\* in the open: however deep in operators, arguments, branches, loops, arms of
\* statements or handlers the call is, but nowhere Hidden, and from the arms of a
\* match used as a value only a print.  No function is reported that calls none of
\* them at all.  What an expression is made of settles its confidence and its
\* capability (walk_body_and_check and the inferencers, ty2.rs).
CallsAreReported ==
  part = "contracts" =>
    LET report == C!Infer(<<input>>)[1]
        body == input[6]
        anywhere == CalledIn(StatedIn(body, {}))
        pure == report.declared.effect = "pure"
        governed == report.declared.gov # <<>>
    IN /\ (report.errors.effect > 0) = (pure /\ "println" \in Told(StatedIn(body, Hidden)))
       /\ (report.errors.gov > 0) = (governed /\ CalledIn(Open(body)) \cap {"deploy", "write"} # {})
       /\ report.errors.effect > 0 => "println" \in anywhere
       /\ report.errors.gov > 0 => anywhere \cap {"deploy", "write"} # {}
       /\ \A s \in Range(body) : s[1] = "expr" => GradedByParts(s[2])

-----------------------------------------------------------------------------
(* The session.                                                              *)
\* Between calls the depth is the number of calls ever refused for their phase or
\* their level: every other call gives its depth back, however it ended, nested,
\* in a loop, caught or healed; a session wears out by refusals alone (call_fn,
\* runtime.rs).
DepthCountsRefusals == session.depth = session.refused

\* Degrading does not heal: a call refused for its level fails again one level
\* lower, and the session keeps the lower level (call_with_healing, runtime.rs).
DegradeNeverHeals ==
  [][\A r \in Requests :
       Request(r[1], r[2], r[3]) /\ r[1] = "DegradeGovernance"
         /\ A!Invoke(r[2], r[3], session).v = "governance" =>
       /\ answer' = "governance"
       /\ A!Rank(A!Levels, session'.level) =
            IF session.level = "prepare" THEN 1 ELSE A!Rank(A!Levels, session.level) - 1]_vars
=============================================================================
