---------------------------- MODULE MCToolchain ----------------------------
(* Toolchain on small inputs.  Every set of trees is built one level at a    *)
(* time, so that each node occurs under each other node.                     *)
EXTENDS ToolchainProps, Writing

I(n) == <<"int", n>>
X(x) == <<"ident", x>>
B(op, l, r) == <<"bin", op, l, r>>
If(c, a, b) == <<"ifx", c, a, b>>
F(f, args) == <<"call", X(f), args>>
E(e) == <<"expr", e>>
Let(x, e) == <<"let", FALSE, x, <<>>, <<e>>>>
Ty(b) == <<b, <<>>, <<>>>>
Fn(name, params, ret, notes, body) == <<"fn", name, params, ret, notes, body, FALSE>>
NoNotes == P!Notes
Pat(kind, name, inner, fields, value) ==
  [kind |-> kind, name |-> name, binding |-> [i \in DOMAIN inner |-> inner[i].name],
   inner |-> inner, fields |-> fields, value |-> value]
Wild == Pat("wild", "", <<>>, <<>>, <<>>)
Is(e) == Pat("lit", "", <<>>, <<>>, <<e>>)
Ctor(name) == Pat("ctor", name, <<>>, <<>>, <<>>)
SomeX == Pat("ctor", "Some", <<Ctor("x")>>, <<>>, <<>>)
Arm(p, e) == <<p, <<>>, <<E(e)>>>>

-----------------------------------------------------------------------------
(* Texts.                                                                    *)
Signs == {"||", "&&", "==", "<=", "-", "*"}
Leaves == {I(10), X("x"), <<"bool", TRUE>>, <<"str", "a b">>, <<"char", "c">>, <<"none">>, <<"range", 1, 12>>}
One ==
  Leaves \cup {B(op, X("x"), I(2)) : op \in Signs} \cup {<<"un", op, X("x")>> : op \in {"-", "!"}}
  \cup {F("f", <<>>), F("f", <<X("x"), I(2)>>), <<"member", X("x"), "m">>, <<"index", X("x"), I(0)>>,
        <<"call", <<"member", X("x"), "m">>, <<I(1)>>>>,
        <<"array", <<>>>>, <<"array", <<I(1), X("x")>>>>, <<"some", X("x")>>, <<"err", X("x")>>,
        <<"pipe", X("x"), <<"f", "g">>>>, If(X("x"), I(1), I(2)),
        <<"matchx", X("x"), <<Arm(Is(I(1)), X("x")), Arm(SomeX, I(2)), Arm(Wild, I(3))>>>>}
Two ==
  One \cup {B(op, a, X("y")) : op \in Signs, a \in One} \cup {B(op, X("y"), a) : op \in Signs, a \in One}
  \cup UNION {{<<"un", "-", a>>, F("f", <<a, X("y")>>), <<"index", X("y"), a>>, <<"array", <<a>>>>,
               <<"ok", a>>, <<"pipe", a, <<"f">>>>, If(a, X("y"), a), If(X("y"), a, I(0)),
               <<"matchx", a, <<<<Ctor("On"), <<a>>, <<E(a)>>>>>>>>} : a \in One}
Marked == [NoNotes EXCEPT !.effect = <<"io">>, !.capability = <<"gpu">>, !.llm = <<"p">>, !.loop = <<"act">>,
                          !.gov = <<"approve">>, !.latency = <<<<5, "ms">>>>, !.timeout = <<<<30, "">>>>,
                          !.throughput = <<<<9, "/s">>>>, !.confidence = <<"proven">>]
Opt(b, arg) == <<b, <<arg>>, <<>>>>
Sentences ==
  {Let("a", X("x")), <<"let", TRUE, "a", <<Opt("option", Ty("int"))>>, <<>>>>,
   <<"const", "k", <<<<"result", <<Ty("int")>>, <<Ty("string")>>>>>>, <<I(1)>>>>,
   Fn("f", <<<<"a", <<Ty("int")>>, <<>>>>, <<"b", <<>>, <<I(1)>>>>>>, <<Ty("bool")>>, Marked, <<<<"return", <<X("a")>>>>>>),
   Fn("g", <<>>, <<>>, NoNotes, <<<<"return", <<>>>>>>),
   <<"fn", "h", <<>>, <<>>, [NoNotes EXCEPT !.effect = <<"async">>], <<E(X("x"))>>, TRUE>>,
   <<"spawn", Fn("s", <<>>, <<>>, [NoNotes EXCEPT !.effect = <<"spawn">>], <<E(X("x"))>>)>>,
   <<"if", X("x"), <<E(I(1))>>, <<>>>>,
   <<"if", X("x"), <<E(I(1))>>, <<<<"if", X("y"), <<>>, <<E(I(2)), E(I(3))>>>>>>>>,
   <<"while", X("x"), <<Let("a", I(1)), E(X("a"))>>>>,
   <<"for", "i", <<"range", 0, 3>>, <<<<"if", X("i"), <<>>, <<E(X("i"))>>>>>>>>,
   <<"match", X("x"), <<<<SomeX, <<B("<", X("x"), I(1))>>, <<<<"return", <<X("x")>>>>>>>>,
                        <<Pat("struct", "S", <<>>, <<<<"a", "b">>>>, <<>>), <<>>, <<Let("q", I(1))>>>>,
                        Arm(Wild, X("y"))>>>>,
   <<"struct", "S", <<<<"a", Ty("int")>>, <<"b", Opt("array", Ty("float"))>>>>>>, <<"enum", "C", <<"On", "Off">>>>,
   <<"trait", "R", <<<<"m", <<Ty("int")>>, <<<<"a", <<>>, <<>>>>>>>>>>>>, <<"impl", "S", <<<<"m", <<Ty("int")>>>>>>>>,
   <<"channel", "s", "r", <<Ty("int")>>>>, <<"try", <<E(X("x"))>>, <<"e">>, <<E(X("e"))>>>>,
   <<"try", <<>>, <<>>, <<E(X("x"))>>>>, <<"assert", X("x"), <<<<"str", "no">>>>>>, <<"use", "m">>,
   <<"export", "m">>, <<"alias", "N", <<Ty("char")>>>>, E(X("x"))}
\* Every expression, and every two statements that a sign can tell apart: a bare
\* return takes whatever expression follows for its value.
Written2 == {<<Let("v", e)>> : e \in Two} \cup {<<a, b>> : a \in Sentences, b \in Sentences}
Texts == {[program |-> p, text |-> WrittenProgram(style, p)] : p \in Written2, style \in Styles}

-----------------------------------------------------------------------------
(* Programs for the engines: numbers, truth and strings by themselves.       *)
Ints == {I(0), I(2)}
Truths == {<<"bool", TRUE>>} \cup {B(op, I(0), I(2)) : op \in {"==", "!=", "<", ">", "<=", ">="}}
          \cup {B("!=", <<"str", "a">>, B("+", <<"str", "a">>, <<"str", "b">>)), B("==", <<"bool", TRUE>>, <<"bool", FALSE>>)}
Ints1 == Ints \cup {B(op, I(7), b) : op \in {"+", "-", "*", "/"}, b \in Ints} \cup {<<"un", "-", I(7)>>}
         \cup {If(c, I(1), B("/", I(7), I(0))) : c \in {B("<", I(0), I(2)), B(">", I(0), I(2))}}
Ints2 == Ints1 \cup {B(op, a, b) : op \in {"+", "-", "*", "/"}, a \in Ints1, b \in Ints1}
         \cup {If(c, a, b) : c \in Truths, a \in Ints1, b \in Ints1} \cup {<<"un", "-", a>> : a \in Ints1}
Truths2 == Truths \cup {B(op, a, b) : op \in {"==", "<"}, a \in Ints1, b \in Ints1}
           \cup {B("==", a, b) : a \in Truths, b \in Truths} \cup {If(a, b, c) : a \in Truths, b \in Truths, c \in Truths}
Nested == {If(c, If(d, I(1), I(2)), If(d, I(3), B("+", I(4), If(c, I(5), I(6))))) : c \in Truths, d \in Truths}
Calling ==
  {<<E(F("f", <<F("g", <<I(1)>>), F("h", <<>>)>>)), E(F("f", <<>>)), E(I(1))>>,
   <<Let("a", F("f", <<>>)), <<"return", <<F("g", <<I(1), I(2)>>)>>>>, E(F("h", <<>>))>>,
   <<E(If(F("f", <<I(0)>>), F("g", <<>>), F("h", <<I(1)>>))), E(F("println", <<F("f", <<>>)>>))>>,
   <<E(<<"pipe", I(1), <<"f", "print", "g">>>>), E(F("len", <<<<"array", <<I(1), F("f", <<>>)>>>>>>))>>,
   <<E(F("assert", <<F("f", <<>>)>>))>>, <<E(B("%", F("f", <<I(1)>>), I(2)))>>}
Straight == {<<Let("a", a), <<"return", <<b>>>>, E(I(9))>> : a \in Ints1, b \in Ints1}
\* Operators that not every engine knows, or that meet two types, also within
\* branches; names; and what is no value of the common language.
AllSigns == {"+", "-", "*", "/", "%", "==", "!=", "<", ">=", "&&", "||"}
Mixed == {I(7), I(0), <<"bool", TRUE>>, <<"bool", FALSE>>, <<"str", "a">>, <<"char", "a">>, <<"array", <<I(1)>>>>, <<"none">>}
Odd1 == {B(op, a, b) : op \in AllSigns, a \in Mixed, b \in Mixed \ {<<"none">>}}
        \cup {<<"un", op, a>> : op \in {"-", "!"}, a \in Mixed}
Odd2 == Odd1 \cup {If(a, I(1), I(2)) : a \in Odd1} \cup {B(op, I(1), a) : op \in {"%", "+", "=="}, a \in Odd1}
        \cup {If(<<"un", "!", c>>, If(c, I(1), a), a) : c \in Truths, a \in {B("%", I(7), I(2)), <<"str", "a">>}}
Naming == {<<Let("a", a), E(X("a"))>> : a \in Mixed} \cup {<<Let("a", a), E(B("+", X("a"), I(1)))>> : a \in Ints}
EnginePrograms == {<<E(e)>> : e \in Ints2 \cup Truths2 \cup Nested \cup Odd2} \cup Straight \cup Naming \cup Calling

-----------------------------------------------------------------------------
(* Programs for the types: a definition, a binding and a use of both.        *)
Typed ==
  {I(1), <<"bool", TRUE>>, <<"str", "a">>, <<"char", "c">>, <<"none">>, <<"some", I(1)>>, <<"ok", <<"bool", TRUE>>>>,
   <<"err", I(1)>>, <<"range", 0, 2>>, <<"array", <<>>>>, <<"array", <<I(1), I(2)>>>>,
   <<"array", <<<<"array", <<<<"str", "a">>>>>>>>>>, <<"some", <<"array", <<<<"bool", TRUE>>>>>>>>,
   B("+", I(1), I(2)), B("+", I(1), <<"str", "a">>), B("+", <<"bool", TRUE>>, I(1)), B("<", I(1), I(2)),
   B("&&", I(1), <<"str", "">>), B("==", I(1), <<"str", "a">>), <<"un", "-", I(1)>>, <<"un", "!", I(1)>>}
\* What inference guesses, rightly or not.
Guessed ==
  {B("+", a, <<"str", "b">>) : a \in {<<"str", "a">>, <<"char", "c">>, <<"none">>, <<"array", <<I(1)>>>>}}
  \cup {B("+", <<"str", "a">>, I(1)), B("+", <<"str", "a">>, <<"bool", TRUE>>)}
  \cup {F(f, <<a>>) : f \in {"str", "int", "len"}, a \in {I(1), <<"bool", TRUE>>}} \cup {F("abs", <<I(1)>>), F("range", <<I(0), I(2)>>)}
  \cup {If(B(op, I(1), I(2)), a, b) : op \in {"<", ">"}, a \in {I(1), <<"array", <<I(1)>>>>},
                                     b \in {<<"str", "a">>, <<"array", <<>>>>, <<"array", <<<<"str", "a">>>>>>}}
  \cup {<<"matchx", I(n), <<Arm(Is(I(1)), I(1)), Arm(Wild, <<"str", "a">>)>>>> : n \in 1..2}
  \cup {<<"array", <<I(1), <<"str", "a">>>>>>, <<"some", F("str", <<I(1)>>)>>, F("h", <<I(1)>>)}
Def == Fn("f", <<<<"p", <<>>, <<>>>>, <<"q", <<>>, <<>>>>>>, <<>>, NoNotes, <<Let("l", I(1)), <<"return", <<B("-", X("p"), I(1))>>>>>>)
DefTyped(e, ty) == Fn("g", <<<<"p", <<Ty("int")>>, <<>>>>>>, <<Ty(ty)>>, NoNotes, <<<<"return", <<e>>>>>>)
UseOf(e) ==
  {E(X("v")), E(<<"some", X("v")>>), E(<<"ok", X("v")>>), E(<<"array", <<X("v"), e>>>>),
   E(If(B("<", I(1), I(2)), X("v"), e)), E(B("==", X("v"), X("v"))), E(<<"un", "!", X("v")>>),
   E(<<"matchx", X("v"), <<Arm(Is(I(1)), e), Arm(Wild, X("v"))>>>>),
   <<"if", X("v"), <<E(I(1)), E(X("v"))>>, <<E(e)>>>>, Let("w", <<"array", <<<<"some", X("v")>>>>>>),
   E(B("+", X("v"), <<"str", "b">>)), E(B("+", <<"str", "b">>, X("v"))), E(B("+", I(1), X("v"))),
   E(If(B(">", I(1), I(2)), X("v"), <<"str", "a">>)), E(If(B("<", I(1), I(2)), <<"str", "a">>, X("v"))),
   E(<<"array", <<X("v"), <<"str", "a">>>>>>), E(F("str", <<X("v")>>)), E(F("range", <<X("v"), I(2)>>)),
   E(<<"matchx", X("v"), <<Arm(Is(I(1)), <<"str", "a">>), Arm(Wild, X("v"))>>>>), E(F("h", <<X("v")>>)),
   <<"if", X("v"), <<E(I(1))>>, <<E(<<"str", "a">>)>>>>, <<"if", X("v"), <<E(X("v"))>>, <<>>>>,
   <<"while", <<"bool", FALSE>>, <<E(X("v"))>>>>,
   E(F("len", <<X("v")>>)), E(F("f", <<X("v"), X("v")>>)), E(<<"index", <<"array", <<X("v")>>>>, I(0)>>),
   E(B("+", F("g", <<X("v")>>), I(1))), E(<<"pipe", X("v"), <<"g">>>>), <<"let", FALSE, "g", <<>>, <<X("g")>>>>}
DefNone == Fn("h", <<<<"p", <<>>, <<>>>>>>, <<>>, NoNotes, <<E(I(1))>>)
TypedPrograms ==
  {<<Def, DefNone, DefTyped(B("*", X("p"), I(2)), "int"), Let("v", e), u>> : u \in UseOf(I(1)), e \in {I(1)}}
  \cup UNION {{<<Def, DefNone, DefTyped(I(2), "int"), Let("v", e), u>> : u \in UseOf(e)} : e \in Typed \cup Guessed}

-----------------------------------------------------------------------------
(* Functions for the contracts: a call at each place of an expression, the   *)
(* expression at each place of a statement.                                  *)
Places(e) ==
  {e, B("+", I(1), e), B("+", B("*", e, I(2)), X("x")), <<"un", "-", e>>, F("f", <<I(1), e>>),
   F("f", <<F("g", <<e>>)>>), If(e, I(1), I(2)), If(X("x"), e, I(2)), If(X("x"), I(1), B("-", I(1), e)),
   \* and where it is hidden
   <<"array", <<I(1), e>>>>, <<"array", <<F("f", <<e>>)>>>>, <<"some", e>>, <<"ok", B("+", e, I(1))>>, <<"err", e>>,
   <<"index", X("x"), e>>, <<"index", e, I(0)>>, <<"member", e, "m">>, <<"pipe", e, <<"g">>>>,
   <<"pipe", I(1), <<"g", IF e[1] = "call" THEN e[2][2] ELSE "f">>>>,
   <<"matchx", e, <<Arm(Wild, I(1))>>>>, <<"matchx", X("x"), <<Arm(Is(I(1)), I(1)), Arm(Wild, e)>>>>,
   <<"matchx", X("x"), <<Arm(Wild, F("f", <<e>>))>>>>, <<"matchx", X("x"), <<Arm(Wild, B("+", I(1), e))>>>>,
   If(X("x"), <<"matchx", X("x"), <<Arm(Wild, If(X("x"), I(1), e))>>>>, I(2)), F("f", <<<<"array", <<e>>>>>>)}
Around(e) ==
  {E(e), Let("a", e), <<"const", "k", <<>>, <<e>>>>, <<"return", <<e>>>>, <<"assert", e, <<>>>>,
   <<"if", X("x"), <<E(I(1))>>, <<E(e)>>>>, <<"if", e, <<>>, <<>>>>, <<"while", e, <<>>>>,
   <<"while", X("x"), <<Let("a", e)>>>>, <<"for", "i", X("x"), <<<<"if", X("i"), <<E(e)>>, <<>>>>>>>>,
   <<"for", "i", e, <<>>>>, <<"match", X("x"), <<Arm(Wild, e)>>>>, <<"match", e, <<Arm(Wild, I(1))>>>>,
   <<"match", X("x"), <<<<Wild, <<e>>, <<E(I(1))>>>>>>>>, <<"assert", X("x"), <<e>>>>,
   Fn("inner", <<>>, <<>>, NoNotes, <<E(e)>>),
   <<"try", <<E(e)>>, <<>>, <<>>>>, <<"try", <<E(I(1))>>, <<"e">>, <<E(e)>>>>}
Bodies == UNION {{<<E(I(1)), s>> : s \in Around(p)} :
                 p \in Places(I(1)) \cup Places(F("println", <<I(1)>>)) \cup Places(F("deploy", <<>>))
                       \cup Places(F("write", <<F("println", <<I(1)>>)>>)) \cup Places(F("gpu_run", <<I(1)>>))}
Promises == {NoNotes, [NoNotes EXCEPT !.gov = <<"suggest">>], [NoNotes EXCEPT !.effect = <<"io">>]}
Contracts == {Fn("c", <<<<"x", <<>>, <<>>>>>>, <<>>, n, b) : n \in Promises, b \in Bodies}

-----------------------------------------------------------------------------
(* Graphs of three modules: each uses up to two, or a name that is no module. *)
Modules3 == 1..3
Used == {<<>>, <<1, 1>>} \cup {<<d>> : d \in 1..4} \cup {p \in Modules3 \X Modules3 : p[1] # p[2]}
Graphs3 == [Modules3 -> Used]

Cases == [text |-> Texts, types |-> TypedPrograms, contracts |-> Contracts]

-----------------------------------------------------------------------------
(* A session: functions of each phase and level, one that fails in a loop,   *)
(* one that catches, one that divides and one that calls itself.             *)
Noted(f, v) == [NoNotes EXCEPT ![f] = <<v>>]
N == <<<<"n", <<>>, <<>>>>>>
Defs ==
  <<Fn("look", N, <<>>, Noted("loop", "perceive"), <<E(X("n"))>>),
    Fn("act", N, <<>>, Noted("loop", "act"), <<E(F("look", <<X("n")>>))>>),
    Fn("ship", N, <<>>, Noted("gov", "execute"), <<E(X("n"))>>),
    Fn("ask", N, <<>>, Noted("gov", "suggest"), <<<<"return", <<F("ship", <<X("n")>>)>>>>>>),
    Fn("retry", N, <<>>, NoNotes, <<<<"try", <<E(F("ship", <<X("n")>>)), E(F("act", <<X("n")>>))>>, <<"e">>, <<E(X("e"))>>>>>>),
    Fn("share", N, <<>>, NoNotes, <<<<"for", "i", <<"array", <<I(1), I(0)>>>>, <<E(B("/", X("n"), X("i")))>>>>>>),
    Fn("down", N, <<>>, NoNotes, <<<<"if", B("<", X("n"), I(1)), <<E(F("ship", <<I(0)>>))>>, <<E(F("down", <<B("-", X("n"), I(1))>>))>>>>>>)>>
Calls3 ==
  {<<m, f, <<I(1)>>>> : m \in A!Modes \cup {"None"}, f \in {"look", "act", "ask", "share"}}
  \cup {<<m, f, <<I(2)>>>> : m \in {"None", "DegradeGovernance"}, f \in {"ship", "retry", "down"}}

-----------------------------------------------------------------------------
(* A project: versions that are plain, short, compared and none; manifests   *)
(* with a table, a section of one dependency, and no name.                   *)
V(op, num) == [op |-> op, num |-> num]
Versions4 == {Star, V("", <<1, 2>>), V("", <<2, 0, 1>>), V(">=", <<1, 2>>)}
ByHand ==
  {<<Heading, Line("dependencies", "json", Table(<<<<"{ version", V("", <<1, 2>>)>>, <<"optional", "true">>,
                                                   <<"default-features", "true }">>>>)),
     Line("dev-dependencies", "test", Plain(V("", <<0, 1>>)))>>,
   <<Heading, Line("dependencies", "json", Plain(V("", <<3>>))),
     Line("dependencies.http", "version", Plain(V("", <<1, 0>>))),
     Line("dev-dependencies", "json", Plain(V("", <<4, 0>>)))>>,
   <<Heading, Line("dependencies", "json", Table(<<<<"{ git", "url">>, <<"version", V("", <<2, 1>>)>>, <<"tag", "v2 }">>>>)),
     Line("dependencies", "http", Table(<<<<"{ git", "url">>, <<"optional", "true">>, <<"version", V("", <<2, 2>>)>>,
                                          <<"tag", "v2 }">>>>))>>,
   \* a comparison, and a closing brace that stays with the version
   <<Heading, Line("dependencies", "json", Table(<<<<"{ git", "url">>, <<"version", V(">=", <<2, 1>>)>>, <<"tag", "v2 }">>>>)),
     Line("dependencies", "http", Table(<<<<"{ optional", "true">>, <<"version", V("}", <<2, 1>>)>>>>))>>,
   <<Line("dependencies", "http", Plain(V("==", <<1, 0>>)))>>}

-----------------------------------------------------------------------------
(* The language server.  A clean text, one that does not parse, and one with *)
(* a violation and, inside a comment, a line the signature provider cannot   *)
(* cut.                                                                      *)
Files == {"clean", "broken", "odd"}
Said == [t \in Files |-> CASE t = "broken" -> "syntax" [] t = "odd" -> "effect" [] OTHER -> "none"]
Hovers == [t \in Files |-> [c \in {"start"} |-> IF t = "broken" THEN "null" ELSE "word"]]
=============================================================================
