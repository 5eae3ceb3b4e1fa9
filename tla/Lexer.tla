------------------------------- MODULE Lexer -------------------------------
(* The lexer (src/compiler/src/lexer.rs).  A text is a sequence of glyphs:   *)
(* a letter or a whole word, a digit, a sign, a space or a line feed.  A     *)
(* token is its kind and its value; signs and keywords are their own kind.   *)
(* Lines and columns are left out.                                           *)
EXTENDS Integers, Sequences, SequencesExt

CONSTANT text

Keywords == {"let", "fn", "return", "if", "else", "match", "for", "in", "while",
             "spawn", "async", "try", "catch", "use", "trait", "assert", "channel",
             "mut", "ok", "error", "export", "pub", "impl", "struct", "enum",
             "type", "const", "mod"}
Digits == {"0", "1", "2", "3", "4", "5", "6", "7", "8", "9"}
Blanks == {" ", "\n"}
Doubles == {"->", "=>", "|>", "<|", "==", "!=", "<=", ">=", "&&", "||", "..", "::",
            "+=", "-=", "*=", "/="}
Singles == {"+", "-", "*", "/", "%", "=", "<", ">", "!", "?", "@", "$", ",", ";", ":",
            "(", ")", "[", "]", "{", "}", "."}
Quotes == {"\"", "'"}
Others == {"\\", "#", "&", "|", "^", "~"}

IsLetter(g) == g \notin Digits \cup Blanks \cup Singles \cup Quotes \cup Others \cup {"eof"}

\* current and peek: past the end there is nothing.
At(i) == IF i <= Len(text) THEN text[i] ELSE "eof"
Spell(i, j) == FoldLeft(LAMBDA s, g : s \o g, "", SubSeq(text, i, j - 1))

\* The first position at or after i whose glyph is not of the run.
RunEnd(i, In(_)) ==
  CHOOSE j \in i..Len(text) + 1 : ~In(At(j)) /\ \A k \in i..j - 1 : In(At(k))
\* The first position at or after i where Stop holds, or the end of the text.
Until(i, Stop(_)) ==
  CHOOSE j \in i..Len(text) + 1 :
    (j > Len(text) \/ Stop(j)) /\ \A k \in i..j - 1 : ~Stop(k)

\* skip_whitespace: blanks, line comments and block comments; an open block
\* comment reaches to the end.
RECURSIVE Skip(_)
Skip(i) ==
  IF At(i) \in Blanks THEN Skip(i + 1)
  ELSE IF At(i) = "/" /\ At(i + 1) = "/" THEN Skip(Until(i, LAMBDA k : At(k) = "\n"))
  ELSE IF At(i) = "/" /\ At(i + 1) = "*"
  THEN Skip(Until(i + 2, LAMBDA k : At(k) = "*" /\ At(k + 1) = "/") + 2)
  ELSE i

Digit(g) == CHOOSE n \in 0..9 : ToString(n) = g
Number(i, j) == FoldLeft(LAMBDA n, g : 10 * n + Digit(g), 0, SubSeq(text, i, j - 1))

Token(kind, value, next) == [ok |-> TRUE, tok |-> <<kind, value>>, at |-> next]

\* read_ident and the keyword table; true and false are literals.
Spelling(i) ==
  LET j == RunEnd(i, LAMBDA g : IsLetter(g) \/ g \in Digits)
      w == Spell(i, j)
  IN CASE w \in {"true", "false"} -> Token("bool", w = "true", j)
       [] w \in Keywords -> Token(w, w, j)
       [] OTHER -> Token("ident", w, j)

\* What an i64 holds.
Largest == <<9, 2, 2, 3, 3, 7, 2, 0, 3, 6, 8, 5, 4, 7, 7, 5, 8, 0, 7>>
AtMost(a, b) == a = b \/ \E k \in DOMAIN a : a[k] < b[k] /\ (\A m \in 1..k - 1 : a[m] = b[m])
IsI64(i, j) ==
  LET d == [k \in 1..j - RunEnd(i, LAMBDA g : g = "0") |-> Digit(text[j - k])]
  IN Len(d) < Len(Largest) \/ (Len(d) = Len(Largest) /\ AtMost(Reverse(d), Largest))

\* read_number: one dot makes a float, but two dots end the number before them; a
\* number too large is a name.
ReadNumber(i) ==
  LET j == RunEnd(i, LAMBDA g : g \in Digits)
      dot == At(j) = "." /\ At(j + 1) # "."
      k == IF dot THEN RunEnd(j + 1, LAMBDA g : g \in Digits) ELSE j
  IN CASE dot -> Token("float", Spell(i, k), k)
       [] ~dot /\ IsI64(i, j) -> Token("int", Number(i, j), j)
       [] OTHER -> Token("ident", Spell(i, j), j)

\* read_string: a backslash takes the next glyph as it is, but n and t stand for
\* a line feed and a tab; the end of the text is an error.
Escaped(g) == CASE g = "n" -> "\n" [] g = "t" -> "\t" [] OTHER -> g
RECURSIVE Quoted(_, _, _)
Quoted(q, i, sofar) ==
  CASE i > Len(text) -> [ok |-> FALSE]
    [] At(i) = "\\" -> Quoted(q, i + 2, sofar \o Escaped(At(i + 1)))
    [] At(i) = q -> Token(IF q = "\"" THEN "str" ELSE "char", sofar, i + 1)
    [] OTHER -> Quoted(q, i + 1, sofar \o At(i))

\* next_token, at a position that skip_whitespace left.
NextToken(i) ==
  LET two == At(i) \o At(i + 1)
  IN CASE At(i) = "eof" -> Token("eof", "", i)
       [] IsLetter(At(i)) -> Spelling(i)
       [] At(i) \in Digits -> ReadNumber(i)
       [] At(i) \in Quotes -> Quoted(At(i), i + 1, "")
       [] At(i) = "#" /\ At(i + 1) = "[" ->
            LET j == Until(i + 2, LAMBDA k : At(k) = "]")
            IN Token("attr", Spell(i, j) \o (IF j > Len(text) THEN "" ELSE "]"), j + 1)
       [] two \in Doubles -> Token(IF two = "<|" THEN "|>" ELSE two, two, i + 2)
       [] OTHER -> IF At(i) \in Singles THEN Token(At(i), At(i), i + 1)
                   ELSE Token("ident", "?" \o At(i) \o "?", i + 1)

\* tokenize: every token up to the end of the text, or the first error.
RECURSIVE From(_, _)
From(i, toks) ==
  LET t == NextToken(Skip(i))
  IN IF ~t.ok THEN [ok |-> FALSE]
     ELSE IF t.tok[1] = "eof" THEN [ok |-> TRUE, toks |-> Append(toks, t.tok)]
     ELSE From(t.at, Append(toks, t.tok))
Tokens == From(1, <<>>)
=============================================================================
