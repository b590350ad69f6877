-------------------------- MODULE CwrLexerProperties --------------------------
(***************************************************************************)
(* What the lexer should do, over the state of CwrLexer.                   *)
(***************************************************************************)
EXTENDS LexicalGrammar

\* The types of the variables; the position passes the end of the source by
\* at most the quote and the character of a literal that is not closed.
TypeOK ==
    /\ source \in Source
    /\ position \in 1..(Len(source) + 3)
    /\ buffer \in Seq(Char \cup Operator)
    /\ fresh \in BOOLEAN /\ newLine \in BOOLEAN /\ include \in BOOLEAN
    /\ tokens \in Seq(Token)
    /\ status \in {"run", "done", "undefined"}

\* The lexer gives an ordinary source the tokens it should have, in order,
\* with the line end of a #define after the tokens of its line, which is what
\* the preprocessor relies on: "# define [name], body value and new line
\* counting below" (source/cwr_preprocessor.c:338).
TokenisesOrdinary ==
    status = "done" =>
        LET ts == TokensOf(source) IN IsOrdinary(ts) => tokens = ts

\* Every line end among the tokens belongs to a #define of its own: since the
\* line end before it there is a '#' followed by the word define.  The
\* preprocessor drops the tokens of a macro up to the next line end.
DefinesAt(i) ==
    /\ i + 1 \in DOMAIN tokens
    /\ IsHash(tokens[i]) /\ IsDefine(tokens[i + 1])
OpenDefine(k) == \E i \in 1..(k - 1) : DefinesAt(i) /\ \A j \in (i + 1)..(k - 1) : ~IsNewLine(tokens[j])
NewLinesPaired ==
    /\ \A k \in DOMAIN tokens : IsNewLine(tokens[k]) => OpenDefine(k)
    /\ newLine => OpenDefine(Len(tokens) + 1)

\* The byte the string buffer is created with is read unset only at the
\* beginning of a source: an empty one (tests/main.c:23), one that begins with a
\* control character, or with an empty string.
UnsetOnlyAtStart ==
    status = "undefined" =>
        \/ source = <<>>
        \/ source[1] \in Control
        \/ source[1] = "/" /\ Len(source) > 1 /\ source[2] = "/"
        \/ source[1] = "\"" /\ (Len(source) = 1 \/ source[2] = "\"")

\* Every source is tokenised: each iteration of the loop moves on.
Terminates == <>(status # "run")
===============================================================================
