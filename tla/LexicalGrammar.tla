---------------------------- MODULE LexicalGrammar ----------------------------
(***************************************************************************)
(* The tokens a source should have, by maximal munch: what cwr_lexer.c     *)
(* computes one character at a time, said over whole words, strings and    *)
(* comments.  Where the lexer has a rule of its own (a word that touches a *)
(* quote, the last word of a source, a define line that ends with a word,  *)
(* an include that is not written `#include <name>') the token is odd: a   *)
(* source without odd tokens is ordinary.                                  *)
(***************************************************************************)
EXTENDS CwrLexer

Ink(c) == c \notin Operator \cup Control \cup {" ", "\"", "'", NUL}
Odd == [type |-> "odd", text |-> <<>>]

\* f[p, hash, def]: the tokens from position p on, if the last one before is a
\* '#' (hash) on the line of a #define (def).
TokensOf(s) ==
    LET end == Len(s) + 1
        C(p) == IF p < end THEN s[p] ELSE NUL
        Next_(p, P(_)) == First({q \in p..end : q = end \/ P(C(q))})
        Slice(p, q) == SubSeq(s, p, q - 1)
        IsQuote(c) == c = "\""
        IsEnd(c) == c = "\n"
        IsGreater(c) == c = ">"
        NotDigit(c) == c \notin Digit
        NotInk(c) == ~Ink(c)
        Digits(p) == Next_(p, NotDigit)
        Comments(p) == C(p) = "/" /\ C(p + 1) = "/"
        \* The word between '<' and '>' that p and q enclose.
        IsName(p, q) == C(q) = ">" /\ \A k \in p..(q - 1) : Ink(C(k)) \/ C(k) = "."
        f[p \in 1..end, hash \in BOOLEAN, def \in BOOLEAN] ==
            LET c == C(p)
                word == Next_(p, NotInk)
                text == Slice(p, word)
                number == IF C(Digits(p)) = "." THEN Digits(Digits(p) + 1) ELSE Digits(p)
                close == Next_(p + 1, IsQuote)
                past == IF Comments(word) THEN Next_(word, IsEnd) ELSE word
                name == Next_(word + 2, IsGreater)
            IN  CASE p = end -> <<>>
                  [] c = "\n" /\ def -> <<Tok("newline", <<c>>)>> \o f[p + 1, FALSE, FALSE]
                  [] c \in {" "} \cup Control /\ ~(c = "\n" /\ def) -> f[p + 1, hash, def]
                  [] Comments(p) -> f[Next_(p, IsEnd), hash, def]
                  [] c \in Digit -> <<Tok("number", Slice(p, number))>> \o f[number, FALSE, def]
                  [] c = "\"" ->
                        IF close = end THEN <<Odd>>
                        ELSE <<Tok("string", Slice(p + 1, close))>> \o f[close + 1, FALSE, def]
                  [] c = "'" ->
                        IF C(p + 2) # "'" THEN <<Odd>>
                        ELSE <<Tok("character", <<s[p + 1]>>)>> \o f[p + 3, FALSE, def]
                  [] c \in Operator /\ ~Comments(p) ->
                        <<Tok("operator", <<c>>)>> \o f[p + 1, c = "#", def]
                  [] Ink(c) /\ hash /\ text = Include ->
                        IF /\ C(word) = " " /\ C(word + 1) = "<" /\ IsName(word + 2, name)
                           /\ Ink(C(word + 2)) /\ C(word + 2) \notin Digit
                        THEN <<Tok("word", text), Tok("operator", <<"<">>),
                               Tok(TypeOf(Slice(word + 2, name)), Slice(word + 2, name))>>
                             \o f[name, FALSE, def]
                        ELSE <<Odd>>
                  [] Ink(c) /\ ~(hash /\ text = Include) ->
                        IF \/ C(word) \in {"\"", "'"}
                           \/ def /\ C(past) = "\n"
                           \/ past = end /\ text \in Keyword
                           \/ hash /\ text = Define /\ C(word) # " "
                        THEN <<Odd>>
                        ELSE <<Tok(TypeOf(text), text)>>
                             \o f[word, FALSE, def \/ (hash /\ text = Define)]
    IN  f[1, FALSE, FALSE]

IsOrdinary(ts) == \A i \in DOMAIN ts : ts[i] # Odd
===============================================================================
