------------------------------- MODULE MCParser -------------------------------
(***************************************************************************)
(* Small sources for the parser, as the preprocessor hands them over.      *)
(***************************************************************************)
EXTENDS CwrTreeProperties, TLC

CONSTANTS MaxStatements,    \* fragments in a body
          MaxTokens         \* tokens in an expression

Reserved == {"int", "char", "float", "void", "struct", "for", "if", "return",
             "(", ")", "{", "}", "[", "]", "+", "-", "*", "/", "<", ">", "=", "!", "&",
             ";", ",", ":"}
T(type, s, n) == [t |-> type, s |-> s, n |-> n]
Literals == "0" :> T("number", "", 0) @@ "1" :> T("number", "", FloatUnit)
            @@ "0.5" :> T("number", "", FloatUnit \div 2) @@ "\"a\"" :> T("string", "", 1)
            @@ "'a'" :> T("character", "", 1)

\* The tokens of a source given by their text.
Lex(ss) == [i \in DOMAIN ss |->
                IF ss[i] \in Reserved THEN T(ss[i], "", 0)
                ELSE IF ss[i] \in DOMAIN Literals THEN Literals[ss[i]]
                ELSE T("word", ss[i], 0)]

UpTo(n, S) == UNION {[1 .. k -> S] : k \in 0 .. n}

RECURSIVE Concat(_)
Concat(ss) == IF ss = <<>> THEN <<>> ELSE Head(ss) \o Concat(Tail(ss))

Start == <<"int", "f", "(", "int", "a", ",", "char", "*", "s", ")", "{">>
Second == <<"int", "g", "(", "int", "a", ")", "{", "int", "x", "=", "a", ";", "}">>

(***************************************************************************)
(* Bodies: every sequence of a few statements and beginnings and ends of   *)
(* blocks, then another function.                                          *)
(***************************************************************************)
Fragments == {
    <<"int", "x", "=", "a", "+", "1", ";">>,
    <<"int", "y", "=", "x", ";">>,
    <<"x", "=", "a", ";">>,
    <<"f", "(", "x", ",", "s", ")", ";">>,
    <<"if", "(", "a", ")", "{">>,
    <<"for", "(", "int", "i", "=", "0", ";", "i", "<", "a", ";", "i", "=", "i", "+", "1", ")", "{">>,
    <<"for", "(", ";", "a", ";", "int", "x", "=", "0", ")", "{">>,
    <<"for", "(", ";", "s">>,
    <<"return", "a", ":", "{">>,
    <<"}">>, <<";">>}

InBodies == {Start \o Concat(s) \o <<"}">> \o Second : s \in UpTo(MaxStatements, Fragments)}

(***************************************************************************)
(* Expressions: every sequence of a few tokens after `return'.             *)
(***************************************************************************)
ExpressionTokens == {"a", "s", "u", "f", "1", "\"a\"", "+", "*", "=", "&", "(", ")", "[", "]", ";"}

Expressions == {Start \o <<"return">> \o s \o <<";", "}">> : s \in UpTo(MaxTokens, ExpressionTokens)}
               \cup {Start \o <<"return">> \o s : s \in UpTo(MaxTokens - 1, ExpressionTokens)}

(***************************************************************************)
(* Longer programs: prototypes and overloads, nested blocks, sources that  *)
(* end too early.                                                          *)
(***************************************************************************)
Overloads ==
    <<"int", "f", "(", "float", "a", ")", ";", "int", "f", "(", "int", "a", ")", "{", "return",
      "f", "(", "a", ")", ";", "}", "int", "f", "(", "char", "*", "a", ")", "{", "f", "(", "a", ")", ";",
      "f", "(", "1", ")", ";", "f", "(", "0.5", "*", "f", "(", "\"a\"", ")", ")", ";", "}">>
Nested ==
    <<"int", "f", "(", "int", "a", ")", "{", "int", "b", "=", "a", ";", "if", "a", "<", "b", "{",
      "int", "c", "=", "b", ";", "for", "(", ";", "c", ">", "=", "a", ";", "c", "=", "c", "-", "1", ")", "{",
      "int", "d", "=", "c", "*", "(", "a", "+", "b", ")", ";", "a", "=", "d", "!", "=", "c", ";", "}",
      "int", "e", "=", "c", ";", "}", "int", "c", "=", "b", ";", "return", "c", ":", "{",
      "int", "d", "=", "c", ";", "}", ";", "}">>
Texts ==
    <<"char", "f", "(", "char", "*", "s", ",", "int", "i", ")", "{", "*", "s", "=", "\"a\"", ";",
      "char", "*", "t", "=", "&", "s", ";", "char", "c", "=", "'a'", ";", "return", "s", "[", "i", "+", "1", "]", ";", "}">>
Structs == {<<"struct", "a", ";">>, Start \o <<"struct", "a", "b", "=", "a", ";", "}">>}
Early(ss) == {SubSeq(ss, 1, n) : n \in 0 .. Len(ss)}

Sources == {Lex(ss) : ss \in InBodies \cup Expressions \cup Structs
                              \cup Early(Overloads) \cup Early(Nested) \cup Early(Texts)}
===============================================================================
