--------------------------- MODULE MCPreprocessor ---------------------------
(***************************************************************************)
(* Small sources for the preprocessor, as the lexer hands them over: all   *)
(* the sequences of a few lines, ended by a semicolon.                     *)
(***************************************************************************)
EXTENDS CwrPreprocessorProperties

CONSTANT MaxLines   \* lines in a source

L(type, s) == [type |-> type, text |-> <<s>>]
Hash == L("prefix", "#")
Line == L("new_line", "line end")
W(s) == L("word", s)
S(s) == L("string", s)
O(s) == L("other", s)
Semicolon == O(";")

DefineAs(name, body) == <<Hash, W("define"), W(name)>> \o body \o <<Line>>
IncludeOf(m) == <<Hash, W("include"), L("less", "<"), W(m), L("greater", ">")>>

\* void printf(char *content); and so on, cut short
MCModule == ("stdio.h" :> <<O("void"), W("printf"), O("("), W("A"), O(")"), Semicolon>>)

Lines == {
    DefineAs("A", <<O("(")>>),
    DefineAs("A", <<S("s"), S("t")>>),
    DefineAs("B", <<W("A"), S("s"), W("A")>>),
    <<W("A")>>, <<W("B")>>, <<S("r")>>,
    <<Hash, W("pragma")>>,
    <<Hash, W("include"), W("A")>>,
    <<Hash, W("define"), Semicolon>>,
    IncludeOf("stdio.h")}

RECURSIVE Concat(_)
Concat(s) == IF s = <<>> THEN <<>> ELSE Head(s) \o Concat(Tail(s))

\* A module is included again, if at all, by the last line.
IncludedOnce(s) == \A i, j \in DOMAIN s :
    i < j /\ s[i] = IncludeOf("stdio.h") /\ s[j] = s[i] => j = Len(s)

Sources ==
    {Concat(s) \o <<Semicolon>> :
        s \in {x \in UNION {[1 .. n -> Lines] : n \in 0 .. MaxLines} : IncludedOnce(x)}}

\* #define A , end of line, x ;
EmptyDefine == {DefineAs("A", <<>>) \o <<W("x"), Semicolon>>}

\* #include <string.h> x ;
MissingModule == {IncludeOf("string.h") \o <<W("x"), Semicolon>>}

\* These are lists as NewLinesCorrect assumes them.
ASSUME WrittenAssumption == Written
=============================================================================
