------------------------------ MODULE MCPipeline ------------------------------
(***************************************************************************)
(* Small sources for the parser and the interpreter together: two overloads*)
(* of g, main, and a function f with blocks, and declarations and uses of  *)
(* variables before, in and after them.                                    *)
(***************************************************************************)
EXTENDS CwrPipeline, TLC

Reserved == {"int", "for", "if", "return", "(", ")", "{", "}", "+", "-", "<", "=", ";", ",", ":"}
T(type, s, n) == [t |-> type, s |-> s, n |-> n]
Numbers == "0" :> T("number", "", 0) @@ "1" :> T("number", "", FloatUnit)
           @@ "2" :> T("number", "", 2 * FloatUnit)

\* The tokens of a source given by their text.
Lex(ss) == [i \in DOMAIN ss |->
                IF ss[i] \in Reserved THEN T(ss[i], "", 0)
                ELSE IF ss[i] \in DOMAIN Numbers THEN Numbers[ss[i]]
                ELSE T("word", ss[i], 0)]

Start ==
    <<"int", "g", "(", "int", "a", ")", "{", "int", "y", "=", "a", "+", "1", ";",
      "return", "y", "+", "a", ";", "}",
      "int", "g", "(", "int", "a", ",", "int", "b", ")", "{", "return", "a", "-", "b", ";", "}",
      "int", "f", "(", "int", "a", ")", "{">>

\* A body that is not closed takes main for statements, and is refused.
End ==
    <<"return", "a", "+", "0", ";", "}",
      "int", "main", "(", ")", "{", "int", "m", "=", "1", ";", "int", "x", "=", "f", "(", "m", ")", ";",
      "return", "x", "+", "m", ";", "}">>

DeclareX == <<"int", "x", "=", "g", "(", "a", ")", ";">>
DeclareY == <<"int", "y", "=", "g", "(", "x", ",", "a", ")", ";">>
AssignX == <<"x", "=", "y", ";">>
If_ == <<"if", "(", "a", "<", "2", ")", "{">>
For_ == <<"for", "(", ";", "a", "<", "2", ";", "a", "=", "a", "+", "1", ")", "{">>
Inner == {DeclareX, DeclareY, AssignX, <<"return", "x", "+", "a", ";">>,
          <<"return", "a", "+", "1", ":", "{">> \o DeclareX \o <<"}", ";">>}
Blocks == {h \o s \o <<"}">> : h \in {If_, For_}, s \in Inner}
Nested == {h[1] \o DeclareX \o h[2] \o s \o <<"}", "}">> :
            h \in {<<If_, If_>>, <<If_, For_>>, <<For_, If_>>}, s \in Inner}

Sources ==
    {Lex(Start \o s \o b \o t \o End) :
        s \in {<<>>, DeclareX}, b \in Blocks \cup Nested, t \in {<<>>, DeclareY, AssignX}}
===============================================================================
