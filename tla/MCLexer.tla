------------------------------- MODULE MCLexer -------------------------------
(***************************************************************************)
(* Small sources for the lexer: every sequence of MaxLength characters at  *)
(* most, alone, after the beginning of a #define and of an #include.  One  *)
(* letter stands for each of the words define and include.                 *)
(***************************************************************************)
EXTENDS CwrLexerProperties

CONSTANTS MaxLength

Letters == {"i", "f", "D", "I"}
MCDigit == {"1"}
MCChar == Letters \cup MCDigit
            \cup {"\n", "\r", " ", "\"", "'", "/", "#", "<", ">", ".", ";"}
MCKeyword == {<<"i", "f">>}
MCDefine == <<"D">>
MCInclude == <<"I">>

Any(n, C) == UNION {[1..k -> C] : k \in 0..n}

Beginnings == {<<"#", "D", " ", "f">>, <<"#", "I", " ">>, <<"#", "I", " ", "<">>}

Sources ==
    Any(MaxLength, MCChar)
    \cup {b \o s : b \in Beginnings,
                   s \in Any(MaxLength, MCChar \ {"D", "I", "\r", "#"})}
===============================================================================
