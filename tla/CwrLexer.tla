------------------------------- MODULE CwrLexer -------------------------------
(***************************************************************************)
(* The lexer (source/cwr_lexer.c) with the string buffer it collects words *)
(* in (source/cwr_string_buffer.c) and the default configuration           *)
(* (includes/lexer/cwr_lexer_configuration.h).                             *)
(*                                                                         *)
(* A source is a sequence of characters.  The lexer compares words as a    *)
(* whole, with the words of its configuration and with "define" and        *)
(* "include": their spellings are constants.  One action is one iteration  *)
(* of the loop of cwr_lexer_tokenize; Finish is what follows the loop.     *)
(***************************************************************************)
EXTENDS Integers, Sequences, FiniteSets

CONSTANTS Source,    \* the sources
          Char,      \* the characters of the sources
          Digit,
          Keyword,   \* the spellings of the words of the configuration
          Define,    \* the spelling of CWR_LEXER_DEFINE
          Include    \* the spelling of CWR_LEXER_INCLUDE

\* The tokens of the configuration that are one character long.
Operator == {"#", "(", ")", "{", "}", "[", "]", "+", "-", "/", ">", "<", "!",
             "=", ".", "*", "&", ";", ":", ","}
Control == {"\n", "\r", "\t"}
NUL == "NUL"                                 \* what ends a C string

ASSUME SourceAssumption == Source \subseteq Seq(Char)
ASSUME CharAssumption == /\ NUL \notin Char
                         /\ Digit \subseteq Char
                         /\ Digit \cap (Operator \cup Control \cup {" ", "\"", "'"}) = {}
ASSUME WordAssumption ==
    /\ Keyword \subseteq Seq(Char)
    /\ Define \in Seq(Char) \ Keyword /\ Define # <<>> /\ Define[1] \notin Operator
    /\ Include \in Seq(Char) \ (Keyword \cup {Define}) /\ Include # <<>>

VARIABLES source,
          position,   \* of the next character, from 1
          buffer,     \* the text of the string buffer
          fresh,      \* nothing has been written to the string buffer's block yet
          tokens,
          newLine,    \* add_new_line
          include,    \* is_include
          status      \* "run", "done", or "undefined": it read an unset byte

vars == <<source, position, buffer, fresh, tokens, newLine, include, status>>

TokenType == {"word", "keyword", "operator", "number", "string", "character", "newline"}
Token == [type : TokenType, text : Seq(Char \cup Operator \cup {NUL, "\n"})]

Tok(type, text) == [type |-> type, text |-> text]
IsToken(t, type, text) == t.type = type /\ t.text = text
IsHash(t) == IsToken(t, "operator", <<"#">>)
IsDefine(t) == IsToken(t, "word", Define)
IsNewLine(t) == t.type = "newline"

(***************************************************************************)
(* The configuration: cwr_lexer_configuration_try_get_token.               *)
(***************************************************************************)
TypeOf(text) ==
    IF text \in Keyword THEN "keyword"
    ELSE IF Len(text) = 1 /\ text[1] \in Operator THEN "operator"
    ELSE "word"

\* cwr_lexer_add_token_by_str: an empty text gives no token.
\* Mutated: the configuration is not asked.
AddText_NoConfiguration(ts, text, check) ==
    IF text = <<>> THEN ts ELSE Append(ts, Tok("word", text))
AddText(ts, text, check) ==
    IF text = <<>> THEN ts
    ELSE Append(ts, Tok(IF check THEN TypeOf(text) ELSE "word", text))

(***************************************************************************)
(* Reading the source.  The character after the last one is the            *)
(* terminator.                                                             *)
(***************************************************************************)
Ended == position > Len(source)
At(p) == IF p <= Len(source) THEN source[p] ELSE NUL
Current == At(position)
Running == status = "run" /\ ~Ended

Blank(text) == \A i \in DOMAIN text : text[i] = " "     \* cwr_string_buffer_is_empty

\* The string buffer is created with a block of one byte that is not set:
\* copied before anything is written to it, its text is whatever is there.
Copy == \/ UNCHANGED status
        \/ fresh /\ status' = "undefined"

\* The first of the positions at which a scan can stop.
First(S) == CHOOSE q \in S : \A k \in S : q <= k

(***************************************************************************)
(* A control character ends the buffered word.  The line end that a        *)
(* #define waits for is added before that word.                            *)
(***************************************************************************)
\* Mutated: add_new_line is not reset; the buffer is made anew.
ControlCharacter_KeepsNewLine ==
    /\ Running
    /\ Current \in Control
    /\ tokens' = AddText(IF Current = "\n" /\ newLine THEN Append(tokens, Tok("newline", <<"\n">>))
                         ELSE tokens, buffer, TRUE)
    /\ buffer' = <<>> /\ fresh' = FALSE
    /\ position' = position + 1
    /\ Copy
    /\ UNCHANGED <<source, newLine, include>>
ControlCharacter_NewBuffer ==
    /\ Running
    /\ Current \in Control
    /\ LET ends == Current = "\n" /\ newLine
       IN  /\ tokens' = AddText(IF ends THEN Append(tokens, Tok("newline", <<"\n">>)) ELSE tokens,
                                buffer, TRUE)
           /\ newLine' = (newLine /\ ~ends)
    /\ buffer' = <<>> /\ fresh' = TRUE
    /\ position' = position + 1
    /\ Copy
    /\ UNCHANGED <<source, include>>
ControlCharacter ==
    /\ Running
    /\ Current \in Control
    /\ LET ends == Current = "\n" /\ newLine
       IN  /\ tokens' = AddText(IF ends THEN Append(tokens, Tok("newline", <<"\n">>)) ELSE tokens,
                                buffer, TRUE)
           /\ newLine' = (newLine /\ ~ends)
    /\ buffer' = <<>> /\ fresh' = FALSE
    /\ position' = position + 1
    /\ Copy
    /\ UNCHANGED <<source, include>>

\* Digits, with at most one dot among them.
NumberStart == Current \in Digit /\ Blank(buffer)
Number ==
    /\ Running
    /\ NumberStart
    /\ LET SecondDot(q) == At(q) = "." /\ \E j \in position..(q - 1) : At(j) = "."
           stop == First({q \in position..(Len(source) + 1) :
                            At(q) \notin Digit \cup {"."} \/ SecondDot(q)})
       IN  /\ tokens' = Append(tokens, Tok("number", buffer \o SubSeq(source, position, stop - 1)))
           /\ position' = stop
    /\ buffer' = <<>> /\ fresh' = FALSE
    /\ UNCHANGED <<source, newLine, include, status>>

\* The characters up to the next quote, after what is in the buffer; a
\* string that is not closed ends with the source.
String ==
    /\ Running
    /\ Current = "\""
    /\ LET stop == First({q \in (position + 1)..(Len(source) + 1) : At(q) \in {"\"", NUL}})
           text == SubSeq(source, position + 1, stop - 1)
       IN  /\ tokens' = Append(tokens, Tok("string", buffer \o text))
           /\ position' = stop + 1
           /\ IF text = <<>> THEN Copy ELSE UNCHANGED status
    /\ buffer' = <<>> /\ fresh' = FALSE
    /\ UNCHANGED <<source, newLine, include>>

\* One character and, unseen, the quote after it; the buffer is dropped.
\* Mutated: one character more is skipped.
Character_OffByOne ==
    /\ Running
    /\ Current = "'"
    /\ tokens' = Append(tokens, Tok("character", <<At(position + 1)>>))
    /\ position' = position + 4
    /\ buffer' = <<>> /\ fresh' = FALSE
    /\ UNCHANGED <<source, newLine, include, status>>
Character ==
    /\ Running
    /\ Current = "'"
    /\ tokens' = Append(tokens, Tok("character", <<At(position + 1)>>))
    /\ position' = position + 3
    /\ buffer' = <<>> /\ fresh' = FALSE
    /\ UNCHANGED <<source, newLine, include, status>>

\* A comment: up to the end of the line, the buffer is kept.
CommentStart == Current = "/" /\ At(position + 1) = "/"
\* Mutated: the scan begins one character too early, at the slash, and ends there.
Comment_EndsAtSlash ==
    /\ Running
    /\ CommentStart
    /\ position' = First({q \in position..(Len(source) + 1) : At(q) \in {"\n", "/", NUL}})
    /\ UNCHANGED <<source, buffer, fresh, tokens, newLine, include, status>>
Comment ==
    /\ Running
    /\ CommentStart
    /\ position' = First({q \in position..(Len(source) + 1) : At(q) \in {"\n", NUL}})
    /\ UNCHANGED <<source, buffer, fresh, tokens, newLine, include, status>>

(***************************************************************************)
(* Any other character is appended to the buffer.                          *)
(***************************************************************************)
Appended ==
    /\ Running
    /\ Current \notin Control \cup {"\"", "'"}
    /\ ~NumberStart /\ ~CommentStart
    /\ position' = position + 1
    /\ fresh' = FALSE
    /\ UNCHANGED <<source, status>>
Text == Append(buffer, Current)

\* A space ends the word; after a '#', the word may be a directive.
Space ==
    /\ Appended
    /\ Current = " "
    /\ LET directive == tokens # <<>> /\ IsHash(tokens[Len(tokens)])
       IN  /\ newLine' = (newLine \/ (directive /\ buffer = Define))
           /\ include' = (include \/ (directive /\ buffer = Include))
    /\ tokens' = AddText(tokens, buffer, TRUE)
    /\ buffer' = <<>>

\* A keyword that ends the source becomes a token, and stays in the buffer.
Letter ==
    /\ Appended
    /\ Current \notin Operator \cup {" "}
    /\ buffer' = Text
    /\ tokens' = IF Text \in Keyword /\ position = Len(source)
                 THEN Append(tokens, Tok("keyword", Text))
                 ELSE tokens
    /\ UNCHANGED <<newLine, include>>

\* An operator ends the word before it ...
OperatorCharacter ==
    /\ Appended
    /\ Current \in Operator
    /\ ~include \/ Current \notin {".", ">"} \/ Text[1] = Current
    /\ LET word == IF Text[1] = Current THEN <<>>
                   ELSE IF include THEN Text ELSE buffer
           ts == AddText(tokens, word, TRUE)
       IN  tokens' = IF include /\ Current # "<" THEN ts
                     ELSE Append(ts, Tok("operator", <<Current>>))
    /\ buffer' = <<>>
    /\ UNCHANGED <<newLine, include>>

\* ... but between '<' and '>' of an include the dots belong to the name.
IncludeDot ==
    /\ Appended
    /\ include /\ Current = "." /\ Text[1] # "."
    /\ buffer' = Text
    /\ UNCHANGED <<tokens, newLine, include>>

IncludeEnd ==
    /\ Appended
    /\ include /\ Current = ">" /\ Text[1] # ">"
    /\ include' = FALSE
    /\ tokens' = Append(AddText(tokens, buffer, TRUE), Tok("operator", <<">">>))
    /\ buffer' = <<>>
    /\ UNCHANGED newLine

(***************************************************************************)
(* After the loop, what is left is a word, even if it is a keyword.        *)
(***************************************************************************)
Finish ==
    /\ status = "run" /\ Ended
    /\ tokens' = AddText(tokens, buffer, FALSE)
    /\ \/ status' = "done"
       \/ fresh /\ status' = "undefined"
    /\ buffer' = <<>> /\ fresh' = FALSE
    /\ UNCHANGED <<source, position, newLine, include>>

(***************************************************************************)
(* cwr_lexer_create and the beginning of cwr_lexer_tokenize.               *)
(***************************************************************************)
Init ==
    /\ source \in Source
    /\ position = 1
    /\ buffer = <<>> /\ fresh = TRUE
    /\ tokens = <<>>
    /\ newLine = FALSE /\ include = FALSE
    /\ status = "run"

Stopped == status # "run" /\ UNCHANGED vars

Step == ControlCharacter \/ Number \/ String \/ Character \/ Comment \/ Space
        \/ Letter \/ OperatorCharacter \/ IncludeDot \/ IncludeEnd \/ Finish

Next == Step \/ Stopped

Spec == Init /\ [][Next]_vars

\* The lexer is one loop: it always takes its next step.
FairSpec == Spec /\ WF_vars(Step)
===============================================================================
