---------------------------- MODULE CwrLexerProofs ----------------------------
(***************************************************************************)
(* Proofs about the lexer, for every source, alphabet and configuration:   *)
(* the position stays near the source (TypeCorrect), the line ends among   *)
(* the tokens belong to #defines (NewLinesCorrect), and the unset byte is  *)
(* read at the beginning of few sources only (UnsetCorrect).               *)
(***************************************************************************)
EXTENDS CwrLexerProperties, NaturalsInduction, WellFoundedInduction, TLAPS

(***************************************************************************)
(* Searches.                                                               *)
(***************************************************************************)
\* The first number of a set that is not empty is in it.
LEMMA FirstIn ==
    ASSUME NEW S \in SUBSET Nat, S # {}
    PROVE  First(S) \in S
<1>1. PICK x \in S : \A y \in S : ~(<<y, x>> \in OpToRel(<, Nat))
  BY NatLessThanWellFounded, WFMin
<1>2. \A y \in S : ~(y < x)
  BY <1>1 DEF OpToRel
<1>3. \A y \in S : x <= y
  BY <1>2
<1> QED
  BY <1>3 DEF First

(***************************************************************************)
(* Tokens.                                                                 *)
(***************************************************************************)
Texts == Seq(Char \cup Operator \cup {NUL, "\n"})

LEMMA TokType ==
    ASSUME NEW type \in TokenType, NEW text \in Texts
    PROVE  Tok(type, text) \in Token /\ Tok(type, text).type = type
BY DEF Tok, Token, Texts

LEMMA TypeOfType == \A text : TypeOf(text) \in TokenType \ {"newline"}
BY DEF TypeOf, TokenType

LEMMA CharText ==
    ASSUME NEW text \in Seq(Char)
    PROVE  text \in Texts
BY DEF Texts

LEMMA BufferText ==
    ASSUME NEW text \in Seq(Char \cup Operator)
    PROVE  text \in Texts
BY DEF Texts

(***************************************************************************)
(* Line ends.  The tokens ts are paired, and a #define is open at their    *)
(* end if one is waited for (wait).                                        *)
(***************************************************************************)
DefineIn(ts, i) == i + 1 \in DOMAIN ts /\ IsHash(ts[i]) /\ IsDefine(ts[i + 1])
OpenIn(ts, k) ==
    \E i \in 1 .. (k - 1) : DefineIn(ts, i) /\ \A j \in (i + 1) .. (k - 1) : ~IsNewLine(ts[j])
PairedIn(ts, wait) ==
    /\ \A k \in DOMAIN ts : IsNewLine(ts[k]) => OpenIn(ts, k)
    /\ wait => OpenIn(ts, Len(ts) + 1)

LEMMA AppendFacts ==
    ASSUME NEW ts \in Seq(Token), NEW t \in Token
    PROVE  /\ Append(ts, t) \in Seq(Token) /\ Len(Append(ts, t)) = Len(ts) + 1 /\ Len(ts) \in Nat
           /\ DOMAIN ts = 1 .. Len(ts) /\ DOMAIN Append(ts, t) = 1 .. Len(ts) + 1
           /\ \A i \in 1 .. Len(ts) : Append(ts, t)[i] = ts[i]
           /\ Append(ts, t)[Len(ts) + 1] = t
OBVIOUS

\* What is open or paired stays so when a token follows.
LEMMA OpenStays ==
    ASSUME NEW ts \in Seq(Token), NEW t \in Token, NEW k \in 1 .. Len(ts) + 1, OpenIn(ts, k)
    PROVE  OpenIn(Append(ts, t), k)
<1> DEFINE us == Append(ts, t)
<1>1. /\ Len(ts) \in Nat /\ DOMAIN ts = 1 .. Len(ts) /\ DOMAIN us = 1 .. Len(ts) + 1
      /\ \A i \in 1 .. Len(ts) : us[i] = ts[i]
  BY AppendFacts
<1> HIDE DEF us
<1>2. PICK i \in 1 .. (k - 1) : DefineIn(ts, i) /\ \A j \in (i + 1) .. (k - 1) : ~IsNewLine(ts[j])
  BY DEF OpenIn
<1>3. DefineIn(us, i)
  BY <1>1, <1>2 DEF DefineIn
<1>4. \A j \in (i + 1) .. (k - 1) : ~IsNewLine(us[j])
  BY <1>1, <1>2
<1> QED
  BY <1>3, <1>4 DEF OpenIn, us

\* A token that is no line end.
LEMMA PairedWord ==
    ASSUME NEW ts \in Seq(Token), NEW t \in Token, NEW wait, PairedIn(ts, wait), ~IsNewLine(t)
    PROVE  PairedIn(Append(ts, t), wait)
<1> DEFINE us == Append(ts, t)
           n == Len(ts)
<1>1. /\ n \in Nat /\ DOMAIN ts = 1 .. n /\ DOMAIN us = 1 .. n + 1 /\ Len(us) = n + 1
      /\ \A i \in 1 .. n : us[i] = ts[i]
      /\ us[n + 1] = t
  BY AppendFacts
<1>2. \A k \in 1 .. n + 1 : OpenIn(ts, k) => OpenIn(us, k)
  BY OpenStays
<1> HIDE DEF us, n
<1>3. \A k \in DOMAIN us : IsNewLine(us[k]) => OpenIn(us, k)
  BY <1>1, <1>2 DEF PairedIn
<1>4. ASSUME wait PROVE OpenIn(us, n + 2)
  <2>1. OpenIn(us, n + 1)
    BY <1>1, <1>2, <1>4 DEF PairedIn, n
  <2>2. PICK i \in 1 .. n : DefineIn(us, i) /\ \A j \in (i + 1) .. n : ~IsNewLine(us[j])
    BY <1>1, <2>1 DEF OpenIn
  <2>3. \A j \in (i + 1) .. (n + 1) : ~IsNewLine(us[j])
    BY <1>1, <2>2
  <2>4. n + 2 - 1 = n + 1 /\ i \in 1 .. (n + 1)
    BY <1>1, <2>2
  <2> QED
    BY <1>1, <2>2, <2>3, <2>4 DEF OpenIn
<1>5. wait => OpenIn(us, Len(us) + 1)
  BY <1>1, <1>4
<1> QED
  BY <1>3, <1>5 DEF PairedIn, us

\* The line end that was waited for.
LEMMA PairedNewLine ==
    ASSUME NEW ts \in Seq(Token), NEW t \in Token, PairedIn(ts, TRUE)
    PROVE  PairedIn(Append(ts, t), FALSE)
<1> DEFINE us == Append(ts, t)
           n == Len(ts)
<1>1. /\ n \in Nat /\ DOMAIN ts = 1 .. n /\ DOMAIN us = 1 .. n + 1
      /\ \A i \in 1 .. n : us[i] = ts[i]
  BY AppendFacts
<1>2. \A k \in 1 .. n + 1 : OpenIn(ts, k) => OpenIn(us, k)
  BY OpenStays
<1>3. OpenIn(ts, n + 1)
  BY DEF PairedIn
<1> HIDE DEF us, n
<1>4. \A k \in DOMAIN us : IsNewLine(us[k]) => OpenIn(us, k)
  BY <1>1, <1>2, <1>3 DEF PairedIn
<1> QED
  BY <1>4 DEF PairedIn, us

\* The word of a #define makes one open.
LEMMA PairedDefine ==
    ASSUME NEW ts \in Seq(Token), NEW t \in Token, NEW wait, PairedIn(ts, wait),
           ts # <<>>, IsHash(ts[Len(ts)]), IsDefine(t)
    PROVE  PairedIn(Append(ts, t), TRUE)
<1> DEFINE us == Append(ts, t)
           n == Len(ts)
<1>0. n > 0
  OBVIOUS
<1>1. /\ n \in Nat /\ DOMAIN us = 1 .. n + 1 /\ Len(us) = n + 1
      /\ us[n] = ts[n] /\ us[n + 1] = t
  BY <1>0, AppendFacts
<1>2. ~IsNewLine(t)
  BY DEF IsDefine, IsToken, IsNewLine
<1>3. PairedIn(us, wait)
  BY <1>2, PairedWord
<1> HIDE DEF us
<1>4. DefineIn(us, n)
  BY <1>0, <1>1 DEF DefineIn
<1>5. \A j \in (n + 1) .. (n + 1) : ~IsNewLine(us[j])
  BY <1>1, <1>2
<1>6. OpenIn(us, n + 2)
  <2>1. n \in 1 .. (n + 2 - 1) /\ n + 2 - 1 = n + 1
    BY <1>0, <1>1
  <2> QED
    BY <1>4, <1>5, <2>1 DEF OpenIn
<1>7. OpenIn(us, Len(us) + 1)
  BY <1>1, <1>6
<1> QED
  BY <1>3, <1>7 DEF PairedIn, us

\* A buffered text becomes no line end.
LEMMA AddTextFacts ==
    ASSUME NEW ts \in Seq(Token), NEW text \in Texts, NEW check
    PROVE  /\ AddText(ts, text, check) \in Seq(Token)
           /\ \A wait : PairedIn(ts, wait) => PairedIn(AddText(ts, text, check), wait)
<1> DEFINE t == Tok(IF check THEN TypeOf(text) ELSE "word", text)
<1>1. t \in Token /\ t.type # "newline"
  <2>1. (IF check THEN TypeOf(text) ELSE "word") \in TokenType \ {"newline"}
    BY TypeOfType DEF TokenType
  <2> QED
    BY <2>1, TokType
<1>2. ~IsNewLine(t)
  BY <1>1 DEF IsNewLine
<1>3. AddText(ts, text, check) = IF text = <<>> THEN ts ELSE Append(ts, t)
  BY DEF AddText
<1> HIDE DEF t
<1>4. Append(ts, t) \in Seq(Token)
  BY <1>1
<1> QED
  BY <1>1, <1>2, <1>3, <1>4, PairedWord

\* A token of another kind.
LEMMA TokFacts ==
    ASSUME NEW ts \in Seq(Token), NEW type \in TokenType \ {"newline"}, NEW text \in Texts
    PROVE  /\ Append(ts, Tok(type, text)) \in Seq(Token)
           /\ \A wait : PairedIn(ts, wait) => PairedIn(Append(ts, Tok(type, text)), wait)
<1>1. Tok(type, text) \in Token /\ Tok(type, text).type = type
  BY TokType
<1>2. ~IsNewLine(Tok(type, text))
  BY <1>1 DEF IsNewLine
<1> QED
  BY <1>1, <1>2, PairedWord

(***************************************************************************)
(* The actions.                                                            *)
(***************************************************************************)
Inv == TypeOK /\ PairedIn(tokens, newLine)

LEMMA NextInv ==
    ASSUME Inv, source' = source, position' \in 1 .. Len(source) + 3,
           buffer' \in Seq(Char \cup Operator), fresh' \in BOOLEAN, newLine' \in BOOLEAN,
           include' \in BOOLEAN, tokens' \in Seq(Token), PairedIn(tokens', newLine'),
           status' \in {"run", "done", "undefined"}
    PROVE  Inv'
BY DEF Inv, TypeOK

LEMMA Flags == ASSUME Inv PROVE fresh \in BOOLEAN /\ newLine \in BOOLEAN /\ include \in BOOLEAN
                              /\ status \in {"run", "done", "undefined"}
BY DEF Inv, TypeOK

LEMMA NoText == <<>> \in Seq(Char \cup Operator)
OBVIOUS

LEMMA ReadFacts ==
    ASSUME TypeOK
    PROVE  /\ source \in Seq(Char) /\ Len(source) \in Nat
           /\ \A p \in 1 .. Len(source) : source[p] \in Char
           /\ \A p \in Nat \ {0} : At(p) \in Char \cup {NUL}
           /\ At(Len(source) + 1) = NUL
           /\ ~Ended => position \in 1 .. Len(source) /\ Current \in Char
<1>1. source \in Seq(Char) /\ Len(source) \in Nat
  BY SourceAssumption DEF TypeOK
<1>2. \A p \in 1 .. Len(source) : source[p] \in Char
  BY <1>1
<1> QED
  BY <1>1, <1>2 DEF TypeOK, At, Ended, Current

\* A scan from p stops before the end or at it.
LEMMA ScanFacts ==
    ASSUME TypeOK, NEW p \in 1 .. Len(source) + 1, NEW S \in SUBSET (p .. Len(source) + 1),
           Len(source) + 1 \in S
    PROVE  First(S) \in p .. Len(source) + 1
<1>1. S \in SUBSET Nat /\ S # {}
  BY ReadFacts
<1> QED
  BY <1>1, FirstIn

LEMMA SliceFacts ==
    ASSUME TypeOK, NEW p \in 1 .. Len(source) + 1, NEW q \in 0 .. Len(source)
    PROVE  SubSeq(source, p, q) \in Seq(Char)
BY ReadFacts

LEMMA CopyFacts ==
    ASSUME TypeOK, Copy
    PROVE  status' \in {"run", "done", "undefined"}
BY DEF Copy, TypeOK

LEMMA ControlStep == ASSUME Inv, ControlCharacter PROVE Inv'
<1> DEFINE ends == Current = "\n" /\ newLine
           ts == IF ends THEN Append(tokens, Tok("newline", <<"\n">>)) ELSE tokens
<1>1. /\ position \in 1 .. Len(source) /\ Len(source) \in Nat /\ buffer \in Texts
      /\ tokens \in Seq(Token) /\ PairedIn(tokens, newLine) /\ newLine \in BOOLEAN
  BY ReadFacts, BufferText DEF Inv, TypeOK, ControlCharacter, Running
<1>2. Tok("newline", <<"\n">>) \in Token
  <2>1. <<"\n">> \in Texts
    BY DEF Texts
  <2> QED
    BY <2>1, TokType DEF TokenType
<1>3. newLine' = (newLine /\ ~ends)
  BY DEF ControlCharacter
<1>4. ts \in Seq(Token) /\ PairedIn(ts, newLine')
  <2>1. CASE ends
    <3>1. ts = Append(tokens, Tok("newline", <<"\n">>)) /\ newLine = TRUE /\ newLine' = FALSE
      BY <1>1, <1>3, <2>1
    <3>2. PairedIn(tokens, TRUE)
      BY <1>1, <3>1
    <3>3. PairedIn(Append(tokens, Tok("newline", <<"\n">>)), FALSE)
      BY <1>1, <1>2, <3>2, PairedNewLine
    <3>4. Append(tokens, Tok("newline", <<"\n">>)) \in Seq(Token)
      BY <1>1, <1>2
    <3> QED
      BY <3>1, <3>3, <3>4
  <2>2. CASE ~ends
    <3>1. ts = tokens /\ newLine' = newLine
      BY <1>1, <1>3, <2>2
    <3> QED
      BY <1>1, <3>1
  <2> QED
    BY <2>1, <2>2
<1>5. tokens' = AddText(ts, buffer, TRUE)
  BY DEF ControlCharacter
<1> HIDE DEF ts, ends
<1>6. tokens' \in Seq(Token) /\ PairedIn(tokens', newLine')
  BY <1>1, <1>4, <1>5, AddTextFacts
<1>7. newLine' \in BOOLEAN /\ position' \in 1 .. Len(source) + 3
  BY <1>1, <1>3 DEF ControlCharacter
<1>8. status' \in {"run", "done", "undefined"}
  BY CopyFacts DEF Inv, ControlCharacter
<1>9. buffer' = <<>> /\ fresh' = FALSE /\ UNCHANGED <<source, include>>
  BY DEF ControlCharacter
<1> QED
  BY <1>6, <1>7, <1>8, <1>9, NextInv, Flags, NoText

LEMMA NumberStep == ASSUME Inv, Number PROVE Inv'
<1> DEFINE SecondDot(q) == At(q) = "." /\ \E j \in position..(q - 1) : At(j) = "."
           stops == {q \in position..(Len(source) + 1) :
                            At(q) \notin Digit \cup {"."} \/ SecondDot(q)}
           stop == First(stops)
           text == buffer \o SubSeq(source, position, stop - 1)
<1>1. /\ position \in 1 .. Len(source) /\ Len(source) \in Nat
      /\ buffer \in Seq(Char \cup Operator)
      /\ tokens \in Seq(Token) /\ PairedIn(tokens, newLine)
  BY ReadFacts DEF Inv, TypeOK, Number, Running
<1>2. At(Len(source) + 1) \notin Digit \cup {"."}
  BY ReadFacts, CharAssumption DEF Inv, NUL
<1>3. stop \in position .. Len(source) + 1
  BY <1>1, <1>2, ScanFacts DEF Inv
<1>4. tokens' = Append(tokens, Tok("number", text)) /\ position' = stop
  BY DEF Number
<1> HIDE DEF stop
<1>5. SubSeq(source, position, stop - 1) \in Seq(Char)
  BY <1>1, <1>3, SliceFacts DEF Inv
<1>6. text \in Texts
  <2>1. SubSeq(source, position, stop - 1) \in Seq(Char \cup Operator)
    BY <1>5
  <2>2. text \in Seq(Char \cup Operator)
    BY <1>1, <2>1
  <2> QED
    BY <2>2, BufferText
<1> HIDE DEF text
<1>7. tokens' \in Seq(Token) /\ PairedIn(tokens', newLine)
  BY <1>1, <1>4, <1>6, TokFacts DEF TokenType
<1>8. buffer' = <<>> /\ fresh' = FALSE /\ UNCHANGED <<source, newLine, include, status>>
  BY DEF Number
<1>9. position' \in 1 .. Len(source) + 3
  BY <1>1, <1>3, <1>4
<1> QED
  BY <1>7, <1>8, <1>9, NextInv, Flags, NoText

LEMMA StringStep == ASSUME Inv, String PROVE Inv'
<1> DEFINE stops == {q \in (position + 1)..(Len(source) + 1) : At(q) \in {"\"", NUL}}
           stop == First(stops)
           text == SubSeq(source, position + 1, stop - 1)
<1>1. /\ position \in 1 .. Len(source) /\ Len(source) \in Nat
      /\ buffer \in Seq(Char \cup Operator)
      /\ tokens \in Seq(Token) /\ PairedIn(tokens, newLine)
  BY ReadFacts DEF Inv, TypeOK, String, Running
<1>2. At(Len(source) + 1) \in {"\"", NUL}
  BY ReadFacts DEF Inv
<1>3. stop \in position + 1 .. Len(source) + 1
  <2>1. position + 1 \in 1 .. Len(source) + 1 /\ Len(source) + 1 \in position + 1 .. Len(source) + 1
    BY <1>1
  <2>2. stops \in SUBSET (position + 1 .. Len(source) + 1)
    OBVIOUS
  <2>3. Len(source) + 1 \in stops
    BY <1>2, <2>1
  <2> HIDE DEF stops
  <2> QED
    BY <2>1, <2>2, <2>3, ScanFacts DEF Inv
<1>4. /\ tokens' = Append(tokens, Tok("string", buffer \o text)) /\ position' = stop + 1
      /\ IF text = <<>> THEN Copy ELSE UNCHANGED status
  BY DEF String
<1> HIDE DEF stop
<1>5. text \in Seq(Char)
  BY <1>1, <1>3, SliceFacts DEF Inv
<1> HIDE DEF text
<1>6. buffer \o text \in Texts
  <2>1. text \in Seq(Char \cup Operator)
    BY <1>5
  <2>2. buffer \o text \in Seq(Char \cup Operator)
    BY <1>1, <2>1
  <2> QED
    BY <2>2, BufferText
<1>7. tokens' \in Seq(Token) /\ PairedIn(tokens', newLine)
  BY <1>1, <1>4, <1>6, TokFacts DEF TokenType
<1>8. buffer' = <<>> /\ fresh' = FALSE /\ UNCHANGED <<source, newLine, include>>
  BY DEF String
<1>9. position' \in 1 .. Len(source) + 3
  BY <1>1, <1>3, <1>4
<1>10. status' \in {"run", "done", "undefined"}
  BY <1>4, CopyFacts DEF Inv, TypeOK
<1> QED
  BY <1>7, <1>8, <1>9, <1>10, NextInv, Flags, NoText

LEMMA CharacterStep == ASSUME Inv, Character PROVE Inv'
<1>1. /\ position \in 1 .. Len(source) /\ Len(source) \in Nat
      /\ tokens \in Seq(Token) /\ PairedIn(tokens, newLine)
  BY ReadFacts DEF Inv, TypeOK, Character, Running
<1>2. <<At(position + 1)>> \in Texts
  <2>1. At(position + 1) \in Char \cup {NUL}
    BY <1>1, ReadFacts DEF Inv
  <2> QED
    BY <2>1 DEF Texts
<1>3. tokens' \in Seq(Token) /\ PairedIn(tokens', newLine)
  BY <1>1, <1>2, TokFacts DEF TokenType, Character
<1>4. /\ buffer' = <<>> /\ fresh' = FALSE /\ position' = position + 3
      /\ UNCHANGED <<source, newLine, include, status>>
  BY DEF Character
<1>5. position' \in 1 .. Len(source) + 3
  BY <1>1, <1>4
<1> QED
  BY <1>3, <1>4, <1>5, NextInv, Flags, NoText

LEMMA CommentStep == ASSUME Inv, Comment PROVE Inv'
<1> DEFINE stops == {q \in position..(Len(source) + 1) : At(q) \in {"\n", NUL}}
<1>1. position \in 1 .. Len(source) /\ Len(source) \in Nat
  BY ReadFacts DEF Inv, Comment, Running
<1>2. At(Len(source) + 1) \in {"\n", NUL}
  BY ReadFacts DEF Inv
<1>3. First(stops) \in position .. Len(source) + 1
  BY <1>1, <1>2, ScanFacts DEF Inv
<1>4. position' \in 1 .. Len(source) + 3
  BY <1>1, <1>3 DEF Comment
<1> QED
  BY <1>4, Flags, NextInv DEF Comment, Inv, TypeOK

\* What the actions on a single character have in common.
LEMMA AppendedFacts ==
    ASSUME Inv, Appended
    PROVE  /\ source' = source /\ status' = status /\ fresh' = FALSE
           /\ position' \in 1 .. Len(source) + 3
           /\ Current \in Char /\ <<Current>> \in Texts
           /\ Text \in Seq(Char \cup Operator) /\ Text \in Texts /\ buffer \in Texts
           /\ tokens \in Seq(Token) /\ PairedIn(tokens, newLine)
<1>1. /\ position \in 1 .. Len(source) /\ Len(source) \in Nat /\ Current \in Char
  BY ReadFacts DEF Inv, Appended, Running
<1>2. buffer \in Seq(Char \cup Operator) /\ tokens \in Seq(Token)
  BY DEF Inv, TypeOK
<1>3. Text \in Seq(Char \cup Operator)
  BY <1>1, <1>2 DEF Text
<1>4. <<Current>> \in Texts
  BY <1>1 DEF Texts
<1>5. position' \in 1 .. Len(source) + 3
  <2>1. position' = position + 1
    BY DEF Appended
  <2> QED
    BY <1>1, <2>1
<1>6. source' = source /\ status' = status /\ fresh' = FALSE
  BY DEF Appended
<1> QED
  BY <1>1, <1>2, <1>3, <1>4, <1>5, <1>6, BufferText DEF Inv

LEMMA SpaceStep == ASSUME Inv, Space PROVE Inv'
<1> DEFINE directive == tokens # <<>> /\ IsHash(tokens[Len(tokens)])
<1>1. /\ Appended /\ tokens' = AddText(tokens, buffer, TRUE) /\ buffer' = <<>>
      /\ newLine' = (newLine \/ (directive /\ buffer = Define))
      /\ include' = (include \/ (directive /\ buffer = Include))
  BY DEF Space
<1>2. tokens \in Seq(Token) /\ buffer \in Texts /\ PairedIn(tokens, newLine) /\ newLine \in BOOLEAN
  BY <1>1, AppendedFacts DEF Inv, TypeOK
<1>3. tokens' \in Seq(Token)
  BY <1>1, <1>2, AddTextFacts
<1>4. PairedIn(tokens', newLine')
  <2>1. CASE directive /\ buffer = Define
    <3>1. TypeOf(Define) = "word" /\ Define # <<>>
      BY WordAssumption DEF TypeOf
    <3>2. tokens' = Append(tokens, Tok("word", Define))
      BY <1>1, <2>1, <3>1 DEF AddText
    <3>3. Tok("word", Define) \in Token /\ IsDefine(Tok("word", Define))
      BY <1>2, <2>1, TokType DEF IsDefine, IsToken, Tok, TokenType
    <3>4. PairedIn(tokens', TRUE)
      BY <1>2, <2>1, <3>2, <3>3, PairedDefine
    <3>5. newLine' = TRUE
      BY <1>1, <2>1
    <3> QED
      BY <3>4, <3>5
  <2>2. CASE ~(directive /\ buffer = Define)
    <3>1. newLine' = newLine
      BY <1>1, <1>2, <2>2
    <3> QED
      BY <1>1, <1>2, <3>1, AddTextFacts
  <2> QED
    BY <2>1, <2>2
<1>5. newLine' \in BOOLEAN /\ include' \in BOOLEAN
  BY <1>1
<1> QED
  BY <1>1, <1>3, <1>4, <1>5, AppendedFacts, NextInv, Flags, NoText

LEMMA LetterStep == ASSUME Inv, Letter PROVE Inv'
<1>1. Appended /\ buffer' = Text /\ UNCHANGED <<newLine, include>>
  BY DEF Letter
<1>2. tokens' \in Seq(Token) /\ PairedIn(tokens', newLine)
  BY <1>1, AppendedFacts, TokFacts DEF Letter, TokenType
<1> QED
  BY <1>1, <1>2, AppendedFacts, NextInv, Flags, NoText

LEMMA OperatorStep == ASSUME Inv, OperatorCharacter PROVE Inv'
<1> DEFINE word == IF Text[1] = Current THEN <<>>
                   ELSE IF include THEN Text ELSE buffer
           ts == AddText(tokens, word, TRUE)
<1>1. Appended /\ buffer' = <<>> /\ UNCHANGED <<newLine, include>>
  BY DEF OperatorCharacter
<1>2. word \in Texts
  BY <1>1, AppendedFacts DEF Texts
<1>3. tokens' = IF include /\ Current # "<" THEN ts ELSE Append(ts, Tok("operator", <<Current>>))
  BY DEF OperatorCharacter
<1> HIDE DEF word
<1>4. ts \in Seq(Token) /\ PairedIn(ts, newLine)
  BY <1>1, <1>2, AppendedFacts, AddTextFacts
<1> HIDE DEF ts
<1>5. tokens' \in Seq(Token) /\ PairedIn(tokens', newLine)
  BY <1>1, <1>3, <1>4, AppendedFacts, TokFacts DEF TokenType
<1> QED
  BY <1>1, <1>5, AppendedFacts, NextInv, Flags, NoText

LEMMA IncludeDotStep == ASSUME Inv, IncludeDot PROVE Inv'
BY AppendedFacts DEF Inv, TypeOK, IncludeDot

LEMMA IncludeEndStep == ASSUME Inv, IncludeEnd PROVE Inv'
<1> DEFINE ts == AddText(tokens, buffer, TRUE)
<1>1. /\ Appended /\ buffer' = <<>> /\ UNCHANGED newLine /\ include' = FALSE
      /\ Current = ">" /\ tokens' = Append(ts, Tok("operator", <<">">>))
  BY DEF IncludeEnd
<1>2. ts \in Seq(Token) /\ PairedIn(ts, newLine)
  BY <1>1, AppendedFacts, AddTextFacts
<1> HIDE DEF ts
<1>3. tokens' \in Seq(Token) /\ PairedIn(tokens', newLine)
  BY <1>1, <1>2, AppendedFacts, TokFacts DEF TokenType
<1> QED
  BY <1>1, <1>3, AppendedFacts, NextInv, Flags, NoText

LEMMA FinishStep == ASSUME Inv, Finish PROVE Inv'
<1>1. tokens' \in Seq(Token) /\ PairedIn(tokens', newLine)
  BY BufferText, AddTextFacts DEF Inv, TypeOK, Finish
<1> QED
  BY <1>1, Flags, NoText, NextInv DEF Inv, TypeOK, Finish

LEMMA InvStep == ASSUME Inv, [Next]_vars PROVE Inv'
<1>1. CASE UNCHANGED vars
  BY <1>1 DEF vars, Inv, TypeOK
<1> QED
  BY <1>1, ControlStep, NumberStep, StringStep, CharacterStep, CommentStep, SpaceStep, LetterStep,
     OperatorStep, IncludeDotStep, IncludeEndStep, FinishStep DEF Next, Step, Stopped

LEMMA InvInit == ASSUME Init PROVE Inv
<1>1. Len(source) \in Nat
  BY SourceAssumption DEF Init
<1>2. PairedIn(<<>>, FALSE)
  BY DEF PairedIn
<1>3. <<>> \in Seq(Token)
  OBVIOUS
<1>4. /\ source \in Source /\ position = 1 /\ buffer = <<>> /\ fresh = TRUE /\ tokens = <<>>
      /\ newLine = FALSE /\ include = FALSE /\ status = "run"
  BY DEF Init
<1>5. position \in 1 .. Len(source) + 3
  BY <1>1, <1>4
<1>6. TypeOK
  BY <1>3, <1>4, <1>5, NoText DEF TypeOK
<1> QED
  BY <1>2, <1>4, <1>6 DEF Inv

LEMMA InvPaired == ASSUME Inv PROVE NewLinesPaired
BY DEF Inv, PairedIn, NewLinesPaired, OpenIn, OpenDefine, DefineIn, DefinesAt

\* For every source, alphabet and configuration, the variables have their
\* types: no scan leaves the source by more than an unclosed literal's quotes.
THEOREM TypeCorrect == Spec => []TypeOK
<1>1. Inv => TypeOK
  BY DEF Inv
<1> QED
  BY <1>1, InvInit, InvStep, PTL DEF Spec

\* For every source, alphabet and configuration, a line end among the tokens
\* is the first one after a '#' followed by the word define.
THEOREM NewLinesCorrect == Spec => []NewLinesPaired
BY InvInit, InvStep, InvPaired, PTL DEF Spec

(***************************************************************************)
(* The unset byte.  Only a comment is read without writing to the string   *)
(* buffer, so the buffer is fresh at the start and after a first comment.  *)
(***************************************************************************)
Commented == Len(source) > 1 /\ source[1] = "/" /\ source[2] = "/"
FreshInv == /\ fresh => position = 1 \/ Commented
            /\ UnsetOnlyAtStart

LEMMA WrittenStep ==
    ASSUME FreshInv, source' = source, fresh' = FALSE, status' = status
    PROVE  FreshInv'
BY DEF FreshInv, UnsetOnlyAtStart

\* A copy of the buffer reads the unset byte only if the buffer is fresh.
LEMMA CopyStep ==
    ASSUME FreshInv, source' = source, fresh' = FALSE, Copy, fresh => UnsetOnlyAtStart'
    PROVE  FreshInv'
BY DEF FreshInv, UnsetOnlyAtStart, Copy

LEMMA ControlUnset == ASSUME TypeOK, FreshInv, ControlCharacter PROVE FreshInv'
<1>1. source' = source /\ fresh' = FALSE /\ Copy /\ Current \in Control /\ Running
  BY DEF ControlCharacter
<1>2. position \in 1 .. Len(source) /\ Current = source[position]
  BY <1>1, ReadFacts DEF Running, Current, At
<1>3. ASSUME fresh PROVE UnsetOnlyAtStart'
  <2>1. CASE position = 1
    BY <1>1, <1>2, <2>1 DEF UnsetOnlyAtStart
  <2>2. CASE Commented
    BY <1>1, <2>2 DEF UnsetOnlyAtStart, Commented
  <2> QED
    BY <1>3, <2>1, <2>2 DEF FreshInv
<1> QED
  BY <1>1, <1>3, CopyStep

\* An empty slice ends before its beginning.
LEMMA EmptySlice ==
    ASSUME NEW s \in Seq(Char), NEW p \in 1 .. Len(s) + 1, NEW q \in (p - 1) .. Len(s)
    PROVE  SubSeq(s, p, q) = <<>> => q = p - 1
<1> DEFINE t == SubSeq(s, p, q)
<1>1. Len(t) = q - p + 1
  OBVIOUS
<1>2. t = <<>> => Len(t) = 0
  <2> HIDE DEF t
  <2> QED
    OBVIOUS
<1> HIDE DEF t
<1>3. t = <<>> => q = p - 1
  BY <1>1, <1>2
<1> QED
  BY <1>3, Zenon DEF t

\* An empty string at the beginning of the source: the scan stops at once.
LEMMA EmptyString ==
    ASSUME TypeOK, Running, position = 1, NEW quote, Current = quote, At(2) \in {quote, NUL}
    PROVE  source[1] = quote /\ (Len(source) = 1 \/ source[2] = quote)
<1>1. Len(source) \in Nat /\ 1 \in 1 .. Len(source)
  BY ReadFacts DEF Running
<1>2. source[1] = quote
  BY <1>1 DEF Current, At
<1>3. CASE Len(source) # 1
  <2>1. 2 \in 1 .. Len(source)
    <3>1. \A n \in Nat : 1 \in 1 .. n /\ n # 1 => 2 \in 1 .. n
      OBVIOUS
    <3> QED
      BY <1>1, <1>3, <3>1, Zenon
  <2>2. At(2) = source[2]
    BY <1>1, <2>1 DEF At
  <2>3. source[2] \in Char
    BY <2>1, ReadFacts
  <2> QED
    BY <1>2, <2>2, <2>3, CharAssumption
<1> QED
  BY <1>2, <1>3

LEMMA StringUnset == ASSUME TypeOK, FreshInv, String PROVE FreshInv'
<1> DEFINE stops == {q \in (position + 1)..(Len(source) + 1) : At(q) \in {"\"", NUL}}
           stop == First(stops)
           text == SubSeq(source, position + 1, stop - 1)
<1>1. /\ source' = source /\ fresh' = FALSE /\ Running /\ Current = "\""
      /\ IF text = <<>> THEN Copy ELSE UNCHANGED status
  BY DEF String
<1>2. position \in 1 .. Len(source) /\ Len(source) \in Nat
  <2>1. ~Ended
    BY <1>1 DEF Running
  <2> QED
    BY <2>1, ReadFacts
<1>3. stop \in stops
  <2>1. /\ Len(source) + 1 \in (position + 1) .. (Len(source) + 1)
        /\ \A q \in (position + 1) .. (Len(source) + 1) : q \in Nat
    BY <1>2
  <2>2. At(Len(source) + 1) = NUL
    BY ReadFacts
  <2>3. Len(source) + 1 \in stops /\ stops \in SUBSET Nat
    BY <2>1, <2>2
  <2> HIDE DEF stops
  <2> QED
    BY <2>3, FirstIn
<1>4. stop \in (position + 1) .. (Len(source) + 1)
  BY <1>3
<1>4a. At(stop) \in {"\"", NUL}
  BY <1>3
<1> HIDE DEF stop
<1>5. text = <<>> => stop - 1 = (position + 1) - 1
  <2>1. /\ source \in Seq(Char) /\ position + 1 \in 1 .. Len(source) + 1
        /\ stop - 1 \in (position + 1) - 1 .. Len(source)
    BY <1>2, <1>4, ReadFacts
  <2> QED
    BY <2>1, EmptySlice, Zenon
<1> HIDE DEF text
<1>6. ASSUME fresh, text = <<>> PROVE UnsetOnlyAtStart'
  <2>1. CASE position = 1
    <3>1. stop = 2
      BY <1>4, <1>5, <1>6, <2>1
    <3>2. source[1] = "\"" /\ (Len(source) = 1 \/ source[2] = "\"")
      BY <1>1, <1>4a, <2>1, <3>1, EmptyString, Zenon
    <3> QED
      BY <1>1, <3>2 DEF UnsetOnlyAtStart
  <2>2. CASE Commented
    BY <1>1, <2>2 DEF UnsetOnlyAtStart, Commented
  <2> QED
    BY <1>6, <2>1, <2>2 DEF FreshInv
<1>7. CASE text = <<>>
  BY <1>1, <1>6, <1>7, CopyStep
<1>8. CASE text # <<>>
  BY <1>1, <1>8, WrittenStep
<1> QED
  BY <1>7, <1>8

LEMMA CommentUnset == ASSUME TypeOK, FreshInv, Comment PROVE FreshInv'
<1>1. UNCHANGED <<source, fresh, status>> /\ CommentStart /\ Running
  BY DEF Comment
<1>2. ASSUME fresh PROVE Commented
  <2>1. CASE position = 1
    <3>1. /\ 1 \in 1 .. Len(source) /\ Len(source) \in Nat
          /\ At(1) = "/" /\ At(2) = "/" /\ At(Len(source) + 1) = NUL
      BY <1>1, <2>1, ReadFacts DEF Running, CommentStart, Current
    <3>2. Len(source) > 1
      BY <3>1 DEF NUL
    <3> QED
      BY <3>1, <3>2 DEF At, Commented
  <2> QED
    BY <1>2, <2>1 DEF FreshInv
<1>3. Commented' <=> Commented
  BY <1>1 DEF Commented
<1>4. UnsetOnlyAtStart'
  BY <1>1 DEF FreshInv, UnsetOnlyAtStart
<1> QED
  BY <1>1, <1>2, <1>3, <1>4 DEF FreshInv

LEMMA FinishUnset == ASSUME TypeOK, FreshInv, Finish PROVE FreshInv'
<1>1. /\ source' = source /\ fresh' = FALSE /\ Ended
      /\ status' = "done" \/ (fresh /\ status' = "undefined")
  BY DEF Finish
<1>2. ASSUME fresh PROVE UnsetOnlyAtStart'
  <2>1. CASE position = 1
    <3>1. Len(source) = 0 /\ source \in Seq(Char)
      BY <1>1, <2>1, ReadFacts DEF Ended
    <3>2. source = <<>>
      BY <3>1
    <3> QED
      BY <1>1, <3>2 DEF UnsetOnlyAtStart
  <2>2. CASE Commented
    BY <1>1, <2>2 DEF UnsetOnlyAtStart, Commented
  <2> QED
    BY <1>2, <2>1, <2>2 DEF FreshInv
<1>3. UnsetOnlyAtStart'
  BY <1>1, <1>2 DEF UnsetOnlyAtStart
<1> QED
  BY <1>1, <1>3 DEF FreshInv

LEMMA FreshStep == ASSUME TypeOK, FreshInv, [Next]_vars PROVE FreshInv'
<1>1. CASE UNCHANGED vars
  BY <1>1 DEF vars, FreshInv, UnsetOnlyAtStart, Commented
<1>2. CASE Number \/ Character
  BY <1>2, WrittenStep DEF Number, Character
<1>3. CASE Space \/ Letter \/ OperatorCharacter \/ IncludeDot \/ IncludeEnd
  <2>1. Appended
    BY <1>3 DEF Space, Letter, OperatorCharacter, IncludeDot, IncludeEnd
  <2> QED
    BY <2>1, WrittenStep DEF Appended
<1> QED
  BY <1>1, <1>2, <1>3, ControlUnset, StringUnset, CommentUnset, FinishUnset
  DEF Next, Step, Stopped

\* For every source, alphabet and configuration, the unset byte of a new
\* string buffer is read only by a source that is empty or begins with a
\* control character, a comment or an empty string.
THEOREM UnsetCorrect == Spec => []UnsetOnlyAtStart
<1>1. Init => FreshInv
  BY DEF Init, FreshInv, UnsetOnlyAtStart
<1>2. FreshInv => UnsetOnlyAtStart
  BY DEF FreshInv
<1> QED
  BY <1>1, <1>2, FreshStep, TypeCorrect, PTL DEF Spec
===============================================================================
