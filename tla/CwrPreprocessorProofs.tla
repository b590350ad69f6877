------------------------ MODULE CwrPreprocessorProofs ------------------------
(***************************************************************************)
(* Proofs about the preprocessor, for every source and every set of        *)
(* modules: the list stays within its array and the position within the    *)
(* list (TypeCorrect), what has been passed stays as it is (GoesForward),  *)
(* and the editing in place implements the rewriting of MacroExpansion     *)
(* (ExpansionCorrect).                                                     *)
(***************************************************************************)
EXTENDS CwrPreprocessorProperties, NaturalsInduction, WellFoundedInduction, TLAPS

HeapType == [live : SUBSET Nat, last : Nat, fault : Fault]

(***************************************************************************)
(* Memory.                                                                 *)
(***************************************************************************)
\* A read, an allocation, a free map a heap to a heap.
LEMMA RaiseType ==
    ASSUME NEW h \in HeapType, NEW f \in Fault
    PROVE  Raise(h, f) \in HeapType
BY DEF Raise, HeapType

LEMMA ReadType ==
    ASSUME NEW h \in HeapType, NEW b
    PROVE  Read(h, b) \in HeapType
BY RaiseType DEF Read, Fault

LEMMA AllocateType ==
    ASSUME NEW h \in HeapType, NEW n \in Nat
    PROVE  Allocate(h, n) \in HeapType
BY DEF Allocate, HeapType

LEMMA FreeAllType ==
    ASSUME NEW h \in HeapType, NEW f
    PROVE  FreeAll(h, f) \in HeapType
<1> DEFINE blocks == {f[x] : x \in DOMAIN f} \ {NULL}
           rest == [h EXCEPT !.live = @ \ blocks]
<1>1. rest \in HeapType
  BY DEF HeapType
<1>2. Raise(rest, "double_free") \in HeapType
  BY <1>1, RaiseType DEF Fault
<1> HIDE DEF rest
<1>3. FreeAll(h, f) \in {rest, Raise(rest, "double_free")}
  BY DEF FreeAll, rest
<1> QED
  BY <1>1, <1>2, <1>3

\* Copies of tokens are tokens, as many as there were.
LEMMA CloneType ==
    ASSUME NEW h \in HeapType, NEW ts \in Seq(Token), NEW k \in Nat, NEW lost \in Nat
    PROVE  /\ Clone(h, ts, k, lost) \in Seq(Token)
           /\ Len(Clone(h, ts, k, lost)) = Len(ts)
           /\ Cloned(h, ts, k, lost) \in HeapType
<1> DEFINE new == Allocate(h, k + Len(ts))
           block(i) == IF i = lost THEN NULL ELSE Fresh(h, k + i)
<1>1. \A i \in 1 .. Len(ts) : block(i) \in Nat
  BY DEF Fresh, HeapType, NULL
<1>2. \A i \in 1 .. Len(ts) : [ts[i] EXCEPT !.blk = block(i)] \in Token
  <2> HIDE DEF block
  <2> TAKE i \in 1 .. Len(ts)
  <2>1. ts[i] \in Token /\ block(i) \in Nat
    BY <1>1
  <2> QED
    BY <2>1 DEF Token
<1>3. Clone(h, ts, k, lost) = [i \in 1 .. Len(ts) |-> [ts[i] EXCEPT !.blk = block(i)]]
  BY DEF Clone
<1>4. /\ Clone(h, ts, k, lost) \in Seq(Token)
      /\ Len(Clone(h, ts, k, lost)) = Len(ts)
  <2> DEFINE copy(i) == [ts[i] EXCEPT !.blk = block(i)]
  <2>1. \A i \in 1 .. Len(ts) : copy(i) \in Token
    BY <1>2
  <2>2. Clone(h, ts, k, lost) = [i \in 1 .. Len(ts) |-> copy(i)]
    BY <1>3
  <2> HIDE DEF copy
  <2> QED
    BY <2>1, <2>2
<1>5. new \in HeapType
  BY AllocateType
<1> HIDE DEF new
<1>6. Raise(new, "null_dereference") \in HeapType
  BY <1>5, RaiseType DEF Fault
<1>7. \A s : [new EXCEPT !.live = @ \ s] \in HeapType
  BY <1>5 DEF HeapType
<1>8. Cloned(h, ts, k, lost) \in HeapType
  BY <1>6, <1>7 DEF Cloned, new
<1> QED
  BY <1>4, <1>8

LEMMA LexedType ==
    ASSUME NEW h \in HeapType, NEW ts \in Seq(Lexeme), NEW k \in Nat
    PROVE  /\ Lexed(h, ts, k) \in Seq(Token)
           /\ Len(Lexed(h, ts, k)) = Len(ts)
<1>1. \A i \in 1 .. Len(ts) :
        [type |-> ts[i].type, text |-> ts[i].text, blk |-> Fresh(h, k + i)] \in Token
  <2> TAKE i \in 1 .. Len(ts)
  <2>1. ts[i] \in Lexeme
    OBVIOUS
  <2>2. Fresh(h, k + i) \in Nat
    BY DEF Fresh, HeapType
  <2> QED
    BY <2>1, <2>2 DEF Token, Lexeme
<1>2. Lexed(h, ts, k) = [i \in 1 .. Len(ts) |->
        [type |-> ts[i].type, text |-> ts[i].text, blk |-> Fresh(h, k + i)]]
  BY DEF Lexed
<1> QED
  BY <1>1, <1>2

(***************************************************************************)
(* The list.                                                               *)
(***************************************************************************)
ListOK == /\ tokens \in Seq(Token)
          /\ count \in 0 .. Len(tokens)
          /\ position \in 0 .. count

\* cwr_preprocessor_current gives the token at the index, if there is one.
LEMMA AtToken ==
    ASSUME ListOK, count > 0, NEW i \in Nat
    PROVE  /\ At(i) \in Token
           /\ i < count => At(i) = tokens[i + 1]
BY DEF At, ListOK

\* Removing tokens keeps the array's size and what lies before them.
LEMMA RemoveType ==
    ASSUME ListOK, NEW from \in 0 .. count, NEW n \in 0 .. count - from
    PROVE  /\ RemoveTokens(from, n) \in Seq(Token)
           /\ Len(RemoveTokens(from, n)) = Len(tokens)
           /\ \A i \in 1 .. from : RemoveTokens(from, n)[i] = tokens[i]
<1> DEFINE new(i) == IF from < i /\ i <= count - n THEN tokens[i + n] ELSE tokens[i]
<1>1. RemoveTokens(from, n) = [i \in 1 .. Len(tokens) |-> new(i)]
  BY DEF RemoveTokens, ListOK
<1>2. \A i \in 1 .. Len(tokens) : new(i) \in Token
  BY DEF ListOK
<1>3. /\ \A i \in 1 .. from : new(i) = tokens[i]
      /\ from <= Len(tokens)
      /\ Len(tokens) \in Nat
  BY DEF ListOK
<1> HIDE DEF new
<1> QED
  BY <1>1, <1>2, <1>3

\* Replacing tokens gives an array of the new size, the same up to them.
LEMMA ReplaceType ==
    ASSUME ListOK, NEW from \in 0 .. count, NEW n \in 0 .. count - from,
           NEW new \in Seq(Token)
    PROVE  /\ ReplaceTokens(from, n, new) \in Seq(Token)
           /\ Len(ReplaceTokens(from, n, new)) = count - n + Len(new)
           /\ \A i \in 1 .. from : ReplaceTokens(from, n, new)[i] = tokens[i]
<1> DEFINE size == count - n + Len(new)
           element(i) == IF i <= from THEN tokens[i]
                         ELSE IF i <= from + Len(new) THEN new[i - from]
                         ELSE tokens[i - Len(new) + n]
<1>1. ReplaceTokens(from, n, new) = [i \in 1 .. size |-> element(i)]
  BY DEF ReplaceTokens
<1>2. size \in Nat /\ from <= size
  BY DEF ListOK
<1>3. \A i \in 1 .. size : element(i) \in Token
  BY DEF ListOK
<1>4. \A i \in 1 .. from : element(i) = tokens[i]
  OBVIOUS
<1> HIDE DEF size, element
<1>5. ReplaceTokens(from, n, new) \in Seq(Token) /\ Len(ReplaceTokens(from, n, new)) = size
  BY <1>1, <1>2, <1>3
<1>6. \A i \in 1 .. from : ReplaceTokens(from, n, new)[i] = tokens[i]
  BY <1>1, <1>2, <1>4
<1> QED
  BY <1>5, <1>6 DEF size

(***************************************************************************)
(* Searches.                                                               *)
(***************************************************************************)
\* A set of numbers that is not empty has a least one.
LEMMA Least ==
    ASSUME NEW S \in SUBSET Nat, S # {}
    PROVE  \E x \in S : \A y \in S : x <= y
<1>1. PICK x \in S : \A y \in S : ~(<<y, x>> \in OpToRel(<, Nat))
  BY NatLessThanWellFounded, WFMin
<1>2. \A y \in S : ~(y < x)
  BY <1>1 DEF OpToRel
<1> QED
  BY <1>2

\* A macro that is found is in the table.
LEMMA FindMacrosType ==
    ASSUME macroses \in Seq(Macros), NEW text
    PROVE  FindMacros(text) \in 0 .. Len(macroses)
<1> DEFINE I == {i \in 1 .. Len(macroses) : macroses[i].name = text}
           least == CHOOSE x \in I : \A y \in I : x <= y
<1>1. FindMacros(text) = IF I # {} THEN least ELSE 0
  BY DEF FindMacros, SelectInSeq, Min
<1>2. I \in SUBSET Nat /\ I \subseteq 1 .. Len(macroses)
  OBVIOUS
<1> HIDE DEF I
<1>3. I # {} => least \in I
  BY <1>2, Least
<1>4. Len(macroses) \in Nat
  OBVIOUS
<1> HIDE DEF least
<1>5. I # {} => least \in 1 .. Len(macroses)
  BY <1>2, <1>3
<1>6. FindMacros(text) = 0 \/ FindMacros(text) \in 1 .. Len(macroses)
  BY <1>1, <1>5
<1> QED
  BY <1>4, <1>6

\* The body of a definition begins after the name and ends in the list.
LEMMA BodyEndType ==
    ASSUME ListOK, position + 3 <= count
    PROVE  /\ BodyEnd \in position + 3 .. count
           /\ BodyEnd = count \/ BodyEnd + 1 <= count
<1> DEFINE S == {i \in position + 3 .. count :
                    i >= count - 1 \/ tokens[i + 1].type = "new_line"}
<1>1. S \in SUBSET Nat /\ count \in S
  BY DEF ListOK
<1>2. PICK i \in S : \A j \in S : i <= j
  BY <1>1, Least
<1>3. \A j \in position + 3 .. i - 1 : j < count - 1 /\ tokens[j + 1].type # "new_line"
  BY <1>1, <1>2 DEF ListOK
<1>4. BodyEnd \in position + 3 .. count
  BY <1>2, <1>3 DEF BodyEnd
<1> QED
  BY <1>4 DEF ListOK

LEMMA DefineBounds ==
    ASSUME ListOK, position + 3 <= count, Defines
    PROVE  /\ BodyTokens \in Seq(Token)
           /\ DirectiveCount \in 0 .. count - position
<1>1. CASE EmptyBody
  <2>1. At(position + 2).type = "word" /\ At(position + 3).type = "new_line"
    BY <1>1 DEF Defines, EmptyBody
  <2>2. position + 3 < count
    BY <2>1 DEF At, ListOK
  <2>3. BodyTokens = <<>> /\ AfterBody = position + 4
    BY <1>1 DEF BodyTokens, AfterBody
  <2> QED
    BY <2>2, <2>3 DEF DirectiveCount, ListOK
<1>2. CASE ~EmptyBody
  <2>1. BodyEnd \in position + 3 .. count
    BY BodyEndType
  <2>2. BodyTokens = SubSeq(tokens, position + 4, BodyEnd) /\ AfterBody = BodyEnd
    BY <1>2 DEF BodyTokens, AfterBody
  <2>3. BodyTokens \in Seq(Token) /\ Len(BodyTokens) = BodyEnd - (position + 3)
    BY <2>1, <2>2 DEF ListOK
  <2> QED
    BY <2>1, <2>2, <2>3 DEF DirectiveCount, ListOK
<1> QED
  BY <1>1, <1>2

LEMMA IncludeBounds ==
    ASSUME ListOK, Looping, Includes
    PROVE  position + IncludeCount <= count
BY DEF ListOK, Looping, Includes, At, IncludeCount

(***************************************************************************)
(* The steps.                                                              *)
(***************************************************************************)
Forward == /\ position' >= position
           /\ \A i \in DOMAIN tokens : i <= position =>
                \/ tokens'[i] = tokens[i]
                \/ i = position /\ IsPrefix(tokens[i].text, tokens'[i].text)

\* What most steps leave as it is.
LEMMA SameList ==
    ASSUME TypeOK, tokens' = tokens, position' \in position .. count, count' = count
    PROVE  ListOK' /\ Forward
BY DEF TypeOK, ListOK, Forward

LEMMA MayFailType ==
    ASSUME TypeOK, NEW n, MayFail(n)
    PROVE  failures' \in 0 .. MaxFailures
BY FailuresAssumption DEF TypeOK, MayFail

LEMMA PassStep ==
    ASSUME TypeOK, Skip \/ OtherDirective
    PROVE  TypeOK' /\ Forward
<1>1. position' \in position .. count /\ UNCHANGED <<tokens, count>>
  BY DEF TypeOK, Skip, OtherDirective, Looping
<1>2. heap' \in HeapType
  BY ReadType DEF TypeOK, HeapType, Skip, OtherDirective
<1>3. ListOK' /\ Forward
  BY <1>1, SameList
<1> QED
  BY <1>2, <1>3 DEF TypeOK, ListOK, HeapType, Skip, OtherDirective

LEMMA StopStep ==
    ASSUME TypeOK, SyntaxError \/ OutOfMemory \/ FreeTables \/ DestroyList
    PROVE  TypeOK' /\ Forward
<1>1. UNCHANGED <<tokens, count, position, macroses, included>>
  BY DEF SyntaxError, OutOfMemory, FreeTables, DestroyList
<1>2. heap' \in HeapType
  <2>1. heap \in HeapType
    BY DEF TypeOK, HeapType
  <2>2. CASE SyntaxError
    BY <2>1, <2>2 DEF SyntaxError
  <2>3. CASE OutOfMemory
    BY <2>1, <2>3, ReadType DEF OutOfMemory
  <2>4. CASE FreeTables
    BY <2>1, <2>4, RaiseType, FreeAllType DEF FreeTables, Fault
  <2>5. CASE DestroyList
    BY <2>1, <2>5, FreeAllType DEF DestroyList
  <2> QED
    BY <2>2, <2>3, <2>4, <2>5
<1>3. ListOK' /\ Forward
  BY <1>1, SameList DEF TypeOK
<1>4. failures' \in 0 .. MaxFailures
  BY MayFailType DEF TypeOK, SyntaxError, OutOfMemory, FreeTables, DestroyList
<1>5. phase' \in {"run", "break", "list", "done"} /\ failed' \in BOOLEAN
  BY DEF TypeOK, SyntaxError, OutOfMemory, FreeTables, DestroyList, Break
<1> QED
  BY <1>1, <1>2, <1>3, <1>4, <1>5 DEF TypeOK, ListOK, HeapType

LEMMA ExpandStep ==
    ASSUME TypeOK, Expand
    PROVE  TypeOK' /\ Forward
<1>1. ListOK /\ heap \in HeapType /\ position < count
  BY DEF TypeOK, ListOK, HeapType, Expand, Looping
<1> DEFINE value == macroses[FindMacros(Current.text)].value
           h == FreeAll(Read(heap, Current.blk), <<Current.blk>>)
<1>2. value \in Seq(Token)
  <2>1. FindMacros(Current.text) \in 1 .. Len(macroses)
    BY FindMacrosType DEF TypeOK, Expand, Expands
  <2>2. macroses[FindMacros(Current.text)] \in Macros
    BY <2>1 DEF TypeOK
  <2> QED
    BY <2>2 DEF Macros
<1>3. h \in HeapType
  BY <1>1, ReadType, FreeAllType
<1> HIDE DEF value, h
<1>4. PICK lost \in 0 .. Len(value) :
        /\ MayFail(lost)
        /\ tokens' = ReplaceTokens(position, 1, Clone(h, value, 0, lost))
        /\ heap' = Cloned(h, value, 0, lost)
        /\ count' = count - 1 + Len(value)
  BY DEF Expand, value, h
<1>5. lost \in Nat
  BY <1>2
<1>6. /\ Clone(h, value, 0, lost) \in Seq(Token)
      /\ Len(Clone(h, value, 0, lost)) = Len(value)
      /\ heap' \in HeapType
  BY <1>2, <1>3, <1>4, <1>5, CloneType
<1>7. /\ tokens' \in Seq(Token)
      /\ Len(tokens') = count - 1 + Len(value)
      /\ \A i \in 1 .. position : tokens'[i] = tokens[i]
  <2>1. position \in 0 .. count /\ 1 \in 0 .. count - position
    BY <1>1 DEF ListOK
  <2> QED
    BY <1>1, <1>4, <1>6, <2>1, ReplaceType
<1>8. failures' \in 0 .. MaxFailures
  BY <1>4, MayFailType
<1>9. UNCHANGED <<phase, position, macroses, included, failed>>
  BY DEF Expand
<1>10. Forward
  BY <1>1, <1>7, <1>9 DEF Forward, ListOK
<1>11. count' \in 0 .. Len(tokens') /\ position' \in 0 .. count'
  BY <1>1, <1>2, <1>4, <1>7, <1>9 DEF ListOK
<1> QED
  BY <1>6, <1>7, <1>8, <1>9, <1>10, <1>11 DEF TypeOK, HeapType

LEMMA ConcatenateStep ==
    ASSUME TypeOK, Concatenate
    PROVE  TypeOK' /\ Forward
<1> DEFINE previous == tokens[position]
           h == Read(Read(heap, previous.blk), Current.blk)
           rest == RemoveTokens(position, 1)
           joined == [type |-> "string", text |-> previous.text \o Current.text,
                      blk |-> Fresh(heap, 1)]
<1>1. ListOK /\ heap \in HeapType /\ position \in 1 .. count - 1
  BY DEF TypeOK, ListOK, HeapType, Concatenate, Concatenates, Looping
<1>2. /\ rest \in Seq(Token) /\ Len(rest) = Len(tokens)
      /\ \A i \in 1 .. position : rest[i] = tokens[i]
  <2>1. position \in 0 .. count /\ 1 \in 0 .. count - position
    BY <1>1 DEF ListOK
  <2> QED
    BY <1>1, <2>1, RemoveType
<1>3. Current \in Token /\ previous \in Token
  BY <1>1, AtToken DEF Current, ListOK
<1>4. Fresh(heap, 1) \in Nat /\ previous.text \o Current.text \in Text
  BY <1>1, <1>3 DEF Fresh, HeapType, Token, Text
<1>5. joined \in Token
  BY <1>4 DEF Token, TokenType
<1>6. previous.text \in Text /\ Current.text \in Text
  BY <1>3 DEF Token
<1>7. tokens' = [rest EXCEPT ![position] = joined]
  BY DEF Concatenate
<1>8. heap' \in HeapType
  BY <1>1, ReadType, AllocateType, FreeAllType DEF Concatenate
<1>9. count' = count - 1 /\ UNCHANGED <<phase, position, macroses, included, failed, failures>>
  BY DEF Concatenate
<1> HIDE DEF rest, joined, previous
<1>10. /\ tokens' \in Seq(Token) /\ Len(tokens') = Len(tokens)
       /\ \A i \in 1 .. position - 1 : tokens'[i] = tokens[i]
       /\ tokens'[position] = joined
  BY <1>1, <1>2, <1>5, <1>7 DEF ListOK
<1>11. IsPrefix(tokens[position].text, tokens'[position].text)
  <2> DEFINE a == previous.text
             b == Current.text
  <2>1. a \in Seq(STRING) /\ b \in Seq(STRING)
    BY <1>6 DEF Text
  <2>2. tokens[position].text = a /\ tokens'[position].text = a \o b
    <3>1. tokens[position].text = a
      BY DEF previous
    <3>2. joined.text = a \o b
      BY DEF joined
    <3> QED
      BY <1>10, <3>1, <3>2
  <2> HIDE DEF a, b
  <2>3. IsPrefix(a, a \o b)
    <3>1. Len(a) <= Len(a \o b)
      BY <2>1
    <3>2. SubSeq(a, 1, Len(a)) = SubSeq(a \o b, 1, Len(a))
      BY <2>1
    <3> QED
      BY <3>1, <3>2 DEF IsPrefix
  <2> QED
    BY <2>2, <2>3
<1>12. Forward
  <2>1. \A i \in DOMAIN tokens : i <= position => i \in 1 .. position - 1 \/ i = position
    BY <1>1 DEF ListOK
  <2> QED
    BY <1>1, <1>9, <1>10, <1>11, <2>1 DEF Forward, ListOK
<1>13. count' \in 0 .. Len(tokens') /\ position' \in 0 .. count'
  BY <1>1, <1>9, <1>10 DEF ListOK
<1> QED
  BY <1>8, <1>9, <1>10, <1>12, <1>13 DEF TypeOK, HeapType

LEMMA DefineStep ==
    ASSUME TypeOK, Define
    PROVE  TypeOK' /\ Forward
<1>1. ListOK /\ heap \in HeapType /\ position + 3 <= count /\ Defines /\ count > 0
  BY DEF TypeOK, ListOK, HeapType, Define, Truncated, Looping
<1>2. BodyTokens \in Seq(Token) /\ DirectiveCount \in 0 .. count - position
  BY <1>1, DefineBounds
<1>3. PICK lost \in 0 .. Len(BodyTokens) :
        /\ MayFail(lost)
        /\ macroses' = Append(macroses,
                [name |-> At(position + 2).text, blk |-> Fresh(heap, 1),
                 value |-> Clone(heap, BodyTokens, 1, lost)])
        /\ heap' = FreeAll(Cloned(Read(heap, At(position + 2).blk), BodyTokens, 1, lost),
                           Blocks(SubSeq(tokens, position + 1, position + DirectiveCount)))
  BY DEF Define
<1>4. lost \in Nat
  BY <1>2
<1>5. heap' \in HeapType
  BY <1>1, <1>2, <1>3, <1>4, ReadType, CloneType, FreeAllType
<1>6. macroses' \in Seq(Macros)
  <2>1. At(position + 2) \in Token
    BY <1>1, AtToken DEF ListOK
  <2>2. At(position + 2).text \in Text /\ Fresh(heap, 1) \in Nat
    BY <1>1, <2>1 DEF Token, Fresh, HeapType
  <2>3. Clone(heap, BodyTokens, 1, lost) \in Seq(Token)
    BY <1>1, <1>2, <1>4, CloneType
  <2>4. [name |-> At(position + 2).text, blk |-> Fresh(heap, 1),
         value |-> Clone(heap, BodyTokens, 1, lost)] \in Macros
    BY <2>2, <2>3 DEF Macros
  <2> QED
    BY <1>3, <2>4 DEF TypeOK
<1>7. /\ tokens' = RemoveTokens(position, DirectiveCount) /\ count' = count - DirectiveCount
      /\ UNCHANGED <<phase, position, included, failed>>
  BY DEF Define
<1>8. /\ tokens' \in Seq(Token) /\ Len(tokens') = Len(tokens)
      /\ \A i \in 1 .. position : tokens'[i] = tokens[i]
  BY <1>1, <1>2, <1>7, RemoveType DEF ListOK
<1>9. failures' \in 0 .. MaxFailures
  BY <1>3, MayFailType
<1>10. Forward
  BY <1>1, <1>7, <1>8 DEF Forward, ListOK
<1>11. count' \in 0 .. Len(tokens') /\ position' \in 0 .. count'
  BY <1>1, <1>2, <1>7, <1>8 DEF ListOK
<1> QED
  BY <1>5, <1>6, <1>7, <1>8, <1>9, <1>10, <1>11 DEF TypeOK, HeapType

LEMMA IncludeStep ==
    ASSUME TypeOK, Include \/ IncludeAgain
    PROVE  TypeOK' /\ Forward
<1>1. ListOK /\ heap \in HeapType /\ position + IncludeCount <= count /\ count > 0
  BY IncludeBounds DEF TypeOK, ListOK, HeapType, Include, IncludeAgain, Looping
<1>2. At(position + 3).text \in Text /\ NameRead \in HeapType
  <2>1. At(position + 3) \in Token
    BY <1>1, AtToken DEF ListOK
  <2> QED
    BY <1>1, <2>1, ReadType DEF Token, NameRead
<1>3. position \in 0 .. count /\ IncludeCount \in 0 .. count - position
  BY <1>1 DEF ListOK, IncludeCount
<1>4. CASE IncludeAgain
  <2>1. /\ tokens' = RemoveTokens(position, IncludeCount)
        /\ count' = count - IncludeCount
        /\ UNCHANGED <<position, macroses, included, failures>>
        /\ phase' = "break" /\ failed' = (failed \/ FALSE)
        /\ heap' = FreeAll(NameRead, IncludeBlocks)
    BY <1>4 DEF IncludeAgain, Break
  <2>2. /\ tokens' \in Seq(Token) /\ Len(tokens') = Len(tokens)
        /\ \A i \in 1 .. position : tokens'[i] = tokens[i]
    BY <1>1, <1>3, <2>1, RemoveType
  <2>3. heap' \in HeapType
    BY <1>2, <2>1, FreeAllType
  <2>4. Forward
    BY <1>1, <2>1, <2>2 DEF Forward, ListOK
  <2>5. count' \in 0 .. Len(tokens') /\ position' \in 0 .. count'
    BY <1>1, <1>3, <2>1, <2>2 DEF ListOK
  <2> QED
    BY <2>1, <2>2, <2>3, <2>4, <2>5 DEF TypeOK, HeapType
<1>5. CASE Include
  <2> DEFINE ts == Module[Head(ModuleName)]
  <2>1. ts \in Seq(Lexeme)
    <3>1. PICK m \in DOMAIN Module : ModuleName = <<m>>
      BY <1>5 DEF Include, Known
    <3> QED
      BY <3>1, ModuleAssumption
  <2> HIDE DEF ts
  <2>2. /\ tokens' = ReplaceTokens(position, IncludeCount, Lexed(heap, ts, 1))
        /\ heap' = FreeAll(Allocate(NameRead, 1 + Len(ts)), IncludeBlocks)
        /\ count' = count - IncludeCount + Len(ts)
        /\ included' = AddIncluded
        /\ UNCHANGED <<phase, position, macroses, failed, failures>>
    BY <1>5 DEF Include, ts
  <2>3. Lexed(heap, ts, 1) \in Seq(Token) /\ Len(Lexed(heap, ts, 1)) = Len(ts)
    BY <1>1, <2>1, LexedType
  <2>4. /\ tokens' \in Seq(Token) /\ Len(tokens') = count - IncludeCount + Len(ts)
        /\ \A i \in 1 .. position : tokens'[i] = tokens[i]
    BY <1>1, <1>3, <2>2, <2>3, ReplaceType
  <2>5. 1 + Len(ts) \in Nat
    BY <2>1
  <2>6. heap' \in HeapType
    BY <1>2, <2>2, <2>5, AllocateType, FreeAllType
  <2>7. included' \in Seq(Named)
    <3>1. [name |-> ModuleName, blk |-> Fresh(heap, 1)] \in Named
      BY <1>1, <1>2 DEF Named, ModuleName, Fresh, HeapType
    <3> QED
      BY <2>2, <3>1 DEF TypeOK, AddIncluded
  <2>8. Forward
    BY <1>1, <2>2, <2>4 DEF Forward, ListOK
  <2>9. count' \in 0 .. Len(tokens') /\ position' \in 0 .. count'
    BY <1>1, <1>3, <2>1, <2>2, <2>4 DEF ListOK, IncludeCount
  <2> QED
    BY <2>2, <2>4, <2>6, <2>7, <2>8, <2>9 DEF TypeOK, HeapType
<1> QED
  BY <1>4, <1>5

LEMMA IncludeAbandonedStep ==
    ASSUME TypeOK, IncludeAbandoned
    PROVE  TypeOK' /\ Forward
<1>1. ListOK /\ heap \in HeapType /\ count > 0
  BY DEF TypeOK, ListOK, HeapType, IncludeAbandoned, Looping
<1>2. /\ included' = AddIncluded
      /\ UNCHANGED <<tokens, count, position, macroses>>
      /\ phase' = "break" /\ failed' = (failed \/ TRUE)
  BY DEF IncludeAbandoned, Break
<1>3. PICK grown \in BOOLEAN :
        /\ MayFail(IF Known THEN 1 ELSE 0)
        /\ heap' = FreeAll(Allocate(NameRead, 1),
                IF grown THEN <<Fresh(heap, 1)>> ELSE <<Fresh(heap, 1)>> \o IncludeBlocks)
  BY DEF IncludeAbandoned
<1>4. heap' \in HeapType
  BY <1>1, <1>3, ReadType, AllocateType, FreeAllType DEF NameRead
<1>5. included' \in Seq(Named)
  <2>1. At(position + 3) \in Token
    BY <1>1, AtToken DEF ListOK
  <2>2. [name |-> ModuleName, blk |-> Fresh(heap, 1)] \in Named
    BY <1>1, <2>1 DEF Named, ModuleName, Fresh, HeapType, Token
  <2> QED
    BY <1>2, <2>2 DEF TypeOK, AddIncluded
<1>6. ListOK' /\ Forward
  BY <1>2, SameList DEF TypeOK
<1>7. failures' \in 0 .. MaxFailures
  BY <1>3, MayFailType
<1> QED
  BY <1>2, <1>4, <1>5, <1>6, <1>7 DEF TypeOK, ListOK, HeapType

LEMMA Step ==
    ASSUME TypeOK, [Next]_vars
    PROVE  TypeOK' /\ Forward
<1>1. CASE UNCHANGED vars
  <2>1. ListOK' /\ Forward
    BY <1>1, SameList DEF vars, TypeOK
  <2> QED
    BY <1>1, <2>1 DEF vars, TypeOK
<1>2. CASE Stopped
  BY <1>1, <1>2 DEF Stopped
<1> QED
  BY <1>1, <1>2, PassStep, StopStep, ExpandStep, ConcatenateStep, DefineStep,
     IncludeStep, IncludeAbandonedStep DEF Next

(***************************************************************************)
(* The theorems.                                                           *)
(***************************************************************************)
LEMMA InitType == Init => TypeOK
<1> SUFFICES ASSUME Init PROVE TypeOK
  OBVIOUS
<1>1. PICK source \in Source :
        /\ tokens = Lexed(EmptyHeap, source, 0) /\ count = Len(source)
        /\ heap = Allocate(EmptyHeap, Len(source))
  BY DEF Init
<1>2. source \in Seq(Lexeme) /\ Len(source) \in Nat
  BY SourceAssumption
<1>3. EmptyHeap \in HeapType
  BY DEF EmptyHeap, HeapType, Fault
<1>4. tokens \in Seq(Token) /\ Len(tokens) = count
  BY <1>1, <1>2, <1>3, LexedType
<1>5. heap \in HeapType
  BY <1>1, <1>2, <1>3, AllocateType
<1>6. /\ phase = "run" /\ position = 0 /\ failed = FALSE /\ failures = 0
      /\ macroses = <<>> /\ included = <<>>
  BY DEF Init
<1>7. macroses \in Seq(Macros) /\ included \in Seq(Named)
  BY <1>6
<1>8. failures \in 0 .. MaxFailures
  BY <1>6, FailuresAssumption
<1>9. count \in 0 .. Len(tokens) /\ position \in 0 .. count
  BY <1>1, <1>2, <1>4, <1>6
<1> QED
  BY <1>4, <1>5, <1>6, <1>7, <1>8, <1>9 DEF TypeOK, HeapType

\* The list is within its array and the position within the list, whatever the
\* source, the modules and the allocations that fail: no directive removes more
\* than there is.
THEOREM TypeCorrect == Spec => []TypeOK
<1>1. TypeOK /\ [Next]_vars => TypeOK'
  BY Step
<1> QED
  BY <1>1, InitType, PTL DEF Spec

\* What the preprocessor has passed stays as it is, but for the string just
\* passed, which can grow, in every step.
THEOREM GoesForward == Spec => OnlyForward
<1>1. TypeOK /\ [Next]_vars => [Forward]_vars
  BY Step
<1>2. [Forward]_vars => [/\ position' >= position
                         /\ \A i \in DOMAIN tokens : i <= position =>
                              \/ tokens'[i] = tokens[i]
                              \/ i = position /\ IsPrefix(tokens[i].text, tokens'[i].text)]_vars
  BY DEF Forward
<1> QED
  BY <1>1, <1>2, TypeCorrect, PTL DEF Spec, OnlyForward

(***************************************************************************)
(* The rewriting.  What the list says before and after the position.       *)
(***************************************************************************)
Says(t) == [type |-> t.type, text |-> t.text]

\* A part of a list without its addresses.
Slice(ts, a, b, s) == s = Plain(SubSeq(ts, a + 1, b))

LEMMA SliceSays ==
    ASSUME NEW ts \in Seq(Token), NEW a \in 0 .. Len(ts), NEW b \in a .. Len(ts),
           NEW s, Slice(ts, a, b, s)
    PROVE  /\ s \in Seq(Lexeme) /\ Len(s) = b - a /\ DOMAIN s = 1 .. b - a
           /\ \A i \in 1 .. b - a : s[i] = Says(ts[a + i])
<1> DEFINE part == SubSeq(ts, a + 1, b)
<1>1. /\ part \in Seq(Token) /\ Len(part) = b - a
      /\ \A i \in 1 .. b - a : part[i] = ts[a + i]
  OBVIOUS
<1>2. s = [i \in DOMAIN part |-> Says(part[i])]
  BY DEF Slice, Plain, Says
<1> HIDE DEF part
<1>3. DOMAIN part = 1 .. b - a /\ b - a \in Nat
  BY <1>1
<1>4. s = [i \in 1 .. b - a |-> Says(part[i])]
  BY <1>2, <1>3
<1>5. \A i \in 1 .. b - a : Says(part[i]) \in Lexeme
  <2> TAKE i \in 1 .. b - a
  <2>1. part[i] \in Token
    BY <1>1
  <2> QED
    BY <2>1 DEF Says, Token, Lexeme
<1>6. s \in Seq(Lexeme) /\ Len(s) = b - a
  <2> DEFINE say(i) == Says(part[i])
  <2>1. \A i \in 1 .. b - a : say(i) \in Lexeme
    BY <1>5
  <2>2. s = [i \in 1 .. b - a |-> say(i)]
    BY <1>4
  <2> HIDE DEF say
  <2> QED
    BY <1>3, <2>1, <2>2
<1> QED
  BY <1>1, <1>3, <1>4, <1>6

\* The same for a whole sequence.
LEMMA PlainSays ==
    ASSUME NEW ts \in Seq(Token)
    PROVE  /\ Plain(ts) \in Seq(Lexeme) /\ Len(Plain(ts)) = Len(ts)
           /\ \A i \in 1 .. Len(ts) : Plain(ts)[i] = Says(ts[i])
<1>1. Len(ts) \in Nat /\ ts = SubSeq(ts, 0 + 1, Len(ts))
  OBVIOUS
<1> DEFINE p == Plain(ts)
<1>2. Slice(ts, 0, Len(ts), p)
  BY <1>1 DEF Slice
<1> HIDE DEF p
<1>3. 0 \in 0 .. Len(ts) /\ Len(ts) \in 0 .. Len(ts)
  BY <1>1
<1>4. /\ p \in Seq(Lexeme) /\ Len(p) = Len(ts) - 0
      /\ \A i \in 1 .. Len(ts) - 0 : p[i] = Says(ts[0 + i])
  BY <1>2, <1>3, SliceSays
<1> QED
  BY <1>1, <1>4 DEF p

LEMMA SameSequence ==
    ASSUME NEW T, NEW s \in Seq(T), NEW t \in Seq(T), Len(s) = Len(t),
           \A i \in 1 .. Len(s) : s[i] = t[i]
    PROVE  s = t
OBVIOUS

\* The list up to the position, and from it.
Placed == ListOK /\ Passed = position

LEMMA StartSays ==
    ASSUME NEW ts \in Seq(Token), NEW b \in 0 .. Len(ts), NEW s, Slice(ts, 0, b, s)
    PROVE  /\ s \in Seq(Lexeme) /\ Len(s) = b
           /\ \A i \in 1 .. b : s[i] = Says(ts[i])
<1>1. b \in Nat /\ b - 0 = b /\ 0 \in 0 .. Len(ts)
  OBVIOUS
<1>2. /\ s \in Seq(Lexeme) /\ Len(s) = b - 0
      /\ \A i \in 1 .. b - 0 : s[i] = Says(ts[0 + i])
  BY <1>1, SliceSays
<1> QED
  BY <1>1, <1>2

LEMMA OutSays ==
    ASSUME Placed
    PROVE  /\ Out \in Seq(Lexeme) /\ Len(Out) = position
           /\ \A i \in 1 .. position : Out[i] = Says(tokens[i])
<1>1. position \in 0 .. Len(tokens) /\ tokens \in Seq(Token)
  BY DEF Placed, ListOK
<1>2. Slice(tokens, 0, position, Out)
  BY DEF Out, Placed, Slice
<1> QED
  BY <1>1, <1>2, StartSays

LEMMA RestSays ==
    ASSUME Placed
    PROVE  /\ Rest \in Seq(Lexeme) /\ Len(Rest) = count - position
           /\ \A i \in 1 .. count - position : Rest[i] = Says(tokens[position + i])
<1>1. position \in 0 .. Len(tokens) /\ count \in position .. Len(tokens) /\ tokens \in Seq(Token)
  BY DEF Placed, ListOK
<1>2. Slice(tokens, position, count, Rest)
  BY DEF Rest, Placed, Slice
<1> QED
  BY <1>1, <1>2, SliceSays

LEMMA OutSaysNext ==
    ASSUME Placed'
    PROVE  /\ Out' \in Seq(Lexeme) /\ Len(Out') = position'
           /\ \A i \in 1 .. position' : Out'[i] = Says(tokens'[i])
<1>1. position' \in 0 .. Len(tokens') /\ tokens' \in Seq(Token)
  BY DEF Placed, ListOK
<1>2. Slice(tokens', 0, position', Out')
  BY DEF Out, Placed, Slice
<1> QED
  BY <1>1, <1>2, StartSays

LEMMA RestSaysNext ==
    ASSUME Placed'
    PROVE  /\ Rest' \in Seq(Lexeme) /\ Len(Rest') = count' - position'
           /\ \A i \in 1 .. count' - position' : Rest'[i] = Says(tokens'[position' + i])
<1>1. /\ position' \in 0 .. Len(tokens') /\ count' \in position' .. Len(tokens')
      /\ tokens' \in Seq(Token)
  BY DEF Placed, ListOK
<1>2. Slice(tokens', position', count', Rest')
  BY DEF Rest, Placed, Slice
<1> QED
  BY <1>1, <1>2, SliceSays

\* A step that leaves what has been passed ...
LEMMA OutStays ==
    ASSUME Placed, Placed', position' = position,
           \A i \in 1 .. position : tokens'[i] = tokens[i]
    PROVE  Out' = Out
<1>1. \A i \in 1 .. position : Out'[i] = Out[i]
  BY OutSays, OutSaysNext
<1> QED
  BY <1>1, OutSays, OutSaysNext, SameSequence

\* ... and puts `new' in place of the next k tokens.
Splices(k, new) ==
    /\ count' = count - k + Len(new)
    /\ \A i \in 1 .. Len(new) : Says(tokens'[position + i]) = new[i]
    /\ \A i \in Len(new) + 1 .. count' - position :
            tokens'[position + i] = tokens[position + (i - Len(new) + k)]

LEMMA RestSpliced ==
    ASSUME Placed, Placed', position' = position, NEW k \in 0 .. count - position,
           NEW new \in Seq(Lexeme), Splices(k, new)
    PROVE  Rest' = new \o SubSeq(Rest, k + 1, Len(Rest))
<1>0. /\ count' = count - k + Len(new)
      /\ \A i \in 1 .. Len(new) : Says(tokens'[position + i]) = new[i]
      /\ \A i \in Len(new) + 1 .. count' - position :
            tokens'[position + i] = tokens[position + (i - Len(new) + k)]
  BY DEF Splices
<1>1. /\ position \in 0 .. count /\ count \in Nat /\ Len(new) \in Nat /\ k \in Nat
      /\ count' \in Nat /\ k <= count - position
  BY <1>0 DEF Placed, ListOK
<1>2. /\ Rest \in Seq(Lexeme) /\ Len(Rest) = count - position
      /\ \A i \in 1 .. count - position : Rest[i] = Says(tokens[position + i])
  BY RestSays
<1>3. /\ Rest' \in Seq(Lexeme) /\ Len(Rest') = count' - position
      /\ \A i \in 1 .. count' - position : Rest'[i] = Says(tokens'[position + i])
  BY RestSaysNext
<1> DEFINE after == SubSeq(Rest, k + 1, Len(Rest))
<1>4. /\ after \in Seq(Lexeme) /\ Len(after) = count - position - k
      /\ \A i \in 1 .. count - position - k : after[i] = Rest[k + i]
  BY <1>1, <1>2
<1> HIDE DEF after
<1>5. /\ new \o after \in Seq(Lexeme) /\ Len(new \o after) = Len(new) + Len(after)
      /\ \A i \in 1 .. Len(new) : (new \o after)[i] = new[i]
      /\ \A i \in Len(new) + 1 .. Len(new) + Len(after) : (new \o after)[i] = after[i - Len(new)]
  BY <1>4
<1>6. Len(Rest') = Len(new \o after)
  BY <1>0, <1>1, <1>3, <1>4, <1>5
<1>7. \A i \in 1 .. Len(Rest') : Rest'[i] = (new \o after)[i]
  <2> SUFFICES ASSUME NEW i \in 1 .. Len(Rest') PROVE Rest'[i] = (new \o after)[i]
    OBVIOUS
  <2>1. i \in 1 .. count' - position /\ i \in Nat
    <3>1. i \in 1 .. count' - position
      BY <1>3
    <3>2. count' - position \in Int
      BY <1>1
    <3> QED
      BY <3>1, <3>2
  <2>2. CASE i <= Len(new)
    <3>1. i \in 1 .. Len(new)
      BY <1>1, <2>1, <2>2
    <3> QED
      BY <1>0, <1>3, <1>5, <2>1, <3>1
  <2>3. CASE i > Len(new)
    <3>0. i - Len(new) \in Nat
      BY <1>1, <2>1, <2>3
    <3>1. PICK j \in Nat : j = i - Len(new)
      BY <3>0
    <3>2. /\ i \in Len(new) + 1 .. count' - position /\ i \in Len(new) + 1 .. Len(new) + Len(after)
          /\ j \in 1 .. count - position - k /\ k + j \in 1 .. count - position
          /\ j + k = k + j
      BY <1>0, <1>1, <1>4, <2>1, <2>3, <3>1
    <3>3. Rest'[i] = Says(tokens[position + (i - Len(new) + k)])
      BY <1>0, <1>3, <2>1, <3>2
    <3>4. Rest'[i] = Says(tokens[position + (k + j)])
      BY <3>1, <3>2, <3>3
    <3>5. (new \o after)[i] = after[j]
      BY <1>5, <3>1, <3>2
    <3> QED
      BY <1>2, <1>4, <3>2, <3>4, <3>5
  <2>4. i <= Len(new) \/ i > Len(new)
    BY <1>1, <2>1
  <2> QED
    BY <2>2, <2>3, <2>4
<1>8. Rest' = new \o after
  BY <1>3, <1>5, <1>6, <1>7, SameSequence
<1> QED
  BY <1>8 DEF after

(***************************************************************************)
(* The definitions.                                                        *)
(***************************************************************************)
First(ms, text) == SelectInSeq(ms, LAMBDA m : m.name = text)

\* The first macro of a name, if there is one.
LEMMA FirstFound ==
    ASSUME NEW ms \in Seq(Macros), NEW text
    PROVE  /\ First(ms, text) \in 0 .. Len(ms)
           /\ First(ms, text) = 0 <=> \A i \in 1 .. Len(ms) : ms[i].name # text
           /\ First(ms, text) # 0 => /\ ms[First(ms, text)].name = text
                                     /\ \A i \in 1 .. First(ms, text) - 1 : ms[i].name # text
<1> DEFINE I == {i \in 1 .. Len(ms) : ms[i].name = text}
           least == CHOOSE x \in I : \A y \in I : x <= y
<1>1. First(ms, text) = IF I # {} THEN least ELSE 0
  BY DEF First, SelectInSeq, Min
<1>2. I \in SUBSET Nat /\ Len(ms) \in Nat
  OBVIOUS
<1>3. I # {} => least \in I /\ \A y \in I : least <= y
  <2> HIDE DEF I
  <2> QED
    BY <1>2, Least
<1> HIDE DEF least
<1>4. I # {} => least \in 1 .. Len(ms) /\ ms[least].name = text
                /\ \A i \in 1 .. least - 1 : ms[i].name # text
  BY <1>2, <1>3
<1>5. I = {} <=> \A i \in 1 .. Len(ms) : ms[i].name # text
  OBVIOUS
<1> HIDE DEF I
<1> QED
  BY <1>1, <1>2, <1>4, <1>5

\* It is the only one that is first.
IsFirst(ms, text, i) == /\ i \in 1 .. Len(ms) /\ ms[i].name = text
                        /\ \A j \in 1 .. i - 1 : ms[j].name # text

LEMMA FirstOnly ==
    ASSUME NEW ms \in Seq(Macros), NEW text, NEW i, IsFirst(ms, text, i)
    PROVE  First(ms, text) = i
<1>0. /\ i \in 1 .. Len(ms) /\ ms[i].name = text
      /\ \A j \in 1 .. i - 1 : ms[j].name # text
  BY DEF IsFirst
<1>1. /\ First(ms, text) \in 1 .. Len(ms) /\ ms[First(ms, text)].name = text
      /\ \A j \in 1 .. First(ms, text) - 1 : ms[j].name # text
  BY <1>0, FirstFound
<1>2. Len(ms) \in Nat /\ i \in Nat /\ First(ms, text) \in Nat
  BY <1>0, <1>1
<1>3. ~(First(ms, text) < i)
  BY <1>0, <1>1, <1>2
<1>4. ~(i < First(ms, text))
  BY <1>0, <1>1, <1>2
<1> QED
  BY <1>2, <1>3, <1>4

LEMMA DefsSame ==
    ASSUME macroses' = macroses
    PROVE  Defs' = Defs
<1>1. Names' = Names
  BY DEF Names
<1>2. ASSUME NEW n PROVE macroses'[FindMacros(n)'].value = macroses[FindMacros(n)].value
  <2>1. FindMacros(n) = First(macroses, n)
    BY DEF FindMacros, First
  <2>2. FindMacros(n)' = First(macroses', n)
    BY DEF FindMacros, First, SelectInSeq
  <2>3. First(macroses', n) = First(macroses, n)
    OBVIOUS
  <2> QED
    BY <2>1, <2>2, <2>3
<1>3. Defs' = [n \in Names' |-> Plain(macroses'[FindMacros(n)'].value)]
  BY DEF Defs
<1> QED
  BY <1>1, <1>2, <1>3 DEF Defs

\* A definition is added for a name that has none, and changes no other.
LEMMA DefsGrow ==
    ASSUME TypeOK, NEW name, NEW blk, NEW value \in Seq(Token),
           NEW macro \in Macros, macro = [name |-> name, blk |-> blk, value |-> value],
           macroses' = Append(macroses, macro)
    PROVE  Defs' = [n \in DOMAIN Defs \cup {name} |->
                        IF n \in DOMAIN Defs THEN Defs[n] ELSE Plain(value)]
<1> DEFINE ms == macroses
           len == Len(macroses) + 1
<1>1. /\ ms \in Seq(Macros) /\ macroses' \in Seq(Macros) /\ Len(macroses') = len
      /\ Len(ms) \in Nat /\ macroses'[len] = macro
      /\ \A i \in 1 .. Len(ms) : macroses'[i] = ms[i]
      /\ DOMAIN ms = 1 .. Len(ms) /\ DOMAIN macroses' = 1 .. len
  BY DEF TypeOK
<1>2. DOMAIN Defs = Names /\ DOMAIN Defs' = Names' /\ macro.name = name /\ macro.value = value
  BY DEF Defs
<1>3. Names' = Names \cup {name}
  <2>1. \A i \in 1 .. len : macroses'[i].name = name \/ i \in 1 .. Len(ms)
    BY <1>1, <1>2
  <2>2. Names = {ms[i].name : i \in 1 .. Len(ms)}
    BY <1>1 DEF Names
  <2>3. Names' = {macroses'[i].name : i \in 1 .. len}
    BY <1>1 DEF Names
  <2>4. len \in 1 .. len /\ 1 .. Len(ms) \subseteq 1 .. len
    BY <1>1
  <2>5. macroses'[len].name = name
    BY <1>1, <1>2
  <2>6. \A i \in 1 .. Len(ms) : macroses'[i].name = ms[i].name
    BY <1>1
  <2> HIDE DEF len, ms
  <2>7. Names \cup {name} \subseteq Names'
    BY <2>2, <2>3, <2>4, <2>5, <2>6
  <2>8. Names' \subseteq Names \cup {name}
    BY <2>1, <2>2, <2>3, <2>6
  <2> QED
    BY <2>7, <2>8
<1>4. ASSUME NEW n
      PROVE  FindMacros(n) = First(macroses, n) /\ FindMacros(n)' = First(macroses', n)
  <2>1. FindMacros(n) = First(macroses, n)
    BY DEF FindMacros, First
  <2>2. FindMacros(n)' = First(macroses', n)
    BY DEF FindMacros, First, SelectInSeq
  <2> QED
    BY <2>1, <2>2
<1>5. ASSUME NEW n \in Names
      PROVE  macroses'[FindMacros(n)'].value = macroses[FindMacros(n)].value
  <2>1. \E i \in 1 .. Len(ms) : ms[i].name = n
    BY <1>1, <1>5 DEF Names
  <2>2. PICK i \in 1 .. Len(ms) : i = First(ms, n)
    BY <1>1, <2>1, FirstFound
  <2>3. ms[i].name = n /\ \A j \in 1 .. i - 1 : ms[j].name # n
    BY <1>1, <2>2, FirstFound
  <2>4. i \in 1 .. Len(macroses') /\ macroses'[i] = ms[i]
        /\ \A j \in 1 .. i - 1 : macroses'[j] = ms[j]
    BY <1>1, <2>2
  <2>5. IsFirst(macroses', n, i)
    BY <2>3, <2>4 DEF IsFirst
  <2>6. First(macroses', n) = i
    BY <1>1, <2>5, FirstOnly
  <2> QED
    BY <1>4, <2>2, <2>4, <2>6
<1>6. ASSUME name \notin Names
      PROVE  macroses'[FindMacros(name)'].value = value
  <2>1. \A i \in 1 .. Len(ms) : ms[i].name # name
    BY <1>1, <1>6 DEF Names
  <2>2. len \in 1 .. Len(macroses') /\ macroses'[len].name = name
        /\ \A j \in 1 .. len - 1 : macroses'[j].name # name
    BY <1>1, <1>2, <2>1
  <2>3. IsFirst(macroses', name, len)
    BY <2>2 DEF IsFirst
  <2>4. First(macroses', name) = len
    BY <1>1, <2>3, FirstOnly
  <2> QED
    BY <1>1, <1>2, <1>4, <2>4
<1>7. Defs' = [n \in Names' |-> Plain(macroses'[FindMacros(n)'].value)]
  BY DEF Defs
<1>8. \A n \in Names : Defs[n] = Plain(macroses[FindMacros(n)].value)
  BY DEF Defs
<1>9. ASSUME NEW n \in Names'
      PROVE  Plain(macroses'[FindMacros(n)'].value)
                = IF n \in DOMAIN Defs THEN Defs[n] ELSE Plain(value)
  <2>1. CASE n \in Names
    BY <1>2, <1>5, <1>8, <2>1
  <2>2. CASE n \notin Names
    BY <1>2, <1>3, <1>6, <1>9, <2>2
  <2> QED
    BY <2>1, <2>2
<1> QED
  BY <1>2, <1>3, <1>7, <1>9


(***************************************************************************)
(* Each step of the editing is a step of the rewriting, or none.           *)
(***************************************************************************)
\* Passing tokens moves them from what is left to what has been passed.
LEMMA CutMoves ==
    ASSUME NEW ts \in Seq(Token), NEW a \in 0 .. Len(ts), NEW b \in a .. Len(ts),
           NEW c \in b .. Len(ts), NEW k, k = b - a,
           NEW o, NEW r, NEW p, NEW q,
           Slice(ts, 0, a, o), Slice(ts, a, c, r), Slice(ts, 0, b, p), Slice(ts, b, c, q)
    PROVE  p = o \o SubSeq(r, 1, k) /\ q = SubSeq(r, k + 1, Len(r))
<1>1. /\ a \in Nat /\ b \in Nat /\ c \in Nat /\ k \in Nat /\ a <= b /\ b <= c /\ c <= Len(ts)
      /\ a \in 0 .. Len(ts) /\ b \in 0 .. Len(ts) /\ c \in a .. Len(ts) /\ c - b \in Nat
      /\ b = a + k /\ Len(ts) \in Nat
  OBVIOUS
<1>2. /\ o \in Seq(Lexeme) /\ Len(o) = a /\ \A i \in 1 .. a : o[i] = Says(ts[i])
  BY <1>1, StartSays
<1>3. /\ p \in Seq(Lexeme) /\ Len(p) = b /\ \A i \in 1 .. b : p[i] = Says(ts[i])
  BY <1>1, StartSays
<1>4. /\ r \in Seq(Lexeme) /\ Len(r) = c - a /\ \A i \in 1 .. c - a : r[i] = Says(ts[a + i])
  BY <1>1, SliceSays
<1>5. /\ q \in Seq(Lexeme) /\ Len(q) = c - b /\ \A i \in 1 .. c - b : q[i] = Says(ts[b + i])
  BY <1>1, SliceSays
<1> DEFINE passed == SubSeq(r, 1, k)
           after == SubSeq(r, k + 1, Len(r))
<1>6. /\ passed \in Seq(Lexeme) /\ Len(passed) = k /\ \A i \in 1 .. k : passed[i] = r[i]
      /\ after \in Seq(Lexeme) /\ Len(after) = c - b /\ \A i \in 1 .. c - b : after[i] = r[k + i]
  BY <1>1, <1>4
<1> HIDE DEF passed, after
<1>7. p = o \o passed
  <2>1. /\ o \o passed \in Seq(Lexeme) /\ Len(o \o passed) = b
        /\ \A i \in 1 .. a : (o \o passed)[i] = o[i]
        /\ \A i \in a + 1 .. b : (o \o passed)[i] = passed[i - a]
    <3>0. o \in Seq(Lexeme) /\ passed \in Seq(Lexeme)
      BY <1>2, <1>6
    <3>1. /\ o \o passed \in Seq(Lexeme) /\ Len(o \o passed) = Len(o) + Len(passed)
          /\ \A i \in 1 .. Len(o) : (o \o passed)[i] = o[i]
          /\ \A i \in Len(o) + 1 .. Len(o) + Len(passed) :
                (o \o passed)[i] = passed[i - Len(o)]
      BY <3>0
    <3>2. Len(o) = a /\ Len(o) + Len(passed) = b
      BY <1>1, <1>2, <1>6
    <3> QED
      BY <3>1, <3>2
  <2>2. ASSUME NEW i \in 1 .. b PROVE p[i] = (o \o passed)[i]
    <3>1. CASE i <= a
      <4>1. i \in 1 .. a
        BY <1>1, <3>1
      <4> QED
        BY <1>2, <1>3, <2>1, <4>1
    <3>2. CASE i > a
      <4>0. i - a \in Nat
        BY <1>1, <3>2
      <4>1. PICK j \in Nat : j = i - a
        BY <4>0
      <4>2. i \in a + 1 .. b /\ j \in 1 .. k /\ j \in 1 .. c - a /\ i = a + j
        BY <1>1, <3>2, <4>1
      <4>3. (o \o passed)[i] = passed[j]
        BY <2>1, <4>1, <4>2
      <4> QED
        BY <1>3, <1>4, <1>6, <4>2, <4>3
    <3>3. i <= a \/ i > a
      BY <1>1
    <3> QED
      BY <3>1, <3>2, <3>3
  <2> QED
    BY <1>3, <2>1, <2>2, SameSequence
<1>8. q = after
  <2>1. ASSUME NEW i \in 1 .. c - b PROVE q[i] = after[i]
    <3>0. k + i \in Nat
      BY <1>1
    <3>1. PICK j \in Nat : j = k + i
      BY <3>0
    <3>2. j \in 1 .. c - a /\ a + j = b + i
      BY <1>1, <3>1
    <3>3. q[i] = Says(ts[b + i])
      BY <1>5
    <3>4. r[j] = Says(ts[b + i])
      BY <1>4, <3>2
    <3>5. after[i] = r[j]
      BY <1>6, <3>1
    <3> QED
      BY <3>3, <3>4, <3>5
  <2> QED
    BY <1>5, <1>6, <2>1, SameSequence
<1> QED
  BY <1>7, <1>8 DEF passed, after

\* What has been passed is within the list, and is the position while the loop
\* runs and after an error.
LEMMA PassedType ==
    ASSUME TypeOK
    PROVE  /\ Passed \in 0 .. count /\ ListOK
           /\ phase \in {"run", "break"} \/ failed => Placed /\ Passed = position
           /\ phase \notin {"run", "break"} /\ ~failed => Passed = count
BY DEF TypeOK, Passed, Placed, ListOK

LEMMA PassedTypeNext ==
    ASSUME TypeOK'
    PROVE  /\ (Passed \in 0 .. count /\ ListOK)'
           /\ (phase \in {"run", "break"} \/ failed)' => Placed' /\ Passed' = position'
           /\ (phase \notin {"run", "break"} /\ ~failed)' => Passed' = count'
BY DEF TypeOK, Passed, Placed, ListOK

LEMMA PassMoves ==
    ASSUME TypeOK, TypeOK', UNCHANGED <<tokens, count>>,
           NEW k \in 0 .. count - Passed, Passed' = Passed + k
    PROVE  Out' = Out \o SubSeq(Rest, 1, k) /\ Rest' = SubSeq(Rest, k + 1, Len(Rest))
<1>1. /\ tokens \in Seq(Token) /\ Passed \in 0 .. Len(tokens) /\ Passed' \in Passed .. Len(tokens)
      /\ count \in Passed' .. Len(tokens) /\ k = Passed' - Passed
  BY PassedType, PassedTypeNext DEF ListOK
<1>2. Slice(tokens, 0, Passed, Out) /\ Slice(tokens, Passed, count, Rest)
  BY DEF Slice, Out, Rest
<1>3. Slice(tokens, 0, Passed', Out') /\ Slice(tokens, Passed', count, Rest')
  BY DEF Slice, Out, Rest
<1> QED
  BY ZenonT(40), <1>1, <1>2, <1>3, CutMoves


\* What is left begins with the token at the position.
LEMMA RestBegins ==
    ASSUME TypeOK, Placed, position < count
    PROVE  /\ Rest \in Seq(Lexeme) /\ Len(Rest) = count - position /\ Rest # <<>>
           /\ Expansion!First = Says(Current) /\ Rest[1] = Says(Current)
           /\ Current = tokens[position + 1] /\ Current \in Token
           /\ position \in Nat /\ count \in Nat
<1>1. /\ position \in Nat /\ count \in Nat /\ count > 0 /\ ListOK
  BY DEF TypeOK, ListOK
<1>2. Current = tokens[position + 1] /\ Current \in Token
  BY <1>1, AtToken DEF Current
<1>3. /\ Rest \in Seq(Lexeme) /\ Len(Rest) = count - position
      /\ \A i \in 1 .. count - position : Rest[i] = Says(tokens[position + i])
  BY RestSays
<1>4. 1 \in 1 .. count - position
  BY <1>1
<1>5. Rest[1] = Says(Current)
  BY <1>2, <1>3, <1>4
<1>6. Rest # <<>> /\ Head(Rest) = Rest[1]
  BY <1>1, <1>3
<1> QED
  BY <1>1, <1>2, <1>3, <1>5, <1>6 DEF Expansion!First

\* The token n places on.
LEMMA RestGoesOn ==
    ASSUME TypeOK, Placed, NEW n \in Nat, position + n < count
    PROVE  /\ Rest[n + 1] = Says(At(position + n))
           /\ At(position + n) = tokens[position + n + 1]
<1>1. /\ position \in Nat /\ count \in Nat /\ count > 0 /\ ListOK
  BY DEF TypeOK, ListOK
<1>2. At(position + n) = tokens[(position + n) + 1]
  BY <1>1, AtToken
<1>3. n + 1 \in 1 .. count - position /\ (position + n) + 1 = position + (n + 1)
  BY <1>1
<1>4. Rest[n + 1] = Says(tokens[position + (n + 1)])
  BY <1>3, RestSays
<1> QED
  BY <1>2, <1>3, <1>4

\* The definitions are those the table finds.
LEMMA DefsFound ==
    ASSUME TypeOK, NEW text
    PROVE  /\ text \in DOMAIN Defs <=> FindMacros(text) # 0
           /\ FindMacros(text) # 0 =>
                /\ Defs[text] = Plain(macroses[FindMacros(text)].value)
                /\ macroses[FindMacros(text)].value \in Seq(Token)
<1>1. macroses \in Seq(Macros) /\ DOMAIN macroses = 1 .. Len(macroses)
  BY DEF TypeOK
<1>2. FindMacros(text) = First(macroses, text)
  BY DEF FindMacros, First
<1>3. text \in Names <=> FindMacros(text) # 0
  <2>1. text \in Names <=> \E i \in 1 .. Len(macroses) : macroses[i].name = text
    BY <1>1 DEF Names
  <2> QED
    BY <1>1, <1>2, <2>1, FirstFound
<1>4. FindMacros(text) # 0 => macroses[FindMacros(text)] \in Macros
  BY <1>1, FindMacrosType
<1> QED
  BY <1>3, <1>4 DEF Defs, Macros

\* The guards of the rewriting are those of the code.
LEMMA SameGuards ==
    ASSUME TypeOK, Placed, position < count
    PROVE  /\ ~failed => Expansion!Going
           /\ Expansion!IsMacro <=> Expands
           /\ Expansion!IsString(Rest, 1) /\ Expansion!IsString(Out, Len(Out)) <=> Concatenates
           /\ Expansion!First.type = Current.type
<1>1. /\ Rest \in Seq(Lexeme) /\ Len(Rest) = count - position /\ Rest # <<>>
      /\ Expansion!First = Says(Current) /\ Rest[1] = Says(Current)
      /\ position \in Nat /\ count \in Nat
  BY RestBegins
<1>2. ~failed => Expansion!Going
  BY <1>1 DEF Expansion!Going
<1>3. Expansion!First.type = Current.type /\ Expansion!First.text = Current.text
  BY <1>1 DEF Says
<1>4. Expansion!IsMacro <=> Expands
  <2> DEFINE text == Current.text
             value == macroses[FindMacros(text)].value
  <2>1. /\ text \in DOMAIN Defs <=> FindMacros(text) # 0
        /\ FindMacros(text) # 0 => Defs[text] = Plain(value) /\ value \in Seq(Token)
    BY DefsFound
  <2>2. FindMacros(text) # 0 => (Plain(value) = <<>> <=> value = <<>>)
    <3> SUFFICES ASSUME FindMacros(text) # 0 PROVE Plain(value) = <<>> <=> value = <<>>
      OBVIOUS
    <3> HIDE DEF value
    <3>1. Plain(value) \in Seq(Lexeme) /\ Len(Plain(value)) = Len(value) /\ value \in Seq(Token)
      BY <2>1, PlainSays
    <3> QED
      BY <3>1
  <2>3. Expansion!IsMacro <=> /\ Current.type = "word" /\ text \in DOMAIN Defs
                              /\ Defs[text] # <<>>
    BY <1>3 DEF Expansion!IsMacro
  <2>4. Expands <=> /\ Current.type = "word" /\ FindMacros(text) # 0 /\ value # <<>>
    BY DEF Expands
  <2> HIDE DEF text, value
  <2> QED
    BY <2>1, <2>2, <2>3, <2>4
<1>5. Expansion!IsString(Rest, 1) <=> Current.type = "string"
  <2>1. 1 \in DOMAIN Rest
    BY <1>1
  <2> QED
    BY <1>1, <2>1 DEF Expansion!IsString, Says
<1>6. Expansion!IsString(Out, Len(Out)) <=> position > 0 /\ tokens[position].type = "string"
  <2>1. /\ Out \in Seq(Lexeme) /\ Len(Out) = position
        /\ \A i \in 1 .. position : Out[i] = Says(tokens[i])
    BY OutSays
  <2>2. DOMAIN Out = 1 .. position /\ (position \in 1 .. position <=> position > 0)
    BY <1>1, <2>1
  <2>3. position > 0 => Out[position].type = tokens[position].type
    BY <2>1, <2>2 DEF Says
  <2> QED
    BY <2>1, <2>2, <2>3 DEF Expansion!IsString
<1> QED
  BY <1>2, <1>3, <1>4, <1>5, <1>6 DEF Concatenates

\* The name of a directive.
LEMMA SameDirectives ==
    ASSUME TypeOK, Placed, position + 1 < count, NEW name
    PROVE  Expansion!IsDirective(name) <=> /\ Current.type = "prefix"
                                           /\ At(position + 1).text = <<name>>
<1>1. Len(Rest) = count - position /\ position \in Nat /\ count \in Nat
  BY RestBegins, position < count DEF TypeOK
<1>2. Expansion!First.type = Current.type
  BY <1>1, SameGuards
<1>3. Rest[1 + 1] = Says(At(position + 1))
  BY RestGoesOn
<1>4. Rest[2].text = At(position + 1).text /\ Len(Rest) > 1
  BY <1>1, <1>3 DEF Says
<1> QED
  BY <1>2, <1>4 DEF Expansion!IsDirective


\* The list after an edit of n tokens from the position on.
LEMMA Replaced ==
    ASSUME ListOK, NEW n \in 0 .. count - position, NEW new \in Seq(Token),
           tokens' = ReplaceTokens(position, n, new), count' = count - n + Len(new)
    PROVE  /\ \A i \in 1 .. position : tokens'[i] = tokens[i]
           /\ \A i \in 1 .. Len(new) : tokens'[position + i] = new[i]
           /\ \A i \in Len(new) + 1 .. count' - position :
                tokens'[position + i] = tokens[position + (i - Len(new) + n)]
<1> DEFINE size == count - n + Len(new)
           element(i) == IF i <= position THEN tokens[i]
                         ELSE IF i <= position + Len(new) THEN new[i - position]
                         ELSE tokens[i - Len(new) + n]
<1>1. tokens' = [i \in 1 .. size |-> element(i)]
  BY DEF ReplaceTokens
<1>2. /\ position \in Nat /\ count \in Nat /\ n \in Nat /\ Len(new) \in Nat /\ size \in Nat
      /\ n <= count - position /\ count' = size /\ position + Len(new) <= size
  BY DEF ListOK
<1>3. \A i \in 1 .. size : tokens'[i] = element(i)
  BY <1>1
<1>4. \A i \in 1 .. position : tokens'[i] = tokens[i]
  <2> TAKE i \in 1 .. position
  <2>1. i \in 1 .. size /\ i <= position
    BY <1>2
  <2> QED
    BY <1>3, <2>1
<1>5. \A i \in 1 .. Len(new) : tokens'[position + i] = new[i]
  <2> TAKE i \in 1 .. Len(new)
  <2>1. position + i \in Nat
    BY <1>2
  <2>2. PICK j \in Nat : j = position + i
    BY <2>1
  <2>3. j \in 1 .. size /\ ~(j <= position) /\ j <= position + Len(new) /\ j - position = i
    BY <1>2, <2>2
  <2>4. tokens'[j] = new[i]
    BY <1>3, <2>3
  <2> QED
    BY <2>2, <2>4
<1>6. \A i \in Len(new) + 1 .. count' - position :
        tokens'[position + i] = tokens[position + (i - Len(new) + n)]
  <2> TAKE i \in Len(new) + 1 .. count' - position
  <2>1. position + i \in Nat
    BY <1>2
  <2>2. PICK j \in Nat : j = position + i
    BY <2>1
  <2>3. /\ j \in 1 .. size /\ ~(j <= position) /\ ~(j <= position + Len(new))
        /\ j - Len(new) + n = position + (i - Len(new) + n)
    BY <1>2, <2>2
  <2>4. tokens'[j] = tokens[j - Len(new) + n]
    BY <1>3, <2>3
  <2> QED
    BY <2>2, <2>3, <2>4
<1> QED
  BY <1>4, <1>5, <1>6

LEMMA Removed ==
    ASSUME ListOK, NEW n \in 0 .. count - position, NEW ts,
           ts = RemoveTokens(position, n), count' = count - n
    PROVE  /\ \A i \in 1 .. position : ts[i] = tokens[i]
           /\ \A i \in 1 .. count' - position : ts[position + i] = tokens[position + (i + n)]
<1>1. \A i \in 1 .. Len(tokens) : ts[i] = IF position < i /\ i <= count - n THEN tokens[i + n]
                                          ELSE tokens[i]
  BY DEF RemoveTokens, ListOK
<1>2. /\ position \in Nat /\ count \in Nat /\ n \in Nat /\ Len(tokens) \in Nat
      /\ n <= count - position /\ count <= Len(tokens) /\ position <= Len(tokens)
      /\ count' = count - n
  BY DEF ListOK
<1>3. \A i \in 1 .. position : ts[i] = tokens[i]
  BY <1>1, <1>2
<1>4. \A i \in 1 .. count' - position : ts[position + i] = tokens[position + (i + n)]
  <2> TAKE i \in 1 .. count' - position
  <2>1. position + i \in Nat
    BY <1>2
  <2>2. PICK j \in Nat : j = position + i
    BY <2>1
  <2>3. j \in 1 .. Len(tokens) /\ position < j /\ j <= count - n /\ j + n = position + (i + n)
    BY <1>2, <2>2
  <2>4. ts[j] = tokens[j + n]
    BY <1>1, <2>3
  <2> QED
    BY <2>2, <2>3, <2>4
<1> QED
  BY <1>3, <1>4


\* What has been included while the loop runs are modules there are.
Simple == /\ TypeOK
          /\ phase = "run" => ~failed /\ ~Unknown

LEMMA EmitStep ==
    ASSUME TypeOK, TypeOK', Placed, position < count, ~failed,
           Current.type # "prefix", ~Expands, ~Concatenates,
           UNCHANGED <<tokens, count, macroses, included, failed>>, Passed' = Passed + 1
    PROVE  Expansion!Emit
<1>1. /\ Rest \in Seq(Lexeme) /\ Len(Rest) = count - position /\ Rest # <<>>
      /\ Expansion!First = Says(Current) /\ Rest[1] = Says(Current)
      /\ position \in Nat /\ count \in Nat
  BY RestBegins
<1>2. 1 \in 0 .. count - Passed
  BY <1>1 DEF Placed
<1>3. Out' = Out \o SubSeq(Rest, 1, 1) /\ Rest' = SubSeq(Rest, 1 + 1, Len(Rest))
  BY <1>2, PassMoves
<1>4. Out' = Append(Out, Expansion!First)
  <2>1. Out \in Seq(Lexeme)
    BY OutSays
  <2>2. SubSeq(Rest, 1, 1) = <<Rest[1]>> /\ Rest[1] \in Lexeme
    <3>1. Len(Rest) \in Nat /\ Len(Rest) >= 1
      BY <1>1
    <3>2. Rest[1] \in Lexeme
      BY <1>1, <3>1
    <3>3. /\ SubSeq(Rest, 1, 1) \in Seq(Lexeme) /\ Len(SubSeq(Rest, 1, 1)) = 1
          /\ SubSeq(Rest, 1, 1)[1] = Rest[1]
      BY <1>1, <3>1
    <3>4. /\ <<Rest[1]>> \in Seq(Lexeme) /\ Len(<<Rest[1]>>) = 1 /\ <<Rest[1]>>[1] = Rest[1]
      BY <3>2
    <3> DEFINE a == SubSeq(Rest, 1, 1)
               b == <<Rest[1]>>
    <3>5. a = b
      <4>1. /\ a \in Seq(Lexeme) /\ b \in Seq(Lexeme) /\ Len(a) = Len(b) /\ Len(a) = 1
            /\ a[1] = b[1]
        BY <3>3, <3>4
      <4> HIDE DEF a, b
      <4>2. \A i \in 1 .. Len(a) : a[i] = b[i]
        BY <4>1
      <4> QED
        BY <4>1, <4>2, SameSequence
    <3> QED
      BY <3>2, <3>5
  <2>3. Out \o <<Rest[1]>> = Append(Out, Rest[1])
    BY <2>1, <2>2
  <2> QED
    BY <1>1, <1>3, <2>2, <2>3
<1>5. UNCHANGED <<Defs, Seen, failed>>
  BY DefsSame DEF Seen
<1>6. /\ Expansion!Going /\ Expansion!First.type # "prefix" /\ ~Expansion!IsMacro
      /\ ~(Expansion!IsString(Rest, 1) /\ Expansion!IsString(Out, Len(Out)))
  BY SameGuards
<1> QED
  BY <1>3, <1>4, <1>5, <1>6 DEF Expansion!Emit, Expansion!After

\* The next token is a token of the source.
LEMMA SkipEmits ==
    ASSUME Simple, TypeOK', Skip
    PROVE  Expansion!Emit
<1>1. /\ phase = "run" /\ phase' = "run" /\ ~failed /\ position < count - 1 /\ position' = position + 1
      /\ UNCHANGED <<tokens, count, macroses, included, failed>>
      /\ Current.type # "prefix" /\ ~Expands /\ ~Concatenates
  BY DEF Simple, Skip, Looping
<1>2. TypeOK /\ position < count
  BY <1>1 DEF Simple, TypeOK
<1>3. Placed /\ Passed = position /\ Passed' = position'
  BY <1>1, <1>2, PassedType, PassedTypeNext
<1> QED
  BY <1>1, <1>2, <1>3, EmitStep

LEMMA OtherPasses ==
    ASSUME Simple, TypeOK', OtherDirective, Regular
    PROVE  Expansion!PassDirective
<1>1. /\ phase = "run" /\ phase' = "run" /\ ~failed /\ position < count - 1 /\ position' = position + 2
      /\ UNCHANGED <<tokens, count, macroses, included, failed>>
      /\ Current.type = "prefix" /\ At(position + 1).blk # NULL
  BY DEF Simple, OtherDirective, Looping, Regular
<1>2. TypeOK /\ position < count /\ position + 1 < count /\ position \in Nat /\ count \in Nat
  BY <1>1 DEF Simple, TypeOK
<1>3. Placed /\ Passed = position /\ Passed' = position'
  BY <1>1, <1>2, PassedType, PassedTypeNext
<1>4. 2 \in 0 .. count - Passed /\ Passed' = Passed + 2
  BY <1>1, <1>2, <1>3
<1>5. Out' = Out \o SubSeq(Rest, 1, 2) /\ Rest' = SubSeq(Rest, 2 + 1, Len(Rest))
  BY <1>1, <1>2, <1>4, PassMoves
<1>6. UNCHANGED <<Defs, Seen, failed>>
  BY <1>1, DefsSame DEF Seen
<1>7. Expansion!Going /\ Expansion!First.type = "prefix"
  BY <1>1, <1>2, <1>3, SameGuards
<1>8. ~Directive("include") /\ ~Directive("define")
  BY DEF OtherDirective
<1>9. /\ At(position + 1).text # <<"include">> /\ At(position + 1).text # <<"define">>
  BY <1>1, <1>8 DEF Directive
<1>10. ~Expansion!IsDirective("include") /\ ~Expansion!IsDirective("define")
  BY <1>2, <1>3, <1>9, SameDirectives
<1> QED
  BY <1>5, <1>6, <1>7, <1>10 DEF Expansion!PassDirective, Expansion!After

\* A body takes the place of its name.
LEMMA ExpandSubstitutes ==
    ASSUME Simple, TypeOK', Expand
    PROVE  Expansion!Substitute
<1>1. /\ phase = "run" /\ ~failed /\ position < count - 1 /\ Expands
      /\ UNCHANGED <<phase, position, macroses, included, failed>>
  BY DEF Simple, Expand, Looping
<1>2. TypeOK /\ ListOK /\ position < count /\ heap \in HeapType /\ position \in Nat /\ count \in Nat
  BY <1>1 DEF Simple, TypeOK, ListOK, HeapType
<1>3. Placed /\ Passed = position /\ Placed' /\ Passed' = position
  BY <1>1, <1>2, PassedType, PassedTypeNext
<1> DEFINE value == macroses[FindMacros(Current.text)].value
           h == FreeAll(Read(heap, Current.blk), <<Current.blk>>)
<1>4. value \in Seq(Token) /\ Defs[Current.text] = Plain(value)
  BY <1>1, <1>2, DefsFound DEF Expands
<1>5. h \in HeapType
  BY <1>2, ReadType, FreeAllType
<1>6. PICK lost \in 0 .. Len(value) :
        /\ tokens' = ReplaceTokens(position, 1, Clone(h, value, 0, lost))
        /\ count' = count - 1 + Len(value)
  BY DEF Expand
<1> HIDE DEF value, h
<1>7. lost \in Nat /\ Len(value) \in Nat
  BY <1>4
<1> DEFINE new == Clone(h, value, 0, lost)
<1>8. /\ new \in Seq(Token) /\ Len(new) = Len(value)
      /\ \A i \in 1 .. Len(value) : Says(new[i]) = Says(value[i])
  <2>1. new \in Seq(Token) /\ Len(new) = Len(value)
    BY <1>4, <1>5, <1>7, CloneType
  <2>2. ASSUME NEW i \in 1 .. Len(value) PROVE Says(new[i]) = Says(value[i])
    <3>1. value[i] \in Token
      BY <1>4
    <3> DEFINE b == IF i = lost THEN NULL ELSE Fresh(h, 0 + i)
    <3>2. new[i] = [value[i] EXCEPT !.blk = b]
      BY <1>4 DEF Clone
    <3> HIDE DEF b
    <3> QED
      BY <3>1, <3>2 DEF Says, Token
  <2> QED
    BY <2>1, <2>2
<1> HIDE DEF new
<1>9. /\ \A i \in 1 .. position : tokens'[i] = tokens[i]
      /\ \A i \in 1 .. Len(new) : tokens'[position + i] = new[i]
      /\ \A i \in Len(new) + 1 .. count' - position :
            tokens'[position + i] = tokens[position + (i - Len(new) + 1)]
  BY SMTT(30), <1>2, <1>6, <1>7, <1>8, Replaced DEF new
<1>10. 1 \in 0 .. count - position
  BY <1>2
<1>11. Plain(value) \in Seq(Lexeme) /\ Len(Plain(value)) = Len(value)
       /\ \A i \in 1 .. Len(value) : Plain(value)[i] = Says(value[i])
  BY <1>4, PlainSays
<1>12. Rest' = Plain(value) \o SubSeq(Rest, 1 + 1, Len(Rest))
  <2>1. \A i \in 1 .. Len(Plain(value)) : Says(tokens'[position + i]) = Plain(value)[i]
    BY <1>8, <1>9, <1>11
  <2>2. Splices(1, Plain(value))
    BY <1>6, <1>8, <1>9, <1>11, <2>1 DEF Splices
  <2> QED
    BY <1>1, <1>3, <1>10, <1>11, <2>2, RestSpliced
<1>13. Out' = Out
  BY <1>1, <1>3, <1>9, OutStays
<1>14. UNCHANGED <<Defs, Seen, failed>>
  BY <1>1, DefsSame DEF Seen
<1>15. Expansion!Going /\ Expansion!IsMacro
  BY <1>1, <1>2, <1>3, SameGuards
<1>16. Expansion!First.text = Current.text
  BY <1>2, <1>3, RestBegins DEF Says
<1> QED
  BY <1>4, <1>12, <1>13, <1>14, <1>15, <1>16 DEF Expansion!Substitute, Expansion!After


LEMMA NothingBefore ==
    ASSUME NEW T, NEW s \in Seq(T), NEW i \in 1 .. Len(s) + 1
    PROVE  <<>> \o SubSeq(s, i, Len(s)) = SubSeq(s, i, Len(s))
<1>1. SubSeq(s, i, Len(s)) \in Seq(T)
  OBVIOUS
<1> QED
  BY <1>1

\* A string is appended to the one before it.
LEMMA ConcatenateAppends ==
    ASSUME Simple, TypeOK', Concatenate
    PROVE  Expansion!Concatenate
<1> DEFINE joined == [type |-> "string", text |-> tokens[position].text \o Current.text,
                      blk |-> Fresh(heap, 1)]
           ts == RemoveTokens(position, 1)
<1>1. /\ phase = "run" /\ ~failed /\ position < count - 1 /\ Concatenates
      /\ tokens' = [ts EXCEPT ![position] = joined] /\ count' = count - 1
      /\ UNCHANGED <<phase, position, macroses, included, failed>>
  BY DEF Simple, Concatenate, Looping
<1>2. TypeOK /\ ListOK /\ position < count /\ position \in Nat /\ count \in Nat /\ position \in 1 .. count
  BY <1>1 DEF Simple, TypeOK, ListOK, Concatenates
<1>3. Placed /\ Passed = position /\ Placed' /\ Passed' = position
  BY <1>1, <1>2, PassedType, PassedTypeNext
<1>4. 1 \in 0 .. count - position
  BY <1>2
<1>5. /\ ts \in Seq(Token) /\ Len(ts) = Len(tokens) /\ Len(tokens) \in Nat
      /\ \A i \in 1 .. position : ts[i] = tokens[i]
      /\ \A i \in 1 .. count' - position : ts[position + i] = tokens[position + (i + 1)]
  <2>1. position \in 0 .. count /\ Len(tokens) \in Nat
    BY <1>2 DEF ListOK
  <2>2. ts \in Seq(Token) /\ Len(ts) = Len(tokens)
    BY <1>2, <1>4, <2>1, RemoveType
  <2>3. /\ \A i \in 1 .. position : ts[i] = tokens[i]
        /\ \A i \in 1 .. count' - position : ts[position + i] = tokens[position + (i + 1)]
    BY <1>1, <1>2, <1>4, Removed
  <2> QED
    BY <2>1, <2>2, <2>3
<1> HIDE DEF ts, joined
<1>6. /\ tokens'[position] = joined
      /\ \A i \in 1 .. position : i # position => tokens'[i] = tokens[i]
      /\ \A i \in 1 .. count' - position : tokens'[position + i] = tokens[position + (i + 1)]
  <2>1. position \in 1 .. Len(ts) /\ count <= Len(ts)
    BY <1>2, <1>5 DEF ListOK
  <2>2. tokens'[position] = joined /\ \A i \in 1 .. Len(ts) : i # position => tokens'[i] = ts[i]
    BY <1>1, <1>5, <2>1
  <2>3. \A i \in 1 .. position : i # position => tokens'[i] = tokens[i]
    BY <1>2, <1>5, <2>1, <2>2
  <2>4. ASSUME NEW i \in 1 .. count' - position
        PROVE  tokens'[position + i] = tokens[position + (i + 1)]
    <3>1. position + i \in 1 .. Len(ts) /\ position + i # position
      BY <1>1, <1>2, <1>5, <2>1
    <3> QED
      BY <1>5, <2>2, <3>1
  <2> QED
    BY <2>2, <2>3, <2>4
<1>7. Rest' = <<>> \o SubSeq(Rest, 1 + 1, Len(Rest))
  <2>1. Splices(1, <<>>)
    <3>1. \A i \in 0 + 1 .. count' - position :
            tokens'[position + i] = tokens[position + (i - 0 + 1)]
      BY <1>6
    <3>2. Len(<<>>) = 0 /\ count' = count - 1 + 0
      BY <1>1, <1>2
    <3> QED
      BY <3>1, <3>2 DEF Splices
  <2>2. <<>> \in Seq(Lexeme)
    OBVIOUS
  <2> QED
    BY <1>1, <1>3, <1>4, <2>1, <2>2, RestSpliced
<1>8. Rest' = SubSeq(Rest, 1 + 1, Len(Rest))
  BY <1>7, NothingBefore, RestBegins, <1>2, <1>3
<1>9. Out' = [Out EXCEPT ![Len(Out)].text = @ \o Expansion!First.text]
  <2>1. /\ Out \in Seq(Lexeme) /\ Len(Out) = position
        /\ \A i \in 1 .. position : Out[i] = Says(tokens[i])
    BY <1>3, OutSays
  <2>2. /\ Out' \in Seq(Lexeme) /\ Len(Out') = position
        /\ \A i \in 1 .. position : Out'[i] = Says(tokens'[i])
    BY <1>1, <1>3, OutSaysNext
  <2>3. Expansion!First.text = Current.text
    BY <1>2, <1>3, RestBegins DEF Says
  <2> DEFINE grown == [Out[position] EXCEPT !.text = @ \o Current.text]
  <2>4. tokens[position].type = "string"
    BY <1>1 DEF Concatenates
  <2>5. Out[position] = [type |-> "string", text |-> tokens[position].text]
    BY <1>2, <2>1, <2>4 DEF Says
  <2>6. Out'[position] = [type |-> "string", text |-> tokens[position].text \o Current.text]
    <3>1. position \in 1 .. position
      BY <1>2
    <3>2. Out'[position] = Says(joined)
      BY <1>6, <2>2, <3>1
    <3>3. joined.type = "string" /\ joined.text = tokens[position].text \o Current.text
      BY DEF joined
    <3> QED
      BY <3>2, <3>3 DEF Says
  <2>7. Out'[position] = grown
    <3> DEFINE x == tokens[position].text
               y == Current.text
    <3>1. grown = [type |-> "string", text |-> x \o y]
      <4>1. PICK r : r = Out[position]
        OBVIOUS
      <4>2. PICK t : t = r.text \o y
        OBVIOUS
      <4>3. grown = [r EXCEPT !.text = r.text \o y]
        BY <4>1 DEF grown
      <4> HIDE DEF x, y, grown
      <4>4. r = [type |-> "string", text |-> x]
        BY <2>5, <4>1 DEF x
      <4>5. t = x \o y
        BY <4>2, <4>4
      <4>6. grown = [r EXCEPT !.text = t]
        BY <4>2, <4>3
      <4> QED
        BY <4>4, <4>5, <4>6
    <3> QED
      BY <2>6, <3>1
  <2> HIDE DEF grown
  <2> DEFINE o == [Out EXCEPT ![position] = grown]
  <2>8. grown \in Lexeme
    BY <1>2, <2>2, <2>7
  <2>9. /\ o \in Seq(Lexeme) /\ Len(o) = position /\ o[position] = grown
        /\ \A i \in 1 .. position : i # position => o[i] = Out[i]
    BY <1>2, <2>1, <2>8
  <2>10. \A i \in 1 .. position : i # position => Out'[i] = Out[i]
    BY <1>6, <2>1, <2>2
  <2> HIDE DEF o
  <2>11. \A i \in 1 .. position : Out'[i] = o[i]
    BY <2>7, <2>9, <2>10
  <2>12. Out' = o
    BY <2>2, <2>9, <2>11, SameSequence
  <2> QED
    BY <2>1, <2>3, <2>12 DEF o, grown
<1>10. UNCHANGED <<Defs, Seen, failed>>
  BY <1>1, DefsSame DEF Seen
<1>11. Expansion!Going /\ Expansion!IsString(Rest, 1) /\ Expansion!IsString(Out, Len(Out))
  BY <1>1, <1>2, <1>3, SameGuards
<1> QED
  BY <1>8, <1>9, <1>10, <1>11 DEF Expansion!Concatenate, Expansion!After

\* A definition is the rest of its line.
LEMMA LineFound ==
    ASSUME ListOK, position + 3 <= count, ~EmptyBody,
           \E i \in position + 5 .. count : tokens[i].type = "new_line"
    PROVE  /\ BodyEnd \in position + 4 .. count - 1
           /\ tokens[BodyEnd + 1].type = "new_line"
           /\ \A i \in position + 4 .. BodyEnd : tokens[i].type # "new_line"
           /\ DirectiveCount = BodyEnd + 1 - position
           /\ BodyTokens = SubSeq(tokens, position + 4, BodyEnd)
<1>1. PICK line \in position + 5 .. count : tokens[line].type = "new_line"
  OBVIOUS
<1>2. /\ position \in Nat /\ count \in Nat /\ position + 5 <= count /\ line \in Nat
      /\ tokens \in Seq(Token) /\ count <= Len(tokens)
  BY <1>1 DEF ListOK
<1> DEFINE S == {i \in position + 3 .. count :
                    i >= count - 1 \/ tokens[i + 1].type = "new_line"}
           Ends1(i) == /\ i >= count - 1 \/ tokens[i + 1].type = "new_line"
                       /\ \A j \in position + 3 .. i - 1 :
                            j < count - 1 /\ tokens[j + 1].type # "new_line"
<1>3. S \in SUBSET Nat /\ count \in S
  BY <1>2
<1>4. PICK e \in S : \A j \in S : e <= j
  BY <1>3, Least
<1>5. Ends1(e) /\ e \in position + 3 .. count
  BY <1>2, <1>3, <1>4
<1> HIDE DEF Ends1
<1>6. BodyEnd \in position + 3 .. count /\ Ends1(BodyEnd)
  BY <1>5 DEF BodyEnd, Ends1
<1>7. PICK b \in Nat : b = BodyEnd
  BY <1>2, <1>6
<1>8. /\ b \in position + 3 .. count
      /\ b >= count - 1 \/ tokens[b + 1].type = "new_line"
      /\ \A j \in position + 3 .. b - 1 : j < count - 1 /\ tokens[j + 1].type # "new_line"
  BY <1>6, <1>7 DEF Ends1
<1>9. b <= count - 1
  <2>1. count - 1 \in position + 3 .. b - 1 => count - 1 < count - 1
    BY <1>8
  <2> QED
    BY <1>2, <1>8, <2>1
<1>10. \A i \in position + 4 .. b : tokens[i].type # "new_line"
  <2> TAKE i \in position + 4 .. b
  <2>0. i - 1 \in Nat
    BY <1>2, <1>8
  <2>1. PICK j \in Nat : j = i - 1
    BY <2>0
  <2>2. j \in position + 3 .. b - 1 /\ j + 1 = i
    BY <1>2, <1>8, <2>1
  <2> QED
    BY <1>8, <2>2
<1>11. tokens[b + 1].type = "new_line"
  <2>1. CASE b = count - 1
    <3>1. ~(line \in position + 4 .. b)
      BY <1>1, <1>10
    <3>2. line = count /\ b + 1 = count
      BY <1>1, <1>2, <1>9, <2>1, <3>1
    <3> QED
      BY <1>1, <3>2
  <2> QED
    BY <1>2, <1>8, <1>9, <2>1
<1>12. b # position + 3
  <2>1. position + 3 < count - 1
    BY <1>2
  <2>2. At(position + 3) = tokens[(position + 3) + 1]
    BY <1>2, <2>1 DEF At
  <2>3. tokens[(position + 3) + 1].type # "new_line"
    BY <2>2 DEF EmptyBody
  <2> QED
    BY <1>11, <2>3
<1>13. BodyTokens = SubSeq(tokens, position + 4, b) /\ AfterBody = b
  BY <1>7 DEF BodyTokens, AfterBody
<1>14. Len(BodyTokens) = b - (position + 3)
  BY <1>2, <1>8, <1>9, <1>13
<1>15. DirectiveCount = b + 1 - position
  BY <1>2, <1>8, <1>9, <1>11, <1>13, <1>14 DEF DirectiveCount
<1>16. b \in position + 4 .. count - 1
  BY <1>2, <1>8, <1>9, <1>12
<1> QED
  BY <1>7, <1>10, <1>11, <1>13, <1>15, <1>16


LEMMA DefineDefines ==
    ASSUME Simple, TypeOK', Define, Regular
    PROVE  Expansion!Define
<1>1. /\ phase = "run" /\ ~failed /\ position < count - 1 /\ Looping /\ Defines /\ ~Truncated
      /\ tokens' = RemoveTokens(position, DirectiveCount) /\ count' = count - DirectiveCount
      /\ UNCHANGED <<phase, position, included, failed>>
  BY DEF Simple, Define, Looping
<1>2. TypeOK /\ ListOK /\ position < count /\ heap \in HeapType /\ position \in Nat /\ count \in Nat
      /\ tokens \in Seq(Token) /\ count <= Len(tokens) /\ Len(tokens) \in Nat
  BY <1>1 DEF Simple, TypeOK, ListOK, HeapType
<1>3. Placed /\ Passed = position /\ Placed' /\ Passed' = position
  BY <1>1, <1>2, PassedType, PassedTypeNext
<1>4. ~EmptyBody /\ (\E i \in position + 5 .. count : tokens[i].type = "new_line")
      /\ position + 3 <= count
  BY <1>1, <1>2 DEF Regular, Truncated
<1> DEFINE n == DirectiveCount
<1>5. /\ BodyEnd \in position + 4 .. count - 1
      /\ tokens[BodyEnd + 1].type = "new_line"
      /\ \A i \in position + 4 .. BodyEnd : tokens[i].type # "new_line"
      /\ n = BodyEnd + 1 - position
      /\ BodyTokens = SubSeq(tokens, position + 4, BodyEnd)
  BY <1>2, <1>4, LineFound
<1> HIDE DEF n
<1>6. /\ n \in 5 .. count - position /\ n \in 4 .. count - position /\ n \in 0 .. count - position
      /\ n \in Nat /\ position + 4 < count /\ BodyEnd \in Nat /\ BodyEnd = position + n - 1
  BY <1>2, <1>5
<1>7. /\ Rest \in Seq(Lexeme) /\ Len(Rest) = count - position
      /\ \A i \in 1 .. count - position : Rest[i] = Says(tokens[position + i])
  BY <1>3, RestSays
<1>8. Rest[n].type = "new_line" /\ \A i \in 4 .. n - 1 : Rest[i].type # "new_line"
  <2>1. Rest[n].type = "new_line"
    <3>1. n \in 1 .. count - position /\ position + n = BodyEnd + 1
      BY <1>2, <1>5, <1>6
    <3> QED
      BY <1>5, <1>7, <3>1 DEF Says
  <2>2. ASSUME NEW i \in 4 .. n - 1 PROVE Rest[i].type # "new_line"
    <3>0. position + i \in Nat
      BY <1>2
    <3>1. PICK j \in Nat : j = position + i
      BY <3>0
    <3>2. i \in 1 .. count - position /\ j \in position + 4 .. BodyEnd
      BY <1>2, <1>6, <3>1
    <3>3. Rest[i] = Says(tokens[j])
      BY <1>7, <3>1, <3>2
    <3> QED
      BY <1>5, <3>2, <3>3 DEF Says
  <2> QED
    BY <2>1, <2>2
<1>9. Rest' = <<>> \o SubSeq(Rest, n + 1, Len(Rest)) /\ Out' = Out
  <2>1. /\ \A i \in 1 .. position : tokens'[i] = tokens[i]
        /\ \A i \in 1 .. count' - position : tokens'[position + i] = tokens[position + (i + n)]
    BY <1>1, <1>2, <1>6, Removed DEF n
  <2>2. Splices(n, <<>>)
    <3>1. \A i \in 0 + 1 .. count' - position :
            tokens'[position + i] = tokens[position + (i - 0 + n)]
      BY <2>1
    <3>2. Len(<<>>) = 0 /\ count' = count - n + 0
      BY <1>1, <1>2, <1>6 DEF n
    <3> QED
      BY <3>1, <3>2 DEF Splices
  <2>3. <<>> \in Seq(Lexeme)
    OBVIOUS
  <2>4. Rest' = <<>> \o SubSeq(Rest, n + 1, Len(Rest))
    BY <1>1, <1>3, <1>6, <2>2, <2>3, RestSpliced
  <2>5. Out' = Out
    BY <1>1, <1>3, <2>1, OutStays
  <2> QED
    BY <2>4, <2>5
<1>10. Rest' = SubSeq(Rest, n + 1, Len(Rest))
  <2>1. n + 1 \in 1 .. Len(Rest) + 1
    BY <1>2, <1>6, <1>7
  <2> QED
    BY <1>7, <1>9, <2>1, NothingBefore
<1>11. PICK lost \in 0 .. Len(BodyTokens) :
         macroses' = Append(macroses,
                [name |-> At(position + 2).text, blk |-> Fresh(heap, 1),
                 value |-> Clone(heap, BodyTokens, 1, lost)])
  BY DEF Define
<1>12. /\ BodyTokens \in Seq(Token) /\ Len(BodyTokens) = n - 4
       /\ \A i \in 1 .. n - 4 : BodyTokens[i] = tokens[position + 3 + i]
  <2>1. PICK from \in Nat : from = position + 3
    BY <1>2
  <2>2. PICK to \in Nat : to = BodyEnd
    BY <1>6
  <2>3. /\ from \in 0 .. Len(tokens) /\ to \in from .. Len(tokens) /\ to - from = n - 4
        /\ from + 1 = position + 4
    BY <1>2, <1>6, <2>1, <2>2
  <2>4. /\ SubSeq(tokens, from + 1, to) \in Seq(Token)
        /\ Len(SubSeq(tokens, from + 1, to)) = to - from
        /\ \A i \in 1 .. to - from : SubSeq(tokens, from + 1, to)[i] = tokens[from + i]
    BY <1>2, <2>3
  <2> QED
    BY <1>5, <2>1, <2>2, <2>3, <2>4
<1>13. lost \in Nat
  BY <1>12
<1> DEFINE value == Clone(heap, BodyTokens, 1, lost)
           name == At(position + 2).text
           macro == [name |-> name, blk |-> Fresh(heap, 1), value |-> value]
<1>14. value \in Seq(Token) /\ Len(value) = n - 4
       /\ \A i \in 1 .. n - 4 : Says(value[i]) = Says(BodyTokens[i])
  <2>1. value \in Seq(Token) /\ Len(value) = n - 4
    BY <1>2, <1>12, <1>13, CloneType
  <2>2. ASSUME NEW i \in 1 .. n - 4 PROVE Says(value[i]) = Says(BodyTokens[i])
    <3>1. BodyTokens[i] \in Token /\ i \in 1 .. Len(BodyTokens)
      BY <1>12
    <3> DEFINE b == IF i = lost THEN NULL ELSE Fresh(heap, 1 + i)
    <3>2. value[i] = [BodyTokens[i] EXCEPT !.blk = b]
      BY <1>12, <3>1 DEF Clone
    <3> HIDE DEF b, value
    <3> QED
      BY <3>1, <3>2 DEF Says, Token
  <2> QED
    BY <2>1, <2>2
<1>15. name = Rest[3].text /\ Rest[3].type = "word" /\ macro \in Macros
  <2>1. position + 2 < count
    BY <1>2, <1>6
  <2>2. Rest[2 + 1] = Says(At(position + 2))
    BY <1>2, <1>3, <2>1, RestGoesOn
  <2>3. name = Rest[3].text /\ Rest[3].type = "word"
    BY <1>1, <2>2 DEF Says, Defines
  <2>4. At(position + 2) \in Token /\ Fresh(heap, 1) \in Nat
    BY <1>2, AtToken DEF Fresh, HeapType
  <2> HIDE DEF value
  <2> QED
    BY <1>14, <2>3, <2>4 DEF Macros, Token
<1> HIDE DEF value, name
<1>16. Defs' = [m \in DOMAIN Defs \cup {name} |->
                    IF m \in DOMAIN Defs THEN Defs[m] ELSE Plain(value)]
  <2>1. macroses' = Append(macroses, macro)
    BY <1>11 DEF value, name
  <2> QED
    BY <1>2, <1>14, <1>15, <2>1, DefsGrow
<1>17. Plain(value) = SubSeq(Rest, 4, n - 1)
  <2> DEFINE body == SubSeq(Rest, 4, n - 1)
             p == Plain(value)
  <2>1. /\ p \in Seq(Lexeme) /\ Len(p) = n - 4
        /\ \A i \in 1 .. n - 4 : p[i] = Says(value[i])
    BY <1>14, PlainSays
  <2>2. /\ body \in Seq(Lexeme) /\ Len(body) = n - 4
        /\ \A i \in 1 .. n - 4 : body[i] = Rest[3 + i]
    BY <1>2, <1>6, <1>7
  <2> HIDE DEF body, p
  <2>3. ASSUME NEW i \in 1 .. n - 4 PROVE p[i] = body[i]
    <3>0. 3 + i \in Nat
      BY <1>6
    <3>1. PICK j \in Nat : j = 3 + i
      BY <3>0
    <3>2. j \in 1 .. count - position /\ position + j = position + 3 + i
      BY <1>2, <1>6, <3>1
    <3>3. Rest[j] = Says(tokens[position + j])
      BY <1>7, <3>2
    <3>4. body[i] = Rest[j]
      BY <2>2, <3>1
    <3>5. p[i] = Says(BodyTokens[i]) /\ BodyTokens[i] = tokens[position + 3 + i]
      BY <1>12, <1>14, <2>1
    <3> QED
      BY <3>2, <3>3, <3>4, <3>5
  <2>4. p = body
    BY <2>1, <2>2, <2>3, SameSequence
  <2> QED
    BY <2>4 DEF p, body
<1>18. UNCHANGED <<Out, Seen, failed>>
  BY <1>1, <1>9 DEF Seen
<1>19. Expansion!Going /\ Expansion!IsDirective("define")
  <2>1. position + 1 < count
    BY <1>1, <1>2
  <2>2. Current.type = "prefix" /\ At(position + 1).text = <<"define">>
    BY <1>1 DEF Defines, Directive
  <2> QED
    BY <1>1, <1>2, <1>3, <2>1, <2>2, SameGuards, SameDirectives
<1>20. n \in 4 .. Len(Rest)
  BY <1>6, <1>7
<1> QED
  BY <1>8, <1>10, <1>15, <1>16, <1>17, <1>18, <1>19, <1>20 DEF Expansion!Define, Expansion!After


\* A name added to those included.
LEMMA SeenGrows ==
    ASSUME included \in Seq(Named), NEW m \in DOMAIN Module, NEW b,
           included' = Append(included, [name |-> ModuleName, blk |-> b]), ModuleName = <<m>>
    PROVE  Seen' = Seen \cup {m}
<1>1. /\ DOMAIN included = 1 .. Len(included) /\ DOMAIN included' = 1 .. Len(included) + 1
      /\ \A i \in 1 .. Len(included) : included'[i] = included[i]
      /\ included'[Len(included) + 1].name = <<m>> /\ Len(included) \in Nat
  OBVIOUS
<1>2. ASSUME NEW k \in DOMAIN Module
      PROVE  (\E i \in DOMAIN included' : included'[i].name = <<k>>)
                <=> (\E i \in DOMAIN included : included[i].name = <<k>>) \/ k = m
  <2>1. <<m>> = <<k>> <=> k = m
    OBVIOUS
  <2>2. ASSUME NEW i \in DOMAIN included', included'[i].name = <<k>>
        PROVE  (\E j \in DOMAIN included : included[j].name = <<k>>) \/ k = m
    <3>1. i \in 1 .. Len(included) \/ i = Len(included) + 1
      BY <1>1
    <3> QED
      BY <1>1, <2>1, <2>2, <3>1
  <2>3. (\E j \in DOMAIN included : included[j].name = <<k>>)
            => \E i \in DOMAIN included' : included'[i].name = <<k>>
    BY <1>1
  <2>4. k = m => \E i \in DOMAIN included' : included'[i].name = <<k>>
    <3>1. Len(included) + 1 \in DOMAIN included'
      BY <1>1
    <3> QED
      BY <1>1, <3>1
  <2> QED
    BY <2>2, <2>3, <2>4
<1>3. Seen' = {k \in DOMAIN Module : \E i \in DOMAIN included' : included'[i].name = <<k>>}
  BY DEF Seen
<1> QED
  BY <1>2, <1>3 DEF Seen


\* The name between the brackets is the fourth token of what is left.
LEMMA ModuleNamed ==
    ASSUME TypeOK, Looping, Includes
    PROVE  /\ Rest[4].text = ModuleName /\ Expansion!IsDirective("include")
           /\ Rest[3].type = "less" /\ Rest[4].type = "word" /\ Rest[5].type = "greater"
           /\ Placed /\ Passed = position /\ IncludeCount \in 0 .. count - position
           /\ IncludeCount + 1 \in 1 .. Len(Rest) + 1 /\ Rest \in Seq(Lexeme)
           /\ position \in Nat /\ count \in Nat
<1>1. /\ phase = "run" /\ position < count - 1
      /\ Current.type = "prefix" /\ At(position + 1).text = <<"include">>
  BY DEF Looping, Includes, Directive
<1>2. position \in Nat /\ count \in Nat /\ position < count /\ position + 1 < count
  BY <1>1 DEF TypeOK
<1>3. Placed /\ Passed = position /\ ListOK
  BY <1>1, PassedType
<1>4. position + 5 <= count /\ position + 2 < count /\ position + 3 < count /\ position + 4 < count
  BY <1>2, <1>3, IncludeBounds DEF IncludeCount
<1>5. /\ Rest[2 + 1] = Says(At(position + 2)) /\ Rest[3 + 1] = Says(At(position + 3))
      /\ Rest[4 + 1] = Says(At(position + 4))
  BY <1>3, <1>4, RestGoesOn
<1>6. /\ Rest[4].text = ModuleName
      /\ Rest[3].type = "less" /\ Rest[4].type = "word" /\ Rest[5].type = "greater"
  BY <1>5 DEF ModuleName, Says, Includes
<1>7. Expansion!IsDirective("include")
  BY <1>1, <1>2, <1>3, SameDirectives
<1>8. Rest \in Seq(Lexeme) /\ Len(Rest) = count - position
  BY <1>2, <1>3, RestBegins
<1> QED
  BY <1>2, <1>3, <1>4, <1>6, <1>7, <1>8 DEF IncludeCount

\* A module takes the place of its directive once.
LEMMA IncludeIncludes ==
    ASSUME Simple, TypeOK', Include
    PROVE  Expansion!Include
<1>1. /\ phase = "run" /\ ~failed /\ position < count - 1 /\ Looping /\ Includes /\ ~IsIncluded /\ Known
      /\ included' = AddIncluded /\ UNCHANGED <<phase, position, macroses, failed>>
  BY DEF Simple, Include, Looping
<1>2. TypeOK /\ ListOK /\ position < count /\ heap \in HeapType
  BY <1>1 DEF Simple, TypeOK, ListOK, HeapType
<1>3. /\ Rest[4].text = ModuleName /\ Expansion!IsDirective("include")
      /\ Rest[3].type = "less" /\ Rest[4].type = "word" /\ Rest[5].type = "greater"
      /\ Placed /\ Passed = position /\ IncludeCount \in 0 .. count - position
      /\ IncludeCount + 1 \in 1 .. Len(Rest) + 1 /\ Rest \in Seq(Lexeme)
      /\ position \in Nat /\ count \in Nat
  BY <1>1, <1>2, ModuleNamed
<1>4. Placed' /\ Passed' = position
  BY <1>1, PassedTypeNext
<1>5. PICK m \in DOMAIN Module : ModuleName = <<m>>
  BY <1>1 DEF Known
<1> DEFINE ts == Module[m]
           new == Lexed(heap, ts, 1)
<1>6. /\ ts \in Seq(Lexeme) /\ Len(ts) \in Nat
      /\ tokens' = ReplaceTokens(position, IncludeCount, new) /\ count' = count - IncludeCount + Len(ts)
  <2>1. Head(ModuleName) = m
    BY <1>5
  <2>2. ts \in Seq(Lexeme)
    BY ModuleAssumption
  <2> QED
    BY <2>1, <2>2 DEF Include
<1>7. /\ new \in Seq(Token) /\ Len(new) = Len(ts)
      /\ \A i \in 1 .. Len(ts) : Says(new[i]) = ts[i]
  <2>1. new \in Seq(Token) /\ Len(new) = Len(ts)
    BY <1>2, <1>6, LexedType
  <2>2. ASSUME NEW i \in 1 .. Len(ts) PROVE Says(new[i]) = ts[i]
    <3>1. ts[i] \in Lexeme
      BY <1>6
    <3>2. new[i] = [type |-> ts[i].type, text |-> ts[i].text, blk |-> Fresh(heap, 1 + i)]
      BY <1>6 DEF Lexed
    <3>3. PICK t \in Lexeme : t = ts[i]
      BY <3>1
    <3>4. Says(new[i]) = [type |-> t.type, text |-> t.text]
      BY <3>2, <3>3 DEF Says
    <3>5. t = [type |-> t.type, text |-> t.text]
      BY DEF Lexeme
    <3> QED
      BY <3>3, <3>4, <3>5
  <2> QED
    BY <2>1, <2>2
<1> HIDE DEF new, ts
<1>8. /\ \A i \in 1 .. position : tokens'[i] = tokens[i]
      /\ \A i \in 1 .. Len(new) : tokens'[position + i] = new[i]
      /\ \A i \in Len(new) + 1 .. count' - position :
            tokens'[position + i] = tokens[position + (i - Len(new) + IncludeCount)]
  BY <1>2, <1>3, <1>6, <1>7, Replaced
<1>9. Rest' = ts \o SubSeq(Rest, IncludeCount + 1, Len(Rest))
  <2>1. \A i \in 1 .. Len(ts) : Says(tokens'[position + i]) = ts[i]
    BY <1>7, <1>8
  <2>2. Splices(IncludeCount, ts)
    BY <1>6, <1>7, <1>8, <2>1 DEF Splices
  <2> QED
    BY <1>1, <1>3, <1>4, <1>6, <2>2, RestSpliced
<1>10. Out' = Out
  BY <1>1, <1>3, <1>4, <1>8, OutStays
<1>11. UNCHANGED <<Out, Defs, failed>>
  BY <1>1, <1>10, DefsSame
<1>12. m \notin Seen
  BY <1>1, <1>5 DEF IsIncluded, Seen
<1>13. Seen' = Seen \cup {m}
  BY <1>1, <1>2, <1>5, SeenGrows DEF AddIncluded, TypeOK
<1>14. Expansion!Going
  BY <1>1, <1>2, <1>3, SameGuards
<1> QED
  BY <1>3, <1>5, <1>9, <1>11, <1>12, <1>13, <1>14 DEF Expansion!Include, Expansion!After, IncludeCount, ts

\* The second time, the directive is removed.
LEMMA IncludeAgainIncludes ==
    ASSUME Simple, TypeOK', IncludeAgain
    PROVE  Expansion!Include
<1>1. /\ phase = "run" /\ phase' = "break" /\ ~failed /\ position < count - 1 /\ Looping /\ Includes
      /\ IsIncluded /\ ~Unknown /\ tokens' = RemoveTokens(position, IncludeCount)
      /\ count' = count - IncludeCount
      /\ UNCHANGED <<position, macroses, included>> /\ failed' = (failed \/ FALSE)
  BY DEF Simple, IncludeAgain, Looping, Break
<1>2. TypeOK /\ ListOK /\ position < count /\ failed \in BOOLEAN
  BY <1>1 DEF Simple, TypeOK, ListOK
<1>3. /\ Rest[4].text = ModuleName /\ Expansion!IsDirective("include")
      /\ Rest[3].type = "less" /\ Rest[4].type = "word" /\ Rest[5].type = "greater"
      /\ Placed /\ Passed = position /\ IncludeCount \in 0 .. count - position
      /\ IncludeCount + 1 \in 1 .. Len(Rest) + 1 /\ Rest \in Seq(Lexeme)
      /\ position \in Nat /\ count \in Nat
  BY <1>1, <1>2, ModuleNamed
<1>4. Placed' /\ Passed' = position
  BY <1>1, PassedTypeNext
<1>5. PICK i \in DOMAIN included : included[i].name = ModuleName
  BY <1>1 DEF IsIncluded
<1>6. PICK m \in DOMAIN Module : included[i].name = <<m>>
  BY <1>1 DEF Unknown
<1>7. ModuleName = <<m>> /\ m \in Seen
  BY <1>5, <1>6 DEF Seen
<1>8. /\ \A j \in 1 .. position : tokens'[j] = tokens[j]
      /\ \A j \in 1 .. count' - position : tokens'[position + j] = tokens[position + (j + IncludeCount)]
  BY <1>1, <1>2, <1>3, Removed
<1>9. Rest' = <<>> \o SubSeq(Rest, IncludeCount + 1, Len(Rest))
  <2>1. Splices(IncludeCount, <<>>)
    <3>1. \A j \in 0 + 1 .. count' - position :
            tokens'[position + j] = tokens[position + (j - 0 + IncludeCount)]
      BY <1>8
    <3>2. Len(<<>>) = 0 /\ count' = count - IncludeCount + 0
      BY <1>1, <1>3 DEF IncludeCount
    <3> QED
      BY <3>1, <3>2 DEF Splices
  <2>2. <<>> \in Seq(Lexeme)
    OBVIOUS
  <2> QED
    BY <1>1, <1>3, <1>4, <2>1, <2>2, RestSpliced
<1>10. Out' = Out
  BY <1>1, <1>3, <1>4, <1>8, OutStays
<1>11. UNCHANGED <<Out, Defs, Seen, failed>>
  BY <1>1, <1>2, <1>10, DefsSame DEF Seen
<1>12. Seen' = Seen \cup {m}
  BY <1>7, <1>11
<1>13. Expansion!Going
  BY <1>1, <1>2, <1>3, SameGuards
<1> QED
  BY <1>3, <1>7, <1>9, <1>11, <1>12, <1>13 DEF Expansion!Include, Expansion!After, IncludeCount


\* An error stops it and leaves both parts.
LEMMA ErrorFails ==
    ASSUME Simple, TypeOK', SyntaxError \/ OutOfMemory \/ IncludeAbandoned
    PROVE  Expansion!Fail
<1>1. /\ phase = "run" /\ phase' = "break" /\ ~failed /\ failed' = (failed \/ TRUE)
      /\ UNCHANGED <<tokens, count, position, macroses>>
  BY DEF Simple, SyntaxError, OutOfMemory, IncludeAbandoned, Looping, Break
<1>2. TypeOK /\ failed'
  BY <1>1 DEF Simple
<1>3. Passed = position /\ Passed' = position
  BY <1>1, <1>2, PassedType, PassedTypeNext
<1>4. UNCHANGED <<Out, Rest, Defs>>
  BY <1>1, <1>3, DefsSame DEF Out, Rest
<1>5. Seen \subseteq Seen'
  <2>1. included' = included \/ included' = AddIncluded
    BY DEF SyntaxError, OutOfMemory, IncludeAbandoned
  <2>2. \A i \in DOMAIN included : i \in DOMAIN included' /\ included'[i] = included[i]
    <3>1. included \in Seq(Named)
      BY <1>2 DEF TypeOK
    <3> QED
      BY <2>1, <3>1 DEF AddIncluded
  <2>3. Seen' = {m \in DOMAIN Module : \E i \in DOMAIN included' : included'[i].name = <<m>>}
    BY DEF Seen
  <2> QED
    BY <2>2, <2>3 DEF Seen
<1>6. Seen' \in SUBSET DOMAIN Module
  BY DEF Seen
<1> QED
  BY <1>1, <1>2, <1>4, <1>5, <1>6 DEF Expansion!Fail

\* The end of the loop passes the last token; the tables and the list are then
\* given back.
LEMMA EndEmits ==
    ASSUME Simple, TypeOK', Regular, FreeTables \/ DestroyList
    PROVE  Expansion!Emit \/ UNCHANGED <<Out, Rest, Defs, Seen, failed>>
<1>1. TypeOK /\ UNCHANGED <<tokens, count, position, macroses, included, failed>>
  BY DEF Simple, FreeTables, DestroyList
<1>2. UNCHANGED <<Defs, Seen, failed>>
  BY <1>1, DefsSame DEF Seen
<1>3. Passed' = Passed => UNCHANGED <<Out, Rest>>
  BY <1>1 DEF Out, Rest
<1>4. CASE DestroyList
  <2>1. phase = "list" /\ phase' = "done"
    BY <1>4 DEF DestroyList
  <2>2. Passed' = Passed
    BY <1>1, <2>1 DEF Passed
  <2> QED
    BY <1>2, <1>3, <2>2
<1>5. CASE FreeTables /\ Overruns
  <2>1. phase' = phase
    BY <1>5 DEF FreeTables
  <2>2. Passed' = Passed
    BY <1>1, <2>1 DEF Passed
  <2> QED
    BY <1>2, <1>3, <2>2
<1>6. CASE FreeTables /\ ~Overruns
  <2>1. Ends /\ phase \in {"run", "break"} /\ phase' = "list"
    BY <1>6 DEF FreeTables, Ends
  <2>2. Placed /\ Passed = position
    BY <1>1, <2>1, PassedType
  <2>3. position \in 0 .. count /\ count \in Nat
    BY <1>1 DEF TypeOK
  <2>4. CASE failed
    <3>1. Passed' = position
      BY <1>1, <2>1, <2>4, PassedTypeNext
    <3> QED
      BY <1>2, <1>3, <2>2, <3>1
  <2>5. CASE ~failed
    <3>1. Passed' = count
      BY <1>1, <2>1, <2>5, PassedTypeNext
    <3>2. CASE position = count
      BY <1>2, <1>3, <2>2, <3>1, <3>2
    <3>3. CASE position < count
      <4>1. /\ position = count - 1
            /\ Current.type # "prefix" /\ ~Expands /\ ~Concatenates
        BY <2>1, <2>5, <3>3 DEF Regular
      <4>2. Passed' = Passed + 1
        BY <2>2, <2>3, <3>1, <4>1
      <4> QED
        BY <1>1, <2>2, <2>5, <3>3, <4>1, <4>2, EmitStep
    <3> QED
      BY <2>3, <3>2, <3>3
  <2> QED
    BY <2>4, <2>5
<1> QED
  BY <1>4, <1>5, <1>6

LEMMA InitExpands == Init => Simple /\ Expansion!Init
<1> SUFFICES ASSUME Init PROVE Simple /\ Expansion!Init
  OBVIOUS
<1>1. PICK source \in Source : tokens = Lexed(EmptyHeap, source, 0) /\ count = Len(source)
  BY DEF Init
<1>2. /\ phase = "run" /\ position = 0 /\ failed = FALSE /\ macroses = <<>> /\ included = <<>>
  BY DEF Init
<1>3. TypeOK
  BY InitType
<1>4. Simple
  BY <1>2, <1>3 DEF Simple, Unknown
<1>5. source \in Seq(Lexeme) /\ Len(source) \in Nat
  BY SourceAssumption
<1>6. Placed /\ Passed = 0
  BY <1>2, <1>3, PassedType
<1>7. Out = <<>>
  BY <1>2, <1>6, OutSays
<1>8. Rest = source
  <2>1. /\ Rest \in Seq(Lexeme) /\ Len(Rest) = Len(source)
        /\ \A i \in 1 .. Len(source) : Rest[i] = Says(tokens[i])
    <3>1. /\ Rest \in Seq(Lexeme) /\ Len(Rest) = count - position
          /\ \A i \in 1 .. count - position : Rest[i] = Says(tokens[position + i])
      BY <1>6, RestSays
    <3> QED
      BY <1>1, <1>2, <1>5, <3>1
  <2>2. ASSUME NEW i \in 1 .. Len(source) PROVE Rest[i] = source[i]
    <3>1. PICK t \in Lexeme : t = source[i]
      BY <1>5
    <3>2. tokens[i] = [type |-> t.type, text |-> t.text, blk |-> Fresh(EmptyHeap, 0 + i)]
      BY <1>1, <1>5, <3>1 DEF Lexed
    <3>3. Says(tokens[i]) = [type |-> t.type, text |-> t.text]
      BY <3>2 DEF Says
    <3>4. t = [type |-> t.type, text |-> t.text]
      BY DEF Lexeme
    <3> QED
      BY <2>1, <3>1, <3>3, <3>4
  <2> QED
    BY <1>5, <2>1, <2>2, SameSequence
<1>9. Defs = <<>>
  <2>1. Names = {}
    BY <1>2 DEF Names
  <2> QED
    BY <2>1 DEF Defs
<1>10. Seen = {}
  BY <1>2 DEF Seen
<1> QED
  BY <1>1, <1>2, <1>4, <1>7, <1>8, <1>9, <1>10 DEF Expansion!Init

LEMMA StaysSimple ==
    ASSUME Simple, TypeOK', [Next]_vars
    PROVE  Simple'
<1>1. CASE UNCHANGED vars
  BY <1>1 DEF Simple, vars, Unknown
<1>2. CASE Include
  <2>1. /\ phase = "run" /\ Known /\ included' = AddIncluded /\ failed' = failed
        /\ included \in Seq(Named) /\ ~Unknown /\ ~failed
    BY <1>2 DEF Include, Looping, Simple, TypeOK
  <2>2. PICK m \in DOMAIN Module : ModuleName = <<m>>
    BY <2>1 DEF Known
  <2>3. \A i \in DOMAIN included' : \E k \in DOMAIN Module : included'[i].name = <<k>>
    <3> TAKE i \in DOMAIN included'
    <3>1. \/ i \in DOMAIN included /\ included'[i] = included[i]
          \/ included'[i].name = ModuleName
      BY <2>1 DEF AddIncluded
    <3> QED
      BY <2>1, <2>2, <3>1 DEF Unknown
  <2>4. ~Unknown'
    BY <2>3 DEF Unknown
  <2> QED
    BY <2>1, <2>4 DEF Simple
<1>3. CASE phase' = "run" => phase = "run" /\ UNCHANGED <<included, failed>>
  BY <1>3 DEF Simple, Unknown
<1>4. CASE Skip \/ Expand \/ Concatenate \/ Define \/ OtherDirective
  BY <1>3, <1>4 DEF Skip, Expand, Concatenate, Define, OtherDirective, Looping
<1>5. CASE IncludeAgain \/ IncludeAbandoned \/ SyntaxError \/ OutOfMemory
  BY <1>3, <1>5 DEF IncludeAgain, IncludeAbandoned, SyntaxError, OutOfMemory, Break
<1>6. CASE FreeTables \/ DestroyList
  BY <1>3, <1>6 DEF FreeTables, DestroyList, Overruns
<1>7. CASE Stopped
  BY <1>1, <1>7 DEF Stopped
<1> QED
  BY <1>1, <1>2, <1>4, <1>5, <1>6, <1>7 DEF Next

LEMMA StepExpands ==
    ASSUME Simple, TypeOK', Regular, [Next]_vars
    PROVE  [Expansion!Next]_(Expansion!vars)
<1>1. CASE UNCHANGED vars
  <2>1. UNCHANGED <<Out, Rest, Defs, Seen, failed>>
    BY <1>1, DefsSame DEF vars, Out, Rest, Passed, Seen
  <2> QED
    BY <2>1 DEF Expansion!vars
<1>2. CASE Stopped
  BY <1>1, <1>2 DEF Stopped
<1>3. CASE FreeTables \/ DestroyList
  BY <1>3, EndEmits DEF Expansion!vars, Expansion!Next
<1> QED
  BY <1>1, <1>2, <1>3, SkipEmits, ExpandSubstitutes, ConcatenateAppends, DefineDefines,
     IncludeAgainIncludes, IncludeIncludes, OtherPasses, ErrorFails DEF Next, Expansion!Next

\* The editing of the list in place implements the rewriting, whatever the
\* source, the modules and the allocations that fail, in a behaviour that the
\* rewriting covers (Regular).
THEOREM ExpansionCorrect == Spec /\ []Regular => ImplementsExpansion
<1>1. Init => Simple /\ Expansion!Init
  BY InitExpands
<1>2. Simple /\ TypeOK' /\ [Next]_vars => Simple'
  BY StaysSimple
<1>3. Simple /\ TypeOK' /\ Regular /\ [Next]_vars => [Expansion!Next]_(Expansion!vars)
  BY StepExpands
<1> QED
  BY <1>1, <1>2, <1>3, TypeCorrect, PTL DEF Spec, ImplementsExpansion, Expansion!Spec

(***************************************************************************)
(* The ends of line.  Lined is kept by what the rewriting does to a list:  *)
(* taking a beginning off it that no open definition crosses, and putting  *)
(* a list with the property before it.                                     *)
(***************************************************************************)
LEMMA TailSays ==
    ASSUME NEW s \in Seq(Lexeme), NEW n \in 0 .. Len(s), NEW t, t = SubSeq(s, n + 1, Len(s))
    PROVE  /\ t \in Seq(Lexeme) /\ Len(t) = Len(s) - n /\ DOMAIN t = 1 .. Len(s) - n
           /\ n \in Nat /\ Len(s) \in Nat /\ DOMAIN s = 1 .. Len(s)
           /\ \A i \in 1 .. Len(s) - n : t[i] = s[n + i]
OBVIOUS

\* Nothing that begins in the first n tokens ends behind them.
Uncut(s, n) == \A i \in 1 .. n, j \in DOMAIN s : Heads(s, i) /\ ClosedBy(s, i, j) => j <= n

LEMMA TailLined ==
    ASSUME NEW s \in Seq(Lexeme), NEW n \in 0 .. Len(s), Lined(s), Uncut(s, n),
           NEW t, t = SubSeq(s, n + 1, Len(s))
    PROVE  Lined(t)
<1> DEFINE m == Len(s) - n
<1>1. /\ t \in Seq(Lexeme) /\ DOMAIN t = 1 .. m /\ n \in Nat /\ Len(s) \in Nat
      /\ DOMAIN s = 1 .. Len(s) /\ \A i \in 1 .. m : t[i] = s[n + i]
  BY TailSays
<1>2. ASSUME NEW i \in 1 .. m, s[n + i].type = "prefix"
      PROVE  i + 1 \in 1 .. m /\ t[i + 1] = s[n + i + 1] /\ t[i + 1].type # "prefix"
  <2>1. n + i \in DOMAIN s
    BY <1>1
  <2>2. (n + i) + 1 \in DOMAIN s /\ s[(n + i) + 1].type # "prefix"
    BY <1>2, <2>1 DEF Lined, LinedAt
  <2>3. i + 1 \in 1 .. m /\ (n + i) + 1 = n + (i + 1)
    BY <1>1, <2>2
  <2> QED
    BY <1>1, <2>2, <2>3
<1>3. ASSUME NEW i \in 1 .. m, NEW j \in 1 .. m
      PROVE  ClosedBy(t, i, j) <=> ClosedBy(s, n + i, n + j)
  <2>1. i + 3 <= j <=> (n + i) + 3 <= n + j
    BY <1>1
  <2>2. (\A k \in i + 1 .. j - 1 : t[k].type \notin {"new_line", "prefix"})
            <=> \A k \in (n + i) + 1 .. (n + j) - 1 : s[k].type \notin {"new_line", "prefix"}
    <3>1. ASSUME \A k \in i + 1 .. j - 1 : t[k].type \notin {"new_line", "prefix"},
                 NEW k \in (n + i) + 1 .. (n + j) - 1
          PROVE  s[k].type \notin {"new_line", "prefix"}
      <4>1. k - n \in i + 1 .. j - 1 /\ k - n \in 1 .. m /\ n + (k - n) = k
        BY <1>1, <3>1
      <4> QED
        BY <1>1, <3>1, <4>1
    <3>2. ASSUME \A k \in (n + i) + 1 .. (n + j) - 1 : s[k].type \notin {"new_line", "prefix"},
                 NEW k \in i + 1 .. j - 1
          PROVE  t[k].type \notin {"new_line", "prefix"}
      <4>1. n + k \in (n + i) + 1 .. (n + j) - 1 /\ k \in 1 .. m
        BY <1>1, <3>2
      <4> QED
        BY <1>1, <3>2, <4>1
    <3> QED
      BY <3>1, <3>2
  <2> QED
    BY <1>1, <2>1, <2>2 DEF ClosedBy
<1>4. ASSUME NEW i \in 1 .. m PROVE Heads(t, i) <=> Heads(s, n + i)
  <2>1. t[i] = s[n + i]
    BY <1>1
  <2>2. s[n + i].type = "prefix" => t[i + 1] = s[(n + i) + 1]
    BY <1>1, <1>2
  <2> QED
    BY <2>1, <2>2 DEF Heads
<1>5. ASSUME NEW i \in 1 .. m, Heads(t, i)
      PROVE  /\ i + 2 \in 1 .. m
             /\ t[i + 2].type = "word" => \E j \in 1 .. m : ClosedBy(t, i, j)
  <2>1. n + i \in DOMAIN s /\ Heads(s, n + i)
    BY <1>1, <1>4, <1>5
  <2>2. /\ (n + i) + 2 \in DOMAIN s
        /\ s[(n + i) + 2].type = "word" => \E j \in DOMAIN s : ClosedBy(s, n + i, j)
    BY <2>1 DEF Lined, LinedAt
  <2>3. i + 2 \in 1 .. m /\ (n + i) + 2 = n + (i + 2)
    BY <1>1, <2>2
  <2>4. t[i + 2] = s[(n + i) + 2]
    BY <1>1, <2>3
  <2>5. ASSUME NEW j \in DOMAIN s, ClosedBy(s, n + i, j)
        PROVE  \E k \in 1 .. m : ClosedBy(t, i, k)
    <3>1. (n + i) + 3 <= j
      BY <2>5 DEF ClosedBy
    <3>2. j - n \in 1 .. m /\ n + (j - n) = j
      BY <1>1, <3>1
    <3> QED
      BY <1>3, <2>5, <3>2
  <2> QED
    BY <2>2, <2>3, <2>4, <2>5
<1>6. ASSUME NEW j \in 1 .. m, t[j].type = "new_line"
      PROVE  \E i \in 1 .. m : Heads(t, i) /\ ClosedBy(t, i, j)
  <2>1. n + j \in DOMAIN s /\ s[n + j].type = "new_line"
    BY <1>1, <1>6
  <2>2. PICK i \in DOMAIN s : Heads(s, i) /\ ClosedBy(s, i, n + j)
    BY <2>1 DEF Lined, LinedAt
  <2>3. i > n
    <3> SUFFICES ASSUME i <= n PROVE FALSE
      BY <1>1
    <3>1. i \in 1 .. n
      BY <1>1
    <3>2. n + j <= n
      BY <2>1, <2>2, <3>1 DEF Uncut
    <3> QED
      BY <1>1, <3>2
  <2>4. i - n \in 1 .. m /\ n + (i - n) = i
    BY <1>1, <2>3
  <2> QED
    BY <1>3, <1>4, <2>2, <2>4
<1> HIDE DEF m
<1>7. ASSUME NEW i \in DOMAIN t, t[i].type = "prefix"
      PROVE  i + 1 \in DOMAIN t /\ t[i + 1].type # "prefix"
  BY <1>1, <1>2, <1>7
<1> QED
  BY <1>1, <1>5, <1>6, <1>7 DEF Lined, LinedAt
LEMMA JoinSays ==
    ASSUME NEW s \in Seq(Lexeme), NEW t \in Seq(Lexeme), NEW u, u = s \o t
    PROVE  /\ u \in Seq(Lexeme) /\ DOMAIN u = 1 .. Len(s) + Len(t)
           /\ Len(s) \in Nat /\ Len(t) \in Nat /\ DOMAIN s = 1 .. Len(s) /\ DOMAIN t = 1 .. Len(t)
           /\ \A i \in 1 .. Len(s) : u[i] = s[i]
           /\ \A i \in 1 .. Len(t) : u[Len(s) + i] = t[i]
OBVIOUS

\* The tokens of u from the n-th on are those of s.
Within(s, u, n) == /\ n \in Nat /\ DOMAIN s \subseteq Nat
                   /\ \A i \in DOMAIN s : n + i \in DOMAIN u /\ u[n + i] = s[i]
                   /\ \A i, j \in DOMAIN s : i .. j \subseteq DOMAIN s

\* What s says of its lines holds of them in u.
LEMMA LinedWithin ==
    ASSUME NEW s, NEW u, NEW n, Within(s, u, n), Lined(s), NEW i \in DOMAIN s
    PROVE  LinedAt(u, n + i)
<1>1. /\ n \in Nat /\ i \in Nat /\ u[n + i] = s[i]
      /\ \A k \in DOMAIN s : k \in Nat /\ n + k \in DOMAIN u /\ u[n + k] = s[k]
  BY DEF Within
<1>2. ASSUME NEW k \in DOMAIN s, s[k].type = "prefix"
      PROVE  /\ k + 1 \in DOMAIN s /\ s[k + 1].type # "prefix"
             /\ (n + k) + 1 \in DOMAIN u /\ u[(n + k) + 1] = s[k + 1]
  <2>1. k + 1 \in DOMAIN s /\ s[k + 1].type # "prefix"
    BY <1>2 DEF Lined, LinedAt
  <2>2. (n + k) + 1 = n + (k + 1)
    BY <1>1
  <2> QED
    BY <1>1, <2>1, <2>2
<1>3. ASSUME NEW k \in DOMAIN s PROVE Heads(u, n + k) <=> Heads(s, k)
  BY <1>1, <1>2 DEF Heads
<1>4. ASSUME NEW k \in DOMAIN s, NEW j \in DOMAIN s, ClosedBy(s, k, j)
      PROVE  ClosedBy(u, n + k, n + j)
  <2>1. k + 3 <= j /\ s[j].type = "new_line"
        /\ \A l \in k + 1 .. j - 1 : s[l].type \notin {"new_line", "prefix"}
    BY <1>4 DEF ClosedBy
  <2>2. (n + k) + 3 <= n + j /\ u[n + j].type = "new_line"
    BY <1>1, <2>1
  <2>3. ASSUME NEW l \in (n + k) + 1 .. (n + j) - 1
        PROVE  u[l].type \notin {"new_line", "prefix"}
    <3>1. l - n \in k + 1 .. j - 1 /\ l - n \in k .. j /\ n + (l - n) = l
      BY <1>1, <2>3
    <3>2. l - n \in DOMAIN s
      BY <3>1 DEF Within
    <3> QED
      BY <1>1, <2>1, <3>1, <3>2
  <2> QED
    BY <2>2, <2>3 DEF ClosedBy
<1>5. ASSUME Heads(u, n + i)
      PROVE  /\ (n + i) + 2 \in DOMAIN u
             /\ u[(n + i) + 2].type = "word" => \E j \in DOMAIN u : ClosedBy(u, n + i, j)
  <2>1. /\ i + 2 \in DOMAIN s
        /\ s[i + 2].type = "word" => \E j \in DOMAIN s : ClosedBy(s, i, j)
    BY <1>3, <1>5 DEF Lined, LinedAt
  <2>2. (n + i) + 2 = n + (i + 2)
    BY <1>1
  <2>3. (n + i) + 2 \in DOMAIN u /\ u[(n + i) + 2] = s[i + 2]
    BY <1>1, <2>1, <2>2
  <2>4. ASSUME NEW j \in DOMAIN s, ClosedBy(s, i, j)
        PROVE  \E k \in DOMAIN u : ClosedBy(u, n + i, k)
    BY <1>1, <1>4, <2>4
  <2> QED
    BY <2>1, <2>3, <2>4
<1>6. ASSUME u[n + i].type = "new_line"
      PROVE  \E j \in DOMAIN u : Heads(u, j) /\ ClosedBy(u, j, n + i)
  <2>1. PICK k \in DOMAIN s : Heads(s, k) /\ ClosedBy(s, k, i)
    BY <1>1, <1>6 DEF Lined, LinedAt
  <2> QED
    BY <1>1, <1>3, <1>4, <2>1
<1> QED
  BY <1>1, <1>2, <1>5, <1>6 DEF LinedAt

LEMMA JoinLined ==
    ASSUME NEW s \in Seq(Lexeme), NEW t \in Seq(Lexeme), Lined(s), Lined(t), NEW u, u = s \o t
    PROVE  Lined(u)
<1>1. /\ DOMAIN u = 1 .. Len(s) + Len(t)
      /\ Len(s) \in Nat /\ Len(t) \in Nat /\ DOMAIN s = 1 .. Len(s) /\ DOMAIN t = 1 .. Len(t)
      /\ \A i \in 1 .. Len(s) : u[i] = s[i]
      /\ \A i \in 1 .. Len(t) : u[Len(s) + i] = t[i]
  BY JoinSays
<1>2. Within(s, u, 0) /\ Within(t, u, Len(s))
  BY <1>1 DEF Within
<1>3. ASSUME NEW i \in DOMAIN u
      PROVE  \/ i \in DOMAIN s /\ 0 + i = i
             \/ i - Len(s) \in DOMAIN t /\ Len(s) + (i - Len(s)) = i
  BY <1>1
<1>4. ASSUME NEW i \in DOMAIN u
      PROVE  LinedAt(u, i)
  <2>1. CASE i \in DOMAIN s /\ 0 + i = i
    <3>1. LinedAt(u, 0 + i)
      BY <1>2, <2>1, LinedWithin
    <3> QED
      BY <2>1, <3>1
  <2>2. CASE i - Len(s) \in DOMAIN t /\ Len(s) + (i - Len(s)) = i
    <3>1. PICK k \in DOMAIN t : Len(s) + k = i
      BY <2>2
    <3> QED
      BY <1>2, <3>1, LinedWithin
  <2> QED
    BY <1>3, <2>1, <2>2
<1> QED
  BY <1>4 DEF Lined

\* Neither an end of line nor a directive.
Clean(s) == \A i \in DOMAIN s : s[i].type \notin {"new_line", "prefix"}

LEMMA CleanLined ==
    ASSUME NEW s, Clean(s)
    PROVE  Lined(s)
BY DEF Clean, Lined, LinedAt, Heads

LEMMA EmptyLined == Lined(<<>>) /\ <<>> \in Seq(Lexeme)
BY DEF Lined, LinedAt

\* The parts of the list and the bodies are lexemes.
LEMMA PartsType ==
    ASSUME TypeOK
    PROVE  /\ Out \in Seq(Lexeme) /\ Rest \in Seq(Lexeme)
           /\ \A name \in DOMAIN Defs : Defs[name] \in Seq(Lexeme)
<1>1. /\ tokens \in Seq(Token) /\ Passed \in 0 .. Len(tokens) /\ count \in Passed .. Len(tokens)
      /\ Passed \in Nat /\ 0 \in 0 .. Len(tokens)
  BY PassedType DEF ListOK
<1>2. Slice(tokens, 0, Passed, Out) /\ Slice(tokens, Passed, count, Rest)
  BY DEF Slice, Out, Rest
<1>3. Out \in Seq(Lexeme)
  BY <1>1, <1>2, StartSays
<1>4. Rest \in Seq(Lexeme)
  BY <1>1, <1>2, SliceSays
<1>5. ASSUME NEW name \in DOMAIN Defs PROVE Defs[name] \in Seq(Lexeme)
  <2>1. /\ Defs[name] = Plain(macroses[FindMacros(name)].value)
        /\ macroses[FindMacros(name)].value \in Seq(Token)
    BY DefsFound
  <2> QED
    BY <2>1, PlainSays
<1> QED
  BY <1>3, <1>4, <1>5

\* No end of line has been passed, those ahead end definitions, and no body has one.
NoLine(s) == \A i \in DOMAIN s : s[i].type # "new_line"
Ruled == ~failed => /\ NoLine(Out) /\ Lined(Rest)
                    /\ \A name \in DOMAIN Defs : Clean(Defs[name])

\* What the beginning of a list with the property looks like.
LEMMA FirstLined ==
    ASSUME NEW s \in Seq(Lexeme), s # <<>>, Lined(s)
    PROVE  /\ Len(s) \in Nat /\ Len(s) >= 1 /\ DOMAIN s = 1 .. Len(s) /\ Head(s) = s[1]
           /\ s[1].type # "new_line"
           /\ s[1].type # "prefix" => Uncut(s, 1)
           /\ s[1].type = "prefix" => /\ Len(s) > 1 /\ s[2].type # "prefix"
                                      /\ s[2].type # "new_line"
<1>1. Len(s) \in Nat /\ Len(s) >= 1 /\ DOMAIN s = 1 .. Len(s) /\ Head(s) = s[1]
  OBVIOUS
<1>2. ASSUME NEW j \in DOMAIN s, j <= 3 PROVE s[j].type # "new_line"
  <2> SUFFICES ASSUME s[j].type = "new_line" PROVE FALSE
    OBVIOUS
  <2>1. LinedAt(s, j)
    BY DEF Lined
  <2>2. PICK i \in DOMAIN s : ClosedBy(s, i, j)
    BY <2>1 DEF LinedAt
  <2> QED
    BY <1>1, <1>2, <2>2 DEF ClosedBy
<1>3. ASSUME s[1].type # "prefix" PROVE Uncut(s, 1)
  <2>1. \A i \in 1 .. 1 : i = 1
    OBVIOUS
  <2> QED
    BY <1>3, <2>1 DEF Uncut, Heads
<1>4. 1 \in DOMAIN s
  BY <1>1
<1>5. ASSUME s[1].type = "prefix"
      PROVE  Len(s) > 1 /\ s[2].type # "prefix" /\ s[2].type # "new_line"
  <2>1. LinedAt(s, 1)
    BY <1>4 DEF Lined
  <2>2. 1 + 1 \in DOMAIN s /\ s[1 + 1].type # "prefix"
    BY <1>5, <2>1 DEF LinedAt
  <2>3. 2 \in DOMAIN s /\ s[2].type # "prefix"
    BY <2>2
  <2> QED
    BY <1>1, <1>2, <2>3
<1> QED
  BY <1>1, <1>2, <1>3, <1>4, <1>5

\* One token is taken off that is not a directive.
LEMMA FirstTaken ==
    ASSUME NEW s \in Seq(Lexeme), s # <<>>, Lined(s), s[1].type # "prefix"
    PROVE  Lined(SubSeq(s, 1 + 1, Len(s))) /\ SubSeq(s, 1 + 1, Len(s)) \in Seq(Lexeme)
<1>1. Uncut(s, 1) /\ Len(s) \in Nat /\ Len(s) >= 1
  BY FirstLined
<1>2. 1 \in 0 .. Len(s)
  BY <1>1
<1> DEFINE t == SubSeq(s, 1 + 1, Len(s))
<1>3. t = SubSeq(s, 1 + 1, Len(s))
  OBVIOUS
<1> HIDE DEF t
<1>4. Lined(t)
  BY <1>1, <1>2, <1>3, TailLined
<1>5. t \in Seq(Lexeme)
  BY <1>2, <1>3, TailSays
<1> QED
  BY <1>3, <1>4, <1>5

LEMMA EmitRuled ==
    ASSUME TypeOK, Ruled, Expansion!Emit
    PROVE  Ruled'
<1>1. /\ ~failed /\ Rest # <<>> /\ Head(Rest).type # "prefix" /\ Out' = Append(Out, Head(Rest))
      /\ Rest' = SubSeq(Rest, 1 + 1, Len(Rest)) /\ Defs' = Defs
  BY DEF Expansion!Emit, Expansion!Going, Expansion!First, Expansion!After
<1>2. NoLine(Out) /\ Lined(Rest) /\ \A name \in DOMAIN Defs : Clean(Defs[name])
  BY <1>1 DEF Ruled
<1>3. Out \in Seq(Lexeme) /\ Rest \in Seq(Lexeme)
  BY PartsType
<1>4. Head(Rest) = Rest[1] /\ Rest[1].type # "new_line"
  BY <1>1, <1>2, <1>3, FirstLined
<1>5. Lined(Rest')
  BY <1>1, <1>2, <1>3, <1>4, FirstTaken
<1>6. NoLine(Out')
  <2>1. PICK t : t = Head(Rest) /\ t.type # "new_line"
    BY <1>4
  <2>2. Out' = Append(Out, t)
    BY <1>1, <2>1
  <2>3. \A i \in DOMAIN Out' :
        \/ Out'[i] = t
        \/ i \in DOMAIN Out /\ Out'[i] = Out[i]
    BY <1>3, <2>2
  <2> QED
    BY <1>2, <2>1, <2>3 DEF NoLine
<1> QED
  BY <1>1, <1>2, <1>5, <1>6 DEF Ruled

LEMMA SubstituteRuled ==
    ASSUME TypeOK, Ruled, Expansion!Substitute
    PROVE  Ruled'
<1> DEFINE name == Head(Rest).text
<1>1. /\ ~failed /\ Rest # <<>> /\ Head(Rest).type = "word" /\ name \in DOMAIN Defs
      /\ Rest' = Defs[name] \o SubSeq(Rest, 1 + 1, Len(Rest)) /\ Out' = Out /\ Defs' = Defs
  BY DEF Expansion!Substitute, Expansion!Going, Expansion!First, Expansion!After, Expansion!IsMacro
<1> HIDE DEF name
<1>2. NoLine(Out) /\ Lined(Rest) /\ \A n \in DOMAIN Defs : Clean(Defs[n])
  BY <1>1 DEF Ruled
<1>3. Rest \in Seq(Lexeme) /\ Defs[name] \in Seq(Lexeme)
  BY <1>1, PartsType
<1>4. Head(Rest) = Rest[1]
  BY <1>1, <1>2, <1>3, FirstLined
<1>5. Lined(SubSeq(Rest, 1 + 1, Len(Rest))) /\ SubSeq(Rest, 1 + 1, Len(Rest)) \in Seq(Lexeme)
  BY <1>1, <1>2, <1>3, <1>4, FirstTaken
<1>6. Lined(Defs[name])
  BY <1>1, <1>2, CleanLined
<1>7. Lined(Rest')
  BY <1>1, <1>3, <1>5, <1>6, JoinLined
<1> QED
  BY <1>1, <1>2, <1>7 DEF Ruled

LEMMA ConcatenateRuled ==
    ASSUME TypeOK, Ruled, Expansion!Concatenate
    PROVE  Ruled'
<1>1. /\ ~failed /\ Rest # <<>> /\ Rest[1].type = "string" /\ Defs' = Defs
      /\ Out' = [Out EXCEPT ![Len(Out)].text = @ \o Expansion!First.text]
      /\ Rest' = SubSeq(Rest, 1 + 1, Len(Rest))
  BY DEF Expansion!Concatenate, Expansion!Going, Expansion!After, Expansion!IsString
<1>2. NoLine(Out) /\ Lined(Rest) /\ \A name \in DOMAIN Defs : Clean(Defs[name])
  BY <1>1 DEF Ruled
<1>3. Out \in Seq(Lexeme) /\ Rest \in Seq(Lexeme)
  BY PartsType
<1>4. Lined(Rest')
  BY <1>1, <1>2, <1>3, FirstTaken
<1>5. DOMAIN Out' = DOMAIN Out /\ \A i \in DOMAIN Out : Out'[i].type = Out[i].type
  <2>1. \A i \in DOMAIN Out : Out[i] \in Lexeme
    BY <1>3
  <2> QED
    BY <1>1, <2>1 DEF Lexeme
<1>6. NoLine(Out')
  BY <1>2, <1>5 DEF NoLine
<1> QED
  BY <1>1, <1>2, <1>4, <1>6 DEF Ruled

\* A definition is taken off with the end of its line, which is its own.
LEMMA DefineRuled ==
    ASSUME TypeOK, Ruled, Expansion!Define
    PROVE  Ruled'
<1>1. PICK n \in 4 .. Len(Rest) :
        /\ Rest[n].type = "new_line"
        /\ \A i \in 4 .. n - 1 : Rest[i].type # "new_line"
        /\ Defs' = [name \in DOMAIN Defs \cup {Rest[3].text} |->
                        IF name \in DOMAIN Defs THEN Defs[name] ELSE SubSeq(Rest, 4, n - 1)]
        /\ Rest' = SubSeq(Rest, n + 1, Len(Rest))
  BY DEF Expansion!Define, Expansion!After
<1>2. /\ ~failed /\ Rest # <<>> /\ Head(Rest).type = "prefix" /\ Len(Rest) > 1
      /\ Rest[2].text = <<"define">> /\ Rest[3].type = "word" /\ Out' = Out
  BY DEF Expansion!Define, Expansion!Going, Expansion!IsDirective, Expansion!First
<1>3. NoLine(Out) /\ Lined(Rest) /\ \A name \in DOMAIN Defs : Clean(Defs[name])
  BY <1>2 DEF Ruled
<1>4. Rest \in Seq(Lexeme)
  BY PartsType
<1>5. /\ Len(Rest) \in Nat /\ DOMAIN Rest = 1 .. Len(Rest) /\ Head(Rest) = Rest[1]
      /\ n \in Nat /\ n >= 4 /\ n <= Len(Rest) /\ 1 \in DOMAIN Rest /\ n \in DOMAIN Rest
  BY <1>2, <1>3, <1>4, FirstLined
<1>6. Heads(Rest, 1)
  <2>1. Rest[1 + 1].text = <<"define">>
    BY <1>2
  <2> QED
    BY <1>2, <1>5, <2>1 DEF Heads
<1>7. PICK j \in DOMAIN Rest : ClosedBy(Rest, 1, j)
  <2>1. LinedAt(Rest, 1)
    BY <1>3, <1>5 DEF Lined
  <2>2. Rest[1 + 2].type = "word"
    BY <1>2
  <2> QED
    BY <1>6, <2>1, <2>2 DEF LinedAt
<1>8. /\ 4 <= j /\ j \in Nat /\ Rest[j].type = "new_line"
      /\ \A k \in 2 .. j - 1 : Rest[k].type \notin {"new_line", "prefix"}
  BY <1>5, <1>7 DEF ClosedBy
<1>9. n = j
  <2>1. ~(j < n)
    <3> SUFFICES ASSUME j < n PROVE FALSE
      OBVIOUS
    <3>1. j \in 4 .. n - 1
      BY <1>5, <1>8
    <3> QED
      BY <1>1, <1>8, <3>1
  <2>2. ~(n < j)
    <3> SUFFICES ASSUME n < j PROVE FALSE
      OBVIOUS
    <3>1. n \in 2 .. j - 1
      BY <1>5, <1>8
    <3> QED
      BY <1>1, <1>8, <3>1
  <2> QED
    BY <1>5, <1>8, <2>1, <2>2
<1>10. Uncut(Rest, n)
  <2> SUFFICES ASSUME NEW i \in 1 .. n, NEW k \in DOMAIN Rest, Heads(Rest, i), ClosedBy(Rest, i, k)
               PROVE  k <= n
    BY DEF Uncut
  <2>1. Rest[i].type = "prefix" /\ i \in Nat
    BY DEF Heads
  <2>2. i = 1
    <3>1. i = 1 \/ i \in 2 .. j - 1 \/ i = n
      BY <1>5, <1>8, <1>9
    <3> QED
      BY <1>1, <1>8, <2>1, <3>1
  <2>3. ~(k > n)
    <3> SUFFICES ASSUME k > n PROVE FALSE
      OBVIOUS
    <3>1. n \in i + 1 .. k - 1
      BY <1>5, <2>2
    <3> QED
      BY <1>1, <3>1 DEF ClosedBy
  <2> QED
    BY <1>5, <2>3
<1>11. Lined(Rest')
  <2>1. n \in 0 .. Len(Rest)
    BY <1>5
  <2> QED
    BY <1>1, <1>3, <1>4, <1>10, <2>1, TailLined
<1> DEFINE body == SubSeq(Rest, 4, n - 1)
<1>12. Clean(body)
  <2>1. DOMAIN body = 1 .. n - 4 /\ \A i \in 1 .. n - 4 : body[i] = Rest[3 + i]
    BY <1>4, <1>5
  <2> HIDE DEF body
  <2>2. ASSUME NEW i \in DOMAIN body PROVE body[i].type \notin {"new_line", "prefix"}
    <3>1. 3 + i \in 2 .. j - 1 /\ body[i] = Rest[3 + i]
      BY <1>5, <1>9, <2>1
    <3> QED
      BY <1>8, <3>1
  <2> QED
    BY <2>2 DEF Clean
<1> HIDE DEF body
<1>13. \A name \in DOMAIN Defs' : Clean(Defs'[name])
  BY <1>1, <1>3, <1>12 DEF body
<1> QED
  BY <1>2, <1>3, <1>11, <1>13 DEF Ruled

\* So is an include, which no definition begins in.
LEMMA IncludeRuled ==
    ASSUME TypeOK, Ruled, Written, Expansion!Include
    PROVE  Ruled'
<1>1. PICK m \in DOMAIN Module :
        Rest' = (IF m \in Seen THEN <<>> ELSE Module[m]) \o SubSeq(Rest, 5 + 1, Len(Rest))
  BY DEF Expansion!Include, Expansion!After
<1>2. /\ ~failed /\ Rest # <<>> /\ Head(Rest).type = "prefix" /\ Len(Rest) > 1
      /\ Rest[2].text = <<"include">> /\ Out' = Out /\ Defs' = Defs
      /\ Rest[3].type = "less" /\ Rest[4].type = "word" /\ Rest[5].type = "greater"
  BY DEF Expansion!Include, Expansion!Going, Expansion!IsDirective, Expansion!First
<1>3. NoLine(Out) /\ Lined(Rest) /\ \A name \in DOMAIN Defs : Clean(Defs[name])
  BY <1>2 DEF Ruled
<1>4. Rest \in Seq(Lexeme)
  BY PartsType
<1>5. /\ Len(Rest) \in Nat /\ DOMAIN Rest = 1 .. Len(Rest) /\ Head(Rest) = Rest[1]
      /\ Rest[2].type # "prefix"
  BY <1>2, <1>3, <1>4, FirstLined
<1>6. ASSUME NEW i \in 1 .. 5 PROVE ~Heads(Rest, i)
  <2>1. CASE i = 1
    <3>1. Rest[1 + 1].text # <<"define">>
      BY <1>2
    <3> QED
      BY <2>1, <3>1 DEF Heads
  <2>2. CASE i \in 2 .. 5
    <3>1. i = 2 \/ i = 3 \/ i = 4 \/ i = 5
      BY <2>2
    <3>2. Rest[i].type # "prefix"
      BY <1>2, <1>5, <3>1
    <3> QED
      BY <3>2 DEF Heads
  <2> QED
    BY <2>1, <2>2
<1> DEFINE after == SubSeq(Rest, 5 + 1, Len(Rest))
<1>7. Lined(after) /\ after \in Seq(Lexeme)
  <2>1. CASE 5 <= Len(Rest)
    <3>1. 5 \in 0 .. Len(Rest)
      BY <1>5, <2>1
    <3>2. Uncut(Rest, 5)
      BY <1>6 DEF Uncut
    <3>3. after = SubSeq(Rest, 5 + 1, Len(Rest))
      OBVIOUS
    <3> HIDE DEF after
    <3>4. Lined(after)
      BY <1>3, <1>4, <3>1, <3>2, <3>3, TailLined
    <3> QED
      BY <1>4, <3>1, <3>3, <3>4, TailSays
  <2>2. CASE Len(Rest) < 5
    <3>1. after = <<>>
      BY <1>4, <1>5, <2>2
    <3> HIDE DEF after
    <3> QED
      BY <3>1, EmptyLined
  <2> QED
    BY <1>5, <2>1, <2>2
<1> DEFINE before == IF m \in Seen THEN <<>> ELSE Module[m]
<1>8. Lined(before) /\ before \in Seq(Lexeme)
  BY EmptyLined, ModuleAssumption DEF Written
<1>9. Rest' = before \o after
  BY <1>1
<1> HIDE DEF before, after
<1>10. Lined(Rest')
  BY <1>7, <1>8, <1>9, JoinLined
<1> QED
  BY <1>2, <1>3, <1>10 DEF Ruled

LEMMA NoLineJoin ==
    ASSUME NEW s \in Seq(Lexeme), NEW t \in Seq(Lexeme), NoLine(s), NoLine(t), NEW u, u = s \o t
    PROVE  NoLine(u)
<1>1. /\ DOMAIN u = 1 .. Len(s) + Len(t)
      /\ Len(s) \in Nat /\ Len(t) \in Nat /\ DOMAIN s = 1 .. Len(s) /\ DOMAIN t = 1 .. Len(t)
      /\ \A i \in 1 .. Len(s) : u[i] = s[i]
      /\ \A i \in 1 .. Len(t) : u[Len(s) + i] = t[i]
  BY JoinSays
<1>2. ASSUME NEW i \in DOMAIN u PROVE u[i].type # "new_line"
  <2>1. CASE i \in DOMAIN s
    BY <1>1, <2>1 DEF NoLine
  <2>2. CASE i \notin DOMAIN s
    <3>1. i - Len(s) \in DOMAIN t /\ Len(s) + (i - Len(s)) = i
      BY <1>1, <2>2
    <3>2. u[i] = t[i - Len(s)]
      BY <1>1, <3>1
    <3> QED
      BY <3>1, <3>2 DEF NoLine
  <2> QED
    BY <2>1, <2>2
<1> QED
  BY <1>2 DEF NoLine

LEMMA PassDirectiveRuled ==
    ASSUME TypeOK, Ruled, Expansion!PassDirective
    PROVE  Ruled'
<1>1. /\ ~failed /\ Rest # <<>> /\ Head(Rest).type = "prefix"
      /\ ~(Len(Rest) > 1 /\ Rest[2].text = <<"define">>)
      /\ Out' = Out \o SubSeq(Rest, 1, 2) /\ Rest' = SubSeq(Rest, 2 + 1, Len(Rest)) /\ Defs' = Defs
  BY DEF Expansion!PassDirective, Expansion!Going, Expansion!IsDirective, Expansion!First,
         Expansion!After
<1>2. NoLine(Out) /\ Lined(Rest) /\ \A name \in DOMAIN Defs : Clean(Defs[name])
  BY <1>1 DEF Ruled
<1>3. Out \in Seq(Lexeme) /\ Rest \in Seq(Lexeme)
  BY PartsType
<1>4. /\ Len(Rest) \in Nat /\ DOMAIN Rest = 1 .. Len(Rest) /\ Head(Rest) = Rest[1]
      /\ Len(Rest) > 1 /\ Rest[1].type # "new_line"
      /\ Rest[2].type # "prefix" /\ Rest[2].type # "new_line"
  BY <1>1, <1>2, <1>3, FirstLined
<1>5. Uncut(Rest, 2)
  <2>1. ASSUME NEW i \in 1 .. 2 PROVE ~Heads(Rest, i)
    <3>1. i = 1 \/ i = 2
      OBVIOUS
    <3>2. Rest[1 + 1].text # <<"define">>
      BY <1>1, <1>4
    <3> QED
      BY <1>4, <3>1, <3>2 DEF Heads
  <2> QED
    BY <2>1 DEF Uncut
<1>6. Lined(Rest')
  <2>1. 2 \in 0 .. Len(Rest)
    BY <1>4
  <2> QED
    BY <1>1, <1>2, <1>3, <1>5, <2>1, TailLined
<1>7. NoLine(Out')
  <2> DEFINE two == SubSeq(Rest, 1, 2)
  <2>1. two \in Seq(Lexeme) /\ Len(two) = 2 /\ DOMAIN two = 1 .. 2 /\ \A i \in 1 .. 2 : two[i] = Rest[i]
    BY <1>3, <1>4
  <2>2. Out' = Out \o two
    BY <1>1
  <2> HIDE DEF two
  <2>3. \A i \in 1 .. 2 : two[i].type # "new_line"
    <3>1. two[1] = Rest[1] /\ two[2] = Rest[2]
      BY <2>1
    <3>2. \A i \in 1 .. 2 : i = 1 \/ i = 2
      OBVIOUS
    <3> QED
      BY <1>4, <3>1, <3>2
  <2>4. \A i \in DOMAIN two : two[i].type # "new_line"
    BY <2>1, <2>3
  <2>5. NoLine(two)
    BY <2>4 DEF NoLine
  <2> QED
    BY <1>2, <1>3, <2>1, <2>2, <2>5, NoLineJoin
<1> QED
  BY <1>1, <1>2, <1>6, <1>7 DEF Ruled

LEMMA RuledStep ==
    ASSUME TypeOK, Ruled, Written, [Expansion!Next]_(Expansion!vars)
    PROVE  Ruled'
<1>1. CASE UNCHANGED Expansion!vars
  <2>1. UNCHANGED <<Out, Rest, Defs, failed>>
    BY <1>1 DEF Expansion!vars
  <2> QED
    BY <2>1 DEF Ruled
<1>2. CASE Expansion!Fail
  <2>1. failed'
    BY <1>2 DEF Expansion!Fail
  <2> QED
    BY <2>1 DEF Ruled
<1> QED
  BY <1>1, <1>2, EmitRuled, SubstituteRuled, ConcatenateRuled, DefineRuled, IncludeRuled,
     PassDirectiveRuled DEF Expansion!Next

LEMMA InitRuled ==
    ASSUME Expansion!Init, Written
    PROVE  Ruled
<1>1. Out = <<>> /\ Rest \in Source /\ DOMAIN Defs = {}
  BY DEF Expansion!Init
<1> QED
  BY <1>1 DEF Ruled, NoLine, Written

\* What is left in the end has been passed.
LEMMA RuledEnd ==
    ASSUME TypeOK, Ruled
    PROVE  NewLinesConsumed
<1> SUFFICES ASSUME phase = "list", ~failed, NEW i \in 1 .. count
             PROVE  tokens[i].type # "new_line"
  BY DEF NewLinesConsumed
<1>1. Passed = count /\ tokens \in Seq(Token) /\ count \in 0 .. Len(tokens)
  BY PassedType DEF ListOK
<1>2. Slice(tokens, 0, count, Out)
  BY <1>1 DEF Slice, Out
<1>3. Out \in Seq(Lexeme) /\ Len(Out) = count /\ \A k \in 1 .. count : Out[k] = Says(tokens[k])
  BY <1>1, <1>2, StartSays
<1>4. i \in DOMAIN Out /\ Out[i] = Says(tokens[i])
  BY <1>3
<1>5. Out[i].type # "new_line"
  BY <1>4 DEF Ruled, NoLine
<1> QED
  BY <1>4, <1>5 DEF Says

\* No end of a line is left in what the preprocessor hands on, if the source and
\* the modules are lexed ones: the definition at the position takes its own and
\* no other, and bodies that take the place of names bring none.
THEOREM NewLinesCorrect == Written => (Spec /\ []Regular => []NewLinesConsumed)
<1> SUFFICES ASSUME Written PROVE Spec /\ []Regular => []NewLinesConsumed
  OBVIOUS
<1>1. Init => Simple /\ Ruled
  BY InitExpands, InitRuled
<1>2. Simple /\ TypeOK' /\ [Next]_vars => Simple'
  BY StaysSimple
<1>3. Simple /\ TypeOK' /\ Regular /\ Ruled /\ [Next]_vars => Ruled'
  BY StepExpands, RuledStep DEF Simple
<1>4. TypeOK /\ Ruled => NewLinesConsumed
  BY RuledEnd
<1> QED
  BY <1>1, <1>2, <1>3, <1>4, TypeCorrect, PTL DEF Spec

=============================================================================
