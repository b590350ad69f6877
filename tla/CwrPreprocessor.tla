--------------------------- MODULE CwrPreprocessor ---------------------------
(***************************************************************************)
(* The preprocessor (source/cwr_preprocessor.c): it edits the lexer's list *)
(* of tokens in place until the end is reached, then its driver            *)
(* (tests/main.c) destroys the list.                                       *)
(*                                                                         *)
(* One action is one iteration of the loop of cwr_preprocessor_run.  A     *)
(* token carries the address of its value; every token owns its value, as  *)
(* the lexer and cwr_token_clone make them.  `tokens' is the allocated     *)
(* array, of which the first `count' elements are the list.  Indices are   *)
(* those of the code, from 0.                                              *)
(***************************************************************************)
EXTENDS Integers, Sequences, SequencesExt

CONSTANTS Source,       \* the token lists the lexer gives
          Module,       \* the tokens of each module that can be included
          MaxFailures   \* how many allocations may fail in a behaviour

NULL == 0
TokenType == {"new_line", "word", "string", "prefix", "less", "greater", "other"}

\* What a token says: a word is a text of one part, concatenation appends parts.
Text == Seq(STRING)
Lexeme == [type : TokenType, text : Text]
Token == [type : TokenType, text : Text, blk : Nat]

ASSUME SourceAssumption == Source \subseteq Seq(Lexeme)
\* No module is shorter than the directive it replaces.
ASSUME ModuleAssumption ==
    \A m \in DOMAIN Module : Module[m] \in Seq(Lexeme) /\ Len(Module[m]) >= 5
ASSUME FailuresAssumption == MaxFailures \in Nat

VARIABLES phase,      \* "run", "break" (the loop is left), "list", "done"
          tokens, count, position,
          macroses,   \* sequence of [name, blk, value]
          included,   \* sequence of [name, blk]
          heap,       \* the live blocks, the last one given, the first fault
          failed,     \* is_failed
          failures

vars == <<phase, tokens, count, position, macroses, included, heap, failed, failures>>

(***************************************************************************)
(* Memory: a block is given once.                                          *)
(***************************************************************************)
Fresh(h, k) == h.last + k
Allocate(h, n) ==
    [live |-> h.live \cup (h.last + 1 .. h.last + n), last |-> h.last + n, fault |-> h.fault]
Raise(h, fault) == [h EXCEPT !.fault = IF @ = "none" THEN fault ELSE @]

\* A read of the value at b.
Read(h, b) ==
    IF b \in h.live THEN h
    ELSE Raise(h, IF b = NULL THEN "null_dereference" ELSE "use_after_free")

\* free() of each f[x].
FreeAll(h, f) ==
    LET blocks == {f[x] : x \in DOMAIN f} \ {NULL}
        once == \A x, y \in DOMAIN f : f[x] = f[y] /\ f[x] # NULL => x = y
        rest == [h EXCEPT !.live = @ \ blocks]
    IN  IF once /\ blocks \subseteq h.live THEN rest ELSE Raise(rest, "double_free")

Blocks(ts) == [i \in DOMAIN ts |-> ts[i].blk]

\* cwr_token_clone of ts into blocks above the first k; at `lost', the value
\* could not be duplicated, which nobody notices.
Clone(h, ts, k, lost) ==
    [i \in DOMAIN ts |-> [ts[i] EXCEPT !.blk = IF i = lost THEN NULL ELSE Fresh(h, k + i)]]

Cloned(h, ts, k, lost) ==
    LET new == Allocate(h, k + Len(ts))
    IN  IF \A i \in DOMAIN ts : ts[i].blk # NULL
        THEN [new EXCEPT !.live = @ \ (IF lost = 0 THEN {} ELSE {Fresh(h, k + lost)})]
        ELSE Raise(new, "null_dereference")

Lexed(h, ts, k) ==
    [i \in DOMAIN ts |-> [type |-> ts[i].type, text |-> ts[i].text, blk |-> Fresh(h, k + i)]]

(***************************************************************************)
(* The list.                                                               *)
(***************************************************************************)
Looping == phase = "run" /\ heap.fault = "none" /\ count > 0 /\ position < count - 1

\* cwr_preprocessor_current with the position at i: at the end, the last token.
At(i) == tokens[IF i < count - 1 THEN i + 1 ELSE count]
Current == At(position)

\* The n tokens from `from' on are removed ...
\* Mutated: one token too many is moved over.
RemoveTokens_OffByOne(from, n) ==
    [i \in DOMAIN tokens |->
        IF from < i /\ i < count - n THEN tokens[i + n + 1] ELSE tokens[i]]
RemoveTokens(from, n) ==
    [i \in DOMAIN tokens |->
        IF from < i /\ i <= count - n THEN tokens[i + n] ELSE tokens[i]]

\* ... or replaced by `new', in an array of the new size.
\* Mutated: the array keeps its size.
ReplaceTokens_OldSize(from, n, new) ==
    [i \in DOMAIN tokens |->
        IF i <= from THEN tokens[i]
        ELSE IF i <= from + Len(new) THEN new[i - from]
        ELSE tokens[i - Len(new) + n]]
ReplaceTokens(from, n, new) ==
    [i \in 1 .. count - n + Len(new) |->
        IF i <= from THEN tokens[i]
        ELSE IF i <= from + Len(new) THEN new[i - from]
        ELSE tokens[i - Len(new) + n]]

Directive(name) == /\ Current.type = "prefix"
                   /\ At(position + 1).blk # NULL
                   /\ At(position + 1).text = <<name>>

\* The loop is left, with an error or without.
Break(error) == phase' = "break" /\ failed' = (failed \/ error)

\* n = 0: every allocation succeeds.
MayFail(n) == IF n = 0 THEN UNCHANGED failures
              ELSE failures < MaxFailures /\ failures' = failures + 1

(***************************************************************************)
(* Words and strings.                                                      *)
(***************************************************************************)
\* cwr_preprocessor_find_macros: the first of that name.
\* Mutated: the last of that name.
FindMacros_Last(text) == SelectLastInSeq(macroses, LAMBDA m : m.name = text)
FindMacros(text) == SelectInSeq(macroses, LAMBDA m : m.name = text)

Expands == /\ Current.type = "word"
           /\ FindMacros(Current.text) # 0
           /\ macroses[FindMacros(Current.text)].value # <<>>

Concatenates == /\ Current.type = "string"
                /\ position > 0
                /\ tokens[position].type = "string"

Skip ==
    /\ Looping
    /\ Current.type # "prefix" /\ ~Expands /\ ~Concatenates
    /\ heap' = IF Current.type = "word" /\ macroses # <<>> THEN Read(heap, Current.blk)
               ELSE heap
    /\ position' = position + 1
    /\ UNCHANGED <<phase, tokens, count, macroses, included, failed, failures>>

\* Mutated: the body is put into the list itself.
Expand_Shared ==
    /\ Looping
    /\ Expands
    /\ LET value == macroses[FindMacros(Current.text)].value
           h == FreeAll(Read(heap, Current.blk), <<Current.blk>>)
       IN  /\ tokens' = ReplaceTokens(position, 1, value)
           /\ heap' = h
           /\ count' = count - 1 + Len(value)
    /\ UNCHANGED <<phase, position, macroses, included, failed, failures>>

\* The macro's body takes the place of its name and is looked at again.
Expand ==
    /\ Looping
    /\ Expands
    /\ LET value == macroses[FindMacros(Current.text)].value
           h == FreeAll(Read(heap, Current.blk), <<Current.blk>>)
       IN  \E lost \in 0 .. Len(value) :
            /\ MayFail(lost)
            /\ tokens' = ReplaceTokens(position, 1, Clone(h, value, 0, lost))
            /\ heap' = Cloned(h, value, 0, lost)
            /\ count' = count - 1 + Len(value)
    /\ UNCHANGED <<phase, position, macroses, included, failed>>

\* A string is appended to the string before it.
Concatenate ==
    /\ Looping
    /\ Concatenates
    /\ LET previous == tokens[position]
           h == Read(Read(heap, previous.blk), Current.blk)
           joined == [type |-> "string", text |-> previous.text \o Current.text,
                      blk |-> Fresh(heap, 1)]
       IN  /\ tokens' = [RemoveTokens(position, 1) EXCEPT ![position] = joined]
           /\ heap' = FreeAll(Allocate(h, 1), <<previous.blk, Current.blk>>)
    /\ count' = count - 1
    /\ UNCHANGED <<phase, position, macroses, included, failed, failures>>

(***************************************************************************)
(* #define                                                                 *)
(***************************************************************************)
\* The directive is read from the token after the name on: an end of line at
\* once means an empty body, which then has not counted that token.
EmptyBody == At(position + 3).type = "new_line"

BodyEnd == CHOOSE i \in position + 3 .. count :
                /\ i >= count - 1 \/ tokens[i + 1].type = "new_line"
                /\ \A j \in position + 3 .. i - 1 :
                        j < count - 1 /\ tokens[j + 1].type # "new_line"

AfterBody == IF EmptyBody THEN position + 4 ELSE BodyEnd
BodyTokens == IF EmptyBody THEN <<>> ELSE SubSeq(tokens, position + 4, BodyEnd)

\* Mutated: the end of the line is not counted.
DirectiveCount_NoNewLine == 3 + Len(BodyTokens)
DirectiveCount ==
    3 + Len(BodyTokens)
      + (IF AfterBody < count /\ tokens[AfterBody + 1].type = "new_line" THEN 1 ELSE 0)

Defines == Directive("define") /\ At(position + 2).type = "word"

\* `define' is the last token, which then counts as the name as well.
Truncated == Defines /\ position + 3 > count

Define ==
    /\ Looping
    /\ Defines /\ ~Truncated
    /\ \E lost \in 0 .. Len(BodyTokens) :
        /\ MayFail(lost)
        /\ macroses' = Append(macroses,
                [name |-> At(position + 2).text, blk |-> Fresh(heap, 1),
                 value |-> Clone(heap, BodyTokens, 1, lost)])
        /\ heap' = FreeAll(Cloned(Read(heap, At(position + 2).blk), BodyTokens, 1, lost),
                           Blocks(SubSeq(tokens, position + 1, position + DirectiveCount)))
    /\ tokens' = RemoveTokens(position, DirectiveCount)
    /\ count' = count - DirectiveCount
    /\ UNCHANGED <<phase, position, included, failed>>

(***************************************************************************)
(* #include                                                                *)
(***************************************************************************)
IncludeCount == 5   \* # include < name >
ModuleName == At(position + 3).text

Includes == /\ Directive("include")
            /\ At(position + 2).type = "less"
            /\ At(position + 3).type = "word"
            /\ At(position + 4).type = "greater"

IsIncluded == \E i \in DOMAIN included : included[i].name = ModuleName

IncludeBlocks == Blocks(SubSeq(tokens, position + 1, position + IncludeCount))
NameRead == Read(heap, At(position + 3).blk)
AddIncluded == Append(included, [name |-> ModuleName, blk |-> Fresh(heap, 1)])
Known == \E m \in DOMAIN Module : ModuleName = <<m>>

\* The directive is removed and the loop is left, without an error.
IncludeAgain ==
    /\ Looping
    /\ Includes /\ IsIncluded
    /\ heap' = FreeAll(NameRead, IncludeBlocks)
    /\ tokens' = RemoveTokens(position, IncludeCount)
    /\ count' = count - IncludeCount
    /\ Break(FALSE)
    /\ UNCHANGED <<position, macroses, included, failures>>

\* Mutated: the name of the module is not kept.
Include_Forgotten ==
    /\ Looping
    /\ Includes /\ ~IsIncluded /\ Known
    /\ LET ts == Module[Head(ModuleName)]
       IN  /\ tokens' = ReplaceTokens(position, IncludeCount, Lexed(heap, ts, 1))
           /\ heap' = FreeAll(Allocate(NameRead, 1 + Len(ts)), IncludeBlocks)
           /\ count' = count - IncludeCount + Len(ts)
    /\ UNCHANGED <<phase, position, included, macroses, failed, failures>>

\* Mutated: the list is looked at from its start again.
Include_Rescans ==
    /\ Looping
    /\ Includes /\ ~IsIncluded /\ Known
    /\ LET ts == Module[Head(ModuleName)]
       IN  /\ tokens' = ReplaceTokens(position, IncludeCount, Lexed(heap, ts, 1))
           /\ heap' = FreeAll(Allocate(NameRead, 1 + Len(ts)), IncludeBlocks)
           /\ count' = count - IncludeCount + Len(ts)
    /\ included' = AddIncluded
    /\ position' = 0
    /\ UNCHANGED <<phase, macroses, failed, failures>>

\* The tokens of the module take the place of the directive.
Include ==
    /\ Looping
    /\ Includes /\ ~IsIncluded /\ Known
    /\ LET ts == Module[Head(ModuleName)]
       IN  /\ tokens' = ReplaceTokens(position, IncludeCount, Lexed(heap, ts, 1))
           /\ heap' = FreeAll(Allocate(NameRead, 1 + Len(ts)), IncludeBlocks)
           /\ count' = count - IncludeCount + Len(ts)
    /\ included' = AddIncluded
    /\ UNCHANGED <<phase, position, macroses, failed, failures>>

\* There is no such module, its lexer cannot be created, or the list cannot
\* grow (the directive is then destroyed and still in it).  The name is freed
\* and stays among the included ones.
IncludeAbandoned ==
    /\ Looping
    /\ Includes /\ ~IsIncluded
    /\ \E grown \in BOOLEAN :
        /\ ~Known => grown
        /\ MayFail(IF Known THEN 1 ELSE 0)
        /\ LET h == Allocate(NameRead, 1)
               name == <<Fresh(heap, 1)>>
           IN  heap' = FreeAll(h, IF grown THEN name ELSE name \o IncludeBlocks)
    /\ included' = AddIncluded
    /\ Break(TRUE)
    /\ UNCHANGED <<tokens, count, position, macroses>>

(***************************************************************************)
(* Other directives, and errors that leave the list as it was.             *)
(***************************************************************************)
\* A directive with another name stays in the list.
\* Mutated: it is not passed.
OtherDirective_Stuck ==
    /\ Looping
    /\ Current.type = "prefix"
    /\ ~Directive("include") /\ ~Directive("define")
    /\ heap' = Read(heap, At(position + 1).blk)
    /\ UNCHANGED <<phase, tokens, count, position, macroses, included, failed, failures>>

OtherDirective ==
    /\ Looping
    /\ Current.type = "prefix"
    /\ ~Directive("include") /\ ~Directive("define")
    /\ heap' = Read(heap, At(position + 1).blk)
    /\ position' = position + 2
    /\ UNCHANGED <<phase, tokens, count, macroses, included, failed, failures>>

\* cwr_preprocessor_except did not find its token.
SyntaxError ==
    /\ Looping
    /\ \/ Directive("include") /\ ~Includes
       \/ Directive("define") /\ ~Defines
    /\ Break(TRUE)
    /\ UNCHANGED <<tokens, count, position, macroses, included, heap, failures>>

\* An allocation that is reported and whose handler gives back what it got: a
\* name, a macro's body, the tables, the list of an expansion, a string.  What
\* would have been copied there has been read.
Copied == IF Includes THEN At(position + 3).blk
          ELSE IF Defines THEN At(position + 2).blk ELSE Current.blk

OutOfMemory ==
    /\ Looping
    /\ Expands \/ Concatenates \/ Includes \/ (Defines /\ ~Truncated)
    /\ MayFail(1)
    /\ heap' = Read(IF Concatenates THEN Read(heap, tokens[position].blk) ELSE heap, Copied)
    /\ Break(TRUE)
    /\ UNCHANGED <<tokens, count, position, macroses, included>>

(***************************************************************************)
(* The end.                                                                *)
(***************************************************************************)
\* The names and the bodies in the two tables: <<0, i>> is the i-th included
\* name, <<i, 0>> the name and <<i, j>> a token of the i-th macro.
TableSlots == ({0} \X DOMAIN included)
                \cup UNION {{i} \X (0 .. Len(macroses[i].value)) : i \in DOMAIN macroses}

TableBlocks ==
    [s \in TableSlots |->
        IF s[1] = 0 THEN included[s[2]].blk
        ELSE IF s[2] = 0 THEN macroses[s[1]].blk
        ELSE macroses[s[1]].value[s[2]].blk]

\* A read outside the list, or of a negative number of tokens: the bound of the
\* loop (count - 1) wraps when the list is empty.
Overruns == phase = "run" /\ (count = 0 \/ (Looping /\ Truncated))

Ends == phase = "break" \/ (phase = "run" /\ position >= count - 1)

\* The end of cwr_preprocessor_run.
FreeTables ==
    /\ heap.fault = "none"
    /\ Ends \/ Overruns
    /\ phase' = IF Overruns THEN phase ELSE "list"
    /\ heap' = IF Overruns THEN Raise(heap, "out_of_bounds")
               ELSE FreeAll(heap, TableBlocks)
    /\ UNCHANGED <<tokens, count, position, macroses, included, failed, failures>>

\* cwr_tokens_list_destroy by the driver, after an error or at its end.
DestroyList ==
    /\ phase = "list" /\ heap.fault = "none"
    /\ phase' = "done"
    /\ heap' = FreeAll(heap, Blocks(SubSeq(tokens, 1, count)))
    /\ UNCHANGED <<tokens, count, position, macroses, included, failed, failures>>

(***************************************************************************)
(* The specification.                                                      *)
(***************************************************************************)
EmptyHeap == [live |-> {}, last |-> 0, fault |-> "none"]

Init ==
    \E source \in Source :
        /\ phase = "run" /\ position = 0
        /\ tokens = Lexed(EmptyHeap, source, 0) /\ count = Len(source)
        /\ heap = Allocate(EmptyHeap, Len(source))
        /\ macroses = <<>> /\ included = <<>>
        /\ failed = FALSE /\ failures = 0

Stopped == (phase = "done" \/ heap.fault # "none") /\ UNCHANGED vars

Next ==
    \/ Skip \/ Expand \/ Concatenate
    \/ Define \/ IncludeAgain \/ Include \/ IncludeAbandoned
    \/ OtherDirective \/ SyntaxError \/ OutOfMemory
    \/ FreeTables \/ DestroyList \/ Stopped

Spec == Init /\ [][Next]_vars

\* One sequential program, which always takes its next step.
FairSpec == Spec /\ WF_vars(Next)
=============================================================================
