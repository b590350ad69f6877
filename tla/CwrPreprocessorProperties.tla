---------------------- MODULE CwrPreprocessorProperties ----------------------
(***************************************************************************)
(* What the preprocessor should do, over the state of CwrPreprocessor.     *)
(***************************************************************************)
EXTENDS CwrPreprocessor

Fault == {"none", "null_dereference", "use_after_free", "double_free", "out_of_bounds"}
Named == [name : Text, blk : Nat]
Macros == [name : Text, blk : Nat, value : Seq(Token)]

\* The types of the variables: the list is within its array, and the position
\* within the list or at its end.
TypeOK ==
    /\ phase \in {"run", "break", "list", "done"}
    /\ tokens \in Seq(Token)
    /\ count \in 0 .. Len(tokens)
    /\ position \in 0 .. count
    /\ macroses \in Seq(Macros)
    /\ included \in Seq(Named)
    /\ heap \in [live : SUBSET Nat, last : Nat, fault : Fault]
    /\ failed \in BOOLEAN
    /\ failures \in 0 .. MaxFailures

\* Without a failed allocation nothing undefined happens, up to and including
\* the driver's destruction of the list, after an error as well
\* (tests/main.c:54-60).
SafeInMemory == failures = 0 => heap.fault = "none"

\* A name among the included ones that no module has.
Unknown == \E i \in DOMAIN included : \A m \in DOMAIN Module : included[i].name # <<m>>

\* Whatever allocation fails, a freed value is never read; a missing one is
\* read only after a failure, when a token could not be duplicated
\* (includes/lexer/cwr_token.h:88); a value is freed twice at most by the
\* destruction of the tables and the list, after an error in an include, when
\* an allocation has failed or there is no such module
\* (source/cwr_preprocessor.c:196 and 221); and the loop leaves the list only
\* when that is empty or ends in the word `define'.
FaultsExplained ==
    /\ heap.fault # "use_after_free"
    /\ heap.fault = "null_dereference" => failures > 0
    /\ heap.fault = "double_free" =>
            /\ phase \in {"list", "done"} /\ failed /\ included # <<>>
            /\ failures > 0 \/ Unknown
    /\ heap.fault = "out_of_bounds" => phase = "run" /\ (count = 0 \/ Truncated)

\* The source is one the loop is written for: it includes the modules there
\* are, and the list neither is empty nor ends in the word `define'.
Sensible == ~Unknown /\ ~(phase = "run" /\ (count = 0 \/ Truncated))

\* What owns a value: <<-1, i>> is the i-th element of the list, the others
\* are the slots of the two tables.
ListSlots == {-1} \X (1 .. count)
Slots == (IF phase = "done" THEN {} ELSE ListSlots)
            \cup (IF phase \in {"run", "break"} THEN TableSlots ELSE {})
BlockOf(s) == IF s[1] = -1 THEN tokens[s[2]].blk ELSE TableBlocks[s]
Owned == {BlockOf(s) : s \in Slots}

\* Every value in the list, in a macro and in a table is live and has no other
\* owner: "All macroses tokens duplicated, in replaced it copy too"
\* (source/cwr_preprocessor.c:572), and the editing in place moves each token
\* once.  A value that could not be duplicated is owned by nobody.
SoleOwner ==
    phase = "run" /\ heap.fault = "none" =>
        \A s \in Slots : BlockOf(s) # NULL =>
            /\ BlockOf(s) \in heap.live
            /\ \A t \in Slots : BlockOf(t) = BlockOf(s) => t = s

\* No value is lost, whatever fails: a handler that gives up gives back what it
\* allocated, and in the end nothing is left.
NoLeak == heap.fault = "none" => heap.live \subseteq Owned

\* The preprocessor goes forward: what it has passed stays as it is, but for
\* the string just passed, which can grow.
OnlyForward ==
    [][/\ position' >= position
       /\ \A i \in DOMAIN tokens : i <= position =>
            \/ tokens'[i] = tokens[i]
            \/ i = position /\ IsPrefix(tokens[i].text, tokens'[i].text)]_vars

\* "Does not exist at parsing, only preprocessor uses it"
\* (includes/lexer/cwr_token.h:10): no end of line is left in the result.
NewLinesConsumed ==
    phase = "list" /\ ~failed => \A i \in 1 .. count : tokens[i].type # "new_line"

\* A list in which ends of line end definitions only, as the lexer makes them
\* (NewLinesPaired), with no directive in a body or behind a #.
Heads(s, i) == s[i].type = "prefix" /\ s[i + 1].text = <<"define">>
ClosedBy(s, i, j) ==
    /\ i + 3 <= j /\ s[j].type = "new_line"
    /\ \A k \in i + 1 .. j - 1 : s[k].type \notin {"new_line", "prefix"}

LinedAt(s, i) ==
    /\ s[i].type = "prefix" => i + 1 \in DOMAIN s /\ s[i + 1].type # "prefix"
    /\ Heads(s, i) => /\ i + 2 \in DOMAIN s
                      /\ s[i + 2].type = "word" => \E j \in DOMAIN s : ClosedBy(s, i, j)
    /\ s[i].type = "new_line" => \E j \in DOMAIN s : Heads(s, j) /\ ClosedBy(s, j, i)

Lined(s) == \A i \in DOMAIN s : LinedAt(s, i)

Written == (\A s \in Source : Lined(s)) /\ \A m \in DOMAIN Module : Lined(Module[m])

\* A source without recursive macros is preprocessed, and its list destroyed
\* (or the program has stopped at a fault: see SafeInMemory).
Terminates == <>(phase = "done" \/ heap.fault # "none")

(***************************************************************************)
(* The list split at the position is the state of the rewriting.           *)
(***************************************************************************)
Plain(ts) == [i \in DOMAIN ts |-> [type |-> ts[i].type, text |-> ts[i].text]]

Passed == IF phase \in {"list", "done"} /\ ~failed THEN count
          ELSE IF position < count THEN position ELSE count

Names == {macroses[i].name : i \in DOMAIN macroses}

Out == Plain(SubSeq(tokens, 1, Passed))
Rest == Plain(SubSeq(tokens, Passed + 1, count))
Defs == [n \in Names |-> Plain(macroses[FindMacros(n)].value)]
Seen == {m \in DOMAIN Module : \E i \in DOMAIN included : included[i].name = <<m>>}

Expansion == INSTANCE MacroExpansion WITH
    out <- Out, rest <- Rest, defs <- Defs, seen <- Seen, stopped <- failed

\* What the rewriting leaves out: a definition without a body or an end of its
\* line, a directive whose name could not be copied, and a list that is left
\* with something to do, because it ends with it or includes a module again.
Regular ==
    /\ Looping /\ Defines /\ ~Truncated =>
            ~EmptyBody /\ \E i \in position + 5 .. count : tokens[i].type = "new_line"
    /\ Looping /\ Current.type = "prefix" => At(position + 1).blk # NULL
    /\ Ends /\ ~failed /\ position < count =>
            /\ position = count - 1
            /\ Current.type # "prefix" /\ ~Expands /\ ~Concatenates

\* The editing of the list in place implements the rewriting (for sources that
\* do not end in a macro, a string or a directive, and do not include a module
\* again before their last token).
ImplementsExpansion == Expansion!Spec
=============================================================================
