------------------------------ MODULE CwrPlain ------------------------------
(***************************************************************************)
(* What the evaluator's call stack and its array of variables look like    *)
(* while a program runs without an error.                                  *)
(*                                                                         *)
(* A tame program does not return from inside a loop.  A plain one keeps   *)
(* away from what the interpreter is known not to survive as well: it      *)
(* takes no reference and stores through none, has no unary plus and does  *)
(* not return a variable itself.                                           *)
(***************************************************************************)
EXTENDS CwrProperties

(***************************************************************************)
(* The shapes of nodes.                                                    *)
(***************************************************************************)
Operators == {"unary", "binary", "element", "call"}
Expressions == Operators \cup {"literal", "string", "var"}
Statements == {"call", "decl", "assign", "return", "if", "for", "none"}

\* What the parser puts below a node.
Parsed(n) ==
    LET kind(k) == n.kids[k].kind
    IN  /\ n.kind \in Operators => \A k \in DOMAIN n.kids : kind(k) \in Expressions
        /\ n.kind \in {"decl", "assign", "return", "if"} => kind(1) \in Expressions
        /\ n.kind = "assign" => kind(2) \in Expressions \cup {"none"}
        /\ n.kind = "for" => /\ {kind(1), kind(2)} \subseteq Expressions \cup {"none"}
                             /\ kind(3) \in Statements
                             /\ kind(4) = "body"
        /\ n.kind = "body" => \A k \in DOMAIN n.kids : kind(k) \in Statements
        /\ n.kind = "func" => kind(1) = "body"
        /\ n.kind = "if" => kind(2) = "body"
        /\ n.kind = "return" /\ Len(n.kids) = 2 => kind(2) = "body"

\* No node of `quiet' is in or below it a return; what a loop repeats is.
Quiet(quiet) ==
    /\ \A n \in quiet : n.kind # "return" /\ \A k \in DOMAIN n.kids : n.kids[k] \in quiet
    /\ \A n \in Node : n.kind = "for" => n.kids[3] \in quiet /\ n.kids[4] \in quiet

Tame(quiet) == (\A n \in Node : Parsed(n)) /\ Quiet(quiet)

\* The operators and returns of a plain program.
PlainNode(n) ==
    /\ n.kind = "unary" => n.op \in {"-", "!", "*"}
    /\ n.kind = "assign" => n.op = "="
    /\ n.kind = "return" => n.kids[1].kind # "var"

Plain(quiet) == Tame(quiet) /\ \A n \in Node : PlainNode(n)

\* Nothing has gone wrong so far; no allocation has failed either.
Sane == ~failed /\ mem.fault = "none"
Steady == Sane /\ failures = 0

(***************************************************************************)
(* The call stack: who waits for whom.                                     *)
(***************************************************************************)
InAt(f, kinds, pc) == f.node.kind \in kinds /\ f.pc = pc

\* The frame f waits for its k-th child.
Waits(f, k) ==
    \/ k = Len(f.got) + 1 /\ InAt(f, {"call"}, "arguments")
    \/ k = f.i /\ f.got = <<>> /\ InAt(f, {"body"}, "result")
    \/ k = 1 /\ f.got = <<>> /\ \/ InAt(f, {"unary"}, "operand")
                                \/ InAt(f, Pair, "left")
                                \/ InAt(f, {"decl", "assign", "return"}, "value")
                                \/ InAt(f, {"if"}, "condition")
                                \/ InAt(f, {"func"}, "body")
                                \/ InAt(f, {"for"}, "variable")
    \/ k = 2 /\ f.got = <<>> /\ \/ InAt(f, {"if"}, "body")
                                \/ InAt(f, {"for"}, "condition")
    \/ k = 2 /\ Len(f.got) = 1 /\ \/ InAt(f, Pair, "right")
                                  \/ InAt(f, {"return"}, "body")
                                  \/ InAt(f, {"assign"}, "target")
    \/ k = 3 /\ f.got = <<>> /\ InAt(f, {"for"}, "step")
    \/ k = 4 /\ f.got = <<>> /\ InAt(f, {"for"}, "body")

\* The chain of bodies its callee gets.
Seen(f) == IF f.own = GlobalScope \/ f.pc = "variable" THEN f.chain
           ELSE <<f.own>> \o f.chain

\* f waits for g.
WaitsFor(f, g) ==
    \/ /\ InAt(f, {"call"}, "await") /\ f.got = <<>>
       /\ g.node.kind = "func" /\ g.chain = <<>>
    \/ \E k \in DOMAIN f.node.kids :
            Waits(f, k) /\ g.node = f.node.kids[k] /\ g.chain = Seen(f)

\* The points at which a running frame has one result, or none.
One(f) == \/ f.pc \in {"operand", "slot", "left", "condition", "variable", "step", "await", "result"}
          \/ InAt(f, {"decl", "assign", "return"}, "value")
          \/ InAt(f, {"if", "func", "for"}, "body")
          \/ InAt(f, {"func"}, "leave")
Nothing(f) == \/ f.pc \in {"test", "iterate"}
              \/ f.pc = "start" /\ f.node.kind # "func"
              \/ InAt(f, {"for"}, "leave")

\* The running frame: as many results as its point says; a loop's body, and
\* what is below it, has given none.
Ready(f, quiet) ==
    /\ f.pc = "drop" => f.own = GlobalScope
    /\ One(f) => Len(f.got) = 1
    /\ Nothing(f) => f.got = <<>>
    /\ InAt(f, Pair, "right") \/ InAt(f, {"return"}, "body") \/ InAt(f, {"assign"}, "target")
        => Len(f.got) = 2
    /\ InAt(f, {"body"}, "result") => f.i \in DOMAIN f.node.kids
    /\ InAt(f, {"for"}, "body") => f.got[1] = NULL
    /\ f.node \in quiet =>
        /\ InAt(f, {"if"}, "body") => f.got[1] = NULL
        /\ InAt(f, {"body"}, "result") /\ IsBlock(f.node.kids[f.i]) => f.got[1] = NULL

\* Functions, but for a bound printf, and loops own a body.
OwnsBody(n) == n.kind = "for" \/ (n.kind = "func" /\ ~IsBind(n))
OwnOK(f) == /\ OwnsBody(f.node) => f.own \in Body
            /\ ~OwnsBody(f.node) => f.own = GlobalScope
ChainOK(f) == f.node.kind = "func" <=> f.chain = <<>>

\* No function is entered above the frame at g, up to the one at n.
NoEntry(g, n) == \A h \in g + 1 .. n : stack[h].node.kind # "func"

Frames(quiet) ==
    /\ \A n \in DOMAIN stack : OwnOK(stack[n]) /\ ChainOK(stack[n])
    /\ \A n \in DOMAIN stack : n + 1 \in DOMAIN stack => WaitsFor(stack[n], stack[n + 1])
    /\ stack # <<>> => stack[1].node.kind = "func" /\ Ready(Top, quiet)

\* Each running body is at an address of its own.
Distinct == \A m, n \in DOMAIN stack :
                stack[m].own = stack[n].own /\ stack[m].own # GlobalScope => m = n

\* A chain names bodies of frames below, of the same call.
Enclosed ==
    \A n \in DOMAIN stack : \A c \in DOMAIN stack[n].chain :
        \E g \in DOMAIN stack : /\ g < n /\ stack[g].own = stack[n].chain[c]
                                /\ NoEntry(g, n)

\* A statement's chain starts at the innermost body below it.
Innermost ==
    \A n \in DOMAIN stack : stack[n].node.kind \notin Expressions \cup {"func", "none"} =>
        \E g \in DOMAIN stack : /\ g < n /\ stack[g].own = stack[n].chain[1]
                                /\ \A h \in g + 1 .. n - 1 : stack[h].own = GlobalScope

\* Between an operator and a statement above it a function has been entered.
Shielded ==
    \A m, n \in DOMAIN stack :
        /\ m < n /\ stack[m].node.kind \in Operators
        /\ stack[n].node.kind \notin Expressions
        => ~NoEntry(m, n)

Stacked(quiet) == Frames(quiet) /\ Distinct /\ Enclosed /\ Innermost /\ Shielded

(***************************************************************************)
(* The variables: they are those of the running bodies, in order, and a    *)
(* body that is being destroyed has none above the loop's index.           *)
(***************************************************************************)
Level(g, i) == stack[g].own = variables.insts[i].root

Layered ==
    /\ \A i \in DOMAIN variables.insts : \E g \in DOMAIN stack : Level(g, i)
    /\ \A i \in DOMAIN variables.insts : variables.insts[i].root # GlobalScope
    /\ \A i, j \in DOMAIN variables.insts : i <= j =>
        \A g, h \in DOMAIN stack : Level(g, i) /\ Level(h, j) => g <= h

Leaving ==
    stack # <<>> /\ Top.pc \in {"leave", "unwind"} =>
        /\ Top.i <= Len(variables.insts)
        /\ \A i \in DOMAIN variables.insts : i > Top.i => variables.insts[i].root # Top.own

Scoped(quiet) == Sane => Stacked(quiet) /\ Layered /\ Leaving

(***************************************************************************)
(* The memory: who holds a value, and who owns a block.                    *)
(***************************************************************************)
IsRaw(m, a) == Live(m, a) /\ m.cells[a].type = "block"
IsValue(m, a) == Live(m, a) /\ m.cells[a].type # "block"
Unheld(m, a) == m.cells[a].refs = 0

\* The results a frame still holds (a bound printf has destroyed the first i).
HeldAt(f) == IF f.pc = "drop" THEN f.i + 1 .. Len(f.got) ELSE DOMAIN f.got

\* Who holds a block besides the variables: <<n, k>> is the k-th result of the
\* n-th frame, <<n, 0>> its arguments array, <<0, 1>> the result on its way to
\* the driver.
InFrames == UNION {{n} \X (HeldAt(stack[n]) \cup {0}) : n \in DOMAIN stack}
Returned == IF phase = "run" /\ stack = <<>> THEN {<<0, 1>>} ELSE {}
Holders == InFrames \cup Returned
Holding(s) == IF s[1] = 0 THEN result
              ELSE IF s[2] = 0 THEN stack[s[1]].blk ELSE stack[s[1]].got[s[2]]

\* The number of variables that have the value.
References(vs, a) == Cardinality({i \in DOMAIN vs : vs[i].val = a})

\* A memory m with the variables vs and the holders S of the pointers V: counts
\* are exact, nothing freed is held, a value that no variable has is held once,
\* and a block belongs to one value or to one holder.
Counted(m, vs) ==
    /\ \A i \in DOMAIN vs : IsValue(m, vs[i].val)
    /\ \A a \in Addr : Live(m, a) => m.cells[a].refs = References(vs, a)

HeldOnce(m, S, V) ==
    /\ \A s \in S : V[s] # NULL => /\ Live(m, V[s])
                                   /\ m.cells[V[s]].type = "block" <=> s[2] = 0
    /\ \A s, t \in S : V[s] = V[t] /\ V[s] # NULL /\ Unheld(m, V[s]) => s = t

Owned(m, S, V) ==
    \A a \in Addr : Live(m, a) =>
        /\ ~m.cells[a].isref
        /\ m.cells[a].buf # NULL =>
            /\ IsValue(m, a) /\ IsRaw(m, m.cells[a].buf)
            /\ \A b \in Addr \ {a} : Live(m, b) => m.cells[b].buf # m.cells[a].buf
            /\ \A s \in S : V[s] # m.cells[a].buf

Store(m, vs, S, V) == Counted(m, vs) /\ HeldOnce(m, S, V) /\ Owned(m, S, V)

\* A value that no variable has.
Loose(m, v) == v = NULL \/ Unheld(m, v)

\* The frame f sees a variable with the value v.
Sees(vs, f, v) == \E i \in DOMAIN vs, c \in DOMAIN f.chain :
                    vs[i].val = v /\ vs[i].root = f.chain[c]

\* A frame whose results are new: no variable has them.
Fresh(f) == \/ InAt(f, {"call"}, "await")
            \/ f.node.kind = "func" /\ f.pc \in {"body", "leave"}
            \/ InAt(f, {"body"}, "result") /\ f.node.kids[f.i].kind # "assign"
            \/ InAt(f, {"if", "for"}, "body")
            \/ InAt(f, {"return"}, "value") \/ InAt(f, {"return"}, "body")

\* What an operator holds is new or the value of a variable it sees.  Only a
\* reference, a store through one or a failure leads to the last three points.
Proper(m, vs, f) ==
    /\ f.node.kind \in Operators =>
        \A k \in DOMAIN f.got : Loose(m, f.got[k]) \/ Sees(vs, f, f.got[k])
    /\ Fresh(f) => \A k \in DOMAIN f.got : Loose(m, f.got[k])
    /\ f.pc \notin {"slot", "target", "unwind"}

\* Who holds what: the counts of the values are the variables that have them,
\* a value that no variable has and an array of arguments have one holder,
\* an operator's results are new or in a variable it sees, and what a function
\* returns is in none of its variables (source/cwr_interpreter.c:412).
Kept ==
    /\ Store(mem, variables.insts, Holders, [s \in Holders |-> Holding(s)])
    /\ \A n \in DOMAIN stack : Proper(mem, variables.insts, stack[n])
    /\ phase = "run" /\ stack = <<>> => Loose(mem, result)

\* As long as nothing fails, results and variables share the heap as Kept says:
\* whoever destroys a result that no variable has is the only one to hold it.
Remembered == Steady => Kept

\* No freed value is read or freed again.
Unfreed(m) == m.fault \notin {"use_after_free", "double_free"}
NothingFreed == ~failed /\ failures = 0 => Unfreed(mem)

(***************************************************************************)
(* Nothing is lost: a live block is held, or owned by a value that is.     *)
(***************************************************************************)
\* The parser counts the terminator of a string (source/cwr_parser.c:1167).
Terminated == \A n \in Node : n.kind = "string" => n.num > 0

Values(vs) == {vs[i].val : i \in DOMAIN vs}

\* What the variables, the frames and the driver hold.
Grip == Values(variables.insts) \cup HeldByFrames
            \cup (IF phase = "run" /\ stack = <<>> THEN {result} ELSE {})

Covers(m, H) == \A a \in Addr : Live(m, a) =>
                    a \in H \/ \E b \in H : Live(m, b) /\ m.cells[b].buf = a

\* A value with a block frees it with itself.
Tidy(m) == \A a \in Addr : Live(m, a) /\ m.cells[a].buf # NULL =>
                /\ m.cells[a].type = "array" /\ m.cells[a].elem = "char"
                /\ m.cells[a].cap > 0

\* A frame holds a block of its own at four points only, all of which free it
\* or give it away; a bound printf that destroys its arguments has one.
Orderly(f) ==
    /\ f.blk # NULL => \/ InAt(f, {"string"}, "value") \/ InAt(f, {"call"}, "arguments")
                       \/ InAt(f, {"func"}, "start") \/ InAt(f, {"func"}, "drop")
    /\ InAt(f, {"string"}, "value") => f.got = <<>>
    /\ f.pc = "drop" => f.got # <<>>

\* The arguments a function has added are variables.
Bound(f, vs) ==
    InAt(f, {"func"}, "start") => \A k \in 1 .. f.i : f.got[k] \in Values(vs)

Accounted ==
    /\ Covers(mem, Grip) /\ Tidy(mem)
    /\ \A n \in DOMAIN stack : Orderly(stack[n])
    /\ stack # <<>> => Bound(Top, variables.insts)

\* As long as nothing fails, every live block is on somebody's account.
NothingLost == Steady => Accounted
=============================================================================
