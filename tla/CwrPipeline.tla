----------------------------- MODULE CwrPipeline -----------------------------
(***************************************************************************)
(* The parser and the interpreter as the driver runs them (tests/main.c):  *)
(* the interpreter gets the tree if the parser did not fail.  Both number  *)
(* the variables of a program, each with a table of its own: the parser    *)
(* gives a name an identifier, the interpreter finds the variable by it.   *)
(***************************************************************************)
EXTENDS CwrProperties

CONSTANT Source      \* the token lists

VARIABLES tokens, position, table, declared, opened, tree, refused, parserFault, parserPhase,
          names      \* auxiliary: what the source calls the interpreter's variables

Parser == INSTANCE CwrParser WITH
    Address <- Body, variables <- table, functions <- declared, failed <- refused,
    fault <- parserFault, phase <- parserPhase

parser == <<tokens, position, table, declared, opened, tree, refused, parserFault, parserPhase>>
all == <<parser, vars, names>>

(***************************************************************************)
(* The tree as the interpreter reads it.  Of a type it looks at the kind   *)
(* of a literal and of a function's first parameter only.                  *)
(***************************************************************************)
TypeName(t) == IF t.to = <<>> THEN t.base ELSE "pointer"
FirstType(params) == IF params = <<>> THEN "void" ELSE TypeName(params[1].type)

Lowered(kind, n, id, type, kids) ==
    [kind |-> kind, op |-> n.op, id |-> id, num |-> n.num, type |-> type,
     params |-> [i \in DOMAIN n.params |-> n.params[i].id], kids |-> kids]

RECURSIVE Lower(_)
Lower(n) ==
    LET kids == [i \in DOMAIN n.kids |-> Lower(n.kids[i])]
        Keep(id, type) == Lowered(n.kind, n, id, type, kids)
        first == n.kids[1]
    IN  CASE n.kind \in {"integer", "float", "character"} ->
                Lowered("literal", n, 0, n.type.base, <<>>)
          [] n.kind = "string" -> Keep(0, "char")
          [] n.kind = "assign" ->      \* x = v names its variable itself
                Keep(IF n.op = "=" THEN n.kids[2].id ELSE 0, "void")
          [] n.kind = "for" ->         \* and a loop its own
                IF first.kind = "none" THEN Keep(0, "void")
                ELSE Lowered("for", first, first.id, "void", [kids EXCEPT ![1] = @.kids[1]])
          [] n.kind = "func" ->        \* the body of a prototype is empty
                Lowered("func", n, n.id, FirstType(n.params),
                        IF kids = <<>> THEN <<Lowered("body", [n EXCEPT !.params = <<>>], 0, "void", <<>>)>>
                        ELSE kids)
          [] OTHER -> Keep(n.id, "void")

(***************************************************************************)
(* The driver.                                                             *)
(***************************************************************************)
Parse ==
    /\ phase = "parse"
    /\ Parser!Step
    /\ UNCHANGED <<vars, names>>

\* The interpreter is not created for a source that is refused.
HandOver ==
    /\ phase = "parse" /\ parserPhase = "done"
    /\ IF refused THEN phase' = "done" /\ UNCHANGED program
       ELSE phase' = "interpret" /\ program' = [k \in DOMAIN tree |-> Lower(tree[k])]
    /\ UNCHANGED <<parser, next, functions, variables, stack, mem, failed, failures, result, names>>

\* What the source calls the variable that the running activation adds.
NameAdded ==
    IF Top.node.kind = "func"
    THEN LET k == CHOOSE k \in DOMAIN tree : tree[k].kind = "func" /\ tree[k].id = Top.node.id
         IN  tree[k].params[Top.i + 1].name
    ELSE Top.node.op

Interpret ==
    /\ Expression \/ Call \/ Statement \/ Driver
    /\ names' = LET m == Len(variables.insts)
                    n == Len(variables'.insts)
                IN  IF n > m THEN Append(names, NameAdded) ELSE SubSeq(names, 1, n)
    /\ UNCHANGED parser

PipelineInit ==
    /\ Parser!Init
    /\ phase = "parse" /\ next = 1
    /\ program = <<>>
    /\ functions = EmptyScope /\ variables = EmptyScope
    /\ stack = <<>> /\ result = NULL
    /\ mem = EmptyMemory
    /\ failed = FALSE /\ failures = 0
    /\ names = <<>>

Over == phase = "done" \/ mem.fault # "none" \/ parserFault # "none"

PipelineStopped == Over /\ UNCHANGED all

PipelineNext == Parse \/ HandOver \/ Interpret \/ PipelineStopped

PipelineSpec == PipelineInit /\ [][PipelineNext]_all /\ WF_all(Parse \/ HandOver \/ Interpret)

(***************************************************************************)
(* What the parser tells the interpreter.                                  *)
(***************************************************************************)
\* No for loop of the source declares a variable: the parser registers such a
\* variable twice (source/cwr_parser.c:607) and miscounts the ones after it.
NoLoopVariable ==
    ~\E i \in DOMAIN tokens :
        i + 2 \in DOMAIN tokens /\ tokens[i].t = "for" /\ tokens[i + 1].t = "("
        /\ tokens[i + 2].t \in Parser!TypeToken

\* The name that is read, or assigned to, in the next step.
NamesVariable(n) == n.kind = "var" \/ (n.kind = "assign" /\ n.op = "=")
NameRead(n) == IF n.kind = "var" THEN n.op ELSE n.kids[2].op

\* The interpreter finds every variable that the parser resolved ("That cant
\* happen because of parser checks", source/cwr_scope.c:68), and it is the one
\* whose name is written there: both number the variables alike, although the
\* parser forgets the variables of a block at its end and the interpreter keeps
\* them up to the end of the function or the loop.
VariablesAgree ==
    NoLoopVariable /\ Evaluating /\ stack # <<>>
        /\ NamesVariable(Top.node) /\ Top.pc = (IF Top.node.kind = "var" THEN "start" ELSE "value") =>
            LET i == Get(variables, Top.chain, Top.node.id)
            IN  i # 0 /\ names[i] = NameRead(Top.node)

\* The function a call enters has the name that is written, and a parameter for
\* each argument: the identifiers the parser gives functions are the ones the
\* interpreter registers them with.
CallsAgree ==
    Evaluating /\ stack # <<>> /\ Top.node.kind = "call" /\ Top.pc = "arguments" =>
        /\ Callee # 0
        /\ functions.insts[Callee].val.op = Top.node.op
        /\ Len(functions.insts[Callee].val.params) = Len(Top.node.kids)

\* A for loop of the tree has a `return' in it: it leaves without the end of the
\* loop, whose variables stay in the interpreter's array.
RECURSIVE Returns(_), LoopReturns(_)
Returns(n) == n.kind = "return" \/ \E i \in DOMAIN n.kids : Returns(n.kids[i])
LoopReturns(n) ==
    \/ n.kind = "for" /\ Returns(n)
    \/ \E i \in DOMAIN n.kids : LoopReturns(n.kids[i])

\* A source that is accepted runs to the end, and everything is torn down:
\* nothing the parser lets pass makes the interpreter crash or run for ever,
\* unless it returns out of a for loop.
AcceptedRuns ==
    (parserPhase = "done" /\ ~refused /\ ~\E k \in DOMAIN tree : LoopReturns(tree[k]))
        ~> (phase = "done" /\ variables.insts = <<>>)
=============================================================================
