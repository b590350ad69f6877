------------------------------ MODULE CwrParser ------------------------------
(***************************************************************************)
(* The recursive-descent parser (source/cwr_parser.c).                     *)
(*                                                                         *)
(* The functions that parse an expression change nothing of the parser but *)
(* its position and its error: they are one recursive function, Expr.  The *)
(* declarations and statements are actions.  `opened' is the C stack of    *)
(* the parser: the constructs whose bodies are being parsed, with the      *)
(* nodes built for them so far.                                            *)
(*                                                                         *)
(* After an error many functions go on before they look at is_failed, and  *)
(* then destroy what they got: an empty record {} is an expression of the  *)
(* first type of the enumeration, binary, whose children are NULL.         *)
(***************************************************************************)
EXTENDS CwrParserScope

CONSTANTS Source,      \* the token lists
          FloatUnit    \* a number token counts in parts of one

ASSUME UnitAssumption == FloatUnit \in Nat \ {0}

Token == [t : STRING, s : STRING, n : Nat]

ASSUME SourceAssumption == Source \subseteq Seq(Token)

VARIABLES tokens,
          position,    \* of the next token, from 1
          variables,   \* the table of variables
          functions,   \* the functions declared so far
          opened,      \* the constructs being parsed, innermost last
          tree,        \* the statements of the result
          failed,      \* is_failed
          fault,       \* the first undefined thing the parser does
          phase

vars == <<tokens, position, variables, functions, opened, tree, failed, fault, phase>>

(***************************************************************************)
(* A token has a type t, a word s and a number or length n.  An operator   *)
(* or a keyword is its own type.  Past the end the current token is the    *)
(* last one, again and again.                                              *)
(***************************************************************************)
TypeToken == {"void", "int", "float", "char"}
LiteralToken == {"number", "string", "character"}
OperatorToken == {"+", "-", "*", "/", "!", "=", "&", ">", "<"}

Ended(p) == p > Len(tokens)
Tok(p) == IF Ended(p) THEN tokens[Len(tokens)] ELSE tokens[p]
Is(p, t) == Tok(p).t = t
Peek(p, k, t) == ~Ended(p + k) /\ Is(p + k, t)
Match(p, t) == IF Is(p, t) THEN p + 1 ELSE p

\* Past the end, a last token that begins an expression does so for ever.
Endless(p) == Ended(p) /\ Tok(p).t \in OperatorToken \cup {"(", "["}

(***************************************************************************)
(* Nodes: kind, operator or name, identifier, number, type, parameters,    *)
(* children.                                                               *)
(***************************************************************************)
NewNode(kind, op, id, num, type, params, kids) ==
    [kind |-> kind, op |-> op, id |-> id, num |-> num, type |-> type,
     params |-> params, kids |-> kids]
Leaf(kind, op, id, num, type) == NewNode(kind, op, id, num, type, <<>>, <<>>)
Tree(kind, op, type, kids) == NewNode(kind, op, 0, 0, type, <<>>, kids)

Zero == Leaf("zero", "", 0, 0, ZeroType)       \* an empty cwr_expression
NoCall == Leaf("call", "", 0, 0, ZeroType)     \* an empty function call
None == Leaf("none", "", 0, 0, ZeroType)       \* absent

BodyOf(stats) == Tree("body", "", ZeroType, stats)
TypesOf(nodes) == [i \in DOMAIN nodes |-> nodes[i].type]
IsBlock(n) == n.kind \in {"for", "if"}

(***************************************************************************)
(* What a function that parses an expression gives back: the expression,   *)
(* the position and is_failed; or the fault that ends the program.  bad    *)
(* says that is_failed is already set when it is called.                   *)
(***************************************************************************)
Gives(node, next, bad) == [node |-> node, next |-> next, failed |-> bad, fault |-> "none"]
Fails(next) == Gives(Zero, next, TRUE)
Faults(f) == [Fails(0) EXCEPT !.fault = f]
Crashed(r) == r.fault # "none"
Good(r) == ~r.failed /\ ~Crashed(r)

\* The function goes on with the result r, unless the program has ended.
\* (TLC evaluates a bound variable once, a definition at every use.)
Then(r, GoOn(_)) == CHOOSE x \in {IF Crashed(v) THEN v ELSE GoOn(v) : v \in {r}} : TRUE

\* Destroy the expression, then fail.
FailsWithout(node, next) == IF node = Zero THEN Faults("destroys nothing") ELSE Fails(next)

\* parser->root and the root links from there.
BodyKind == {"func", "if", "for", "return"}
Bodies == {i \in DOMAIN opened : opened[i].kind \in BodyKind}
Chain == {opened[i].root : i \in Bodies}
Innermost == CHOOSE i \in Bodies : \A j \in Bodies : j <= i
Root == IF Bodies = {} THEN GlobalScope ELSE opened[Innermost].root

(***************************************************************************)
(* Expressions.  rec is the function Expr below, rec[what, p, bad].        *)
(***************************************************************************)
\* cwr_parser_parse_function_call, at the name.
\* Mutated: the identifier is one too high.
Called_OffByOne(f, name, args, next) ==
    IF f = 0 THEN Gives(NoCall, next, TRUE)
    ELSE Gives(NewNode("call", name, f, 0, functions[f].type, <<>>, args), next, FALSE)
Called(f, name, args, next) ==
    IF f = 0 THEN Gives(NoCall, next, TRUE)
    ELSE Gives(NewNode("call", name, f - 1, 0, functions[f].type, <<>>, args), next, FALSE)

Call(rec, p, bad) ==
    IF bad THEN Gives(NoCall, p + 1, TRUE)
    ELSE Then(rec["arguments", p + 2, FALSE],
              LAMBDA args :
                IF args.failed THEN Gives(NoCall, args.next, TRUE)
                ELSE Called(GetFunction(functions, Tok(p).s, TypesOf(args.node.kids)),
                            Tok(p).s, args.node.kids, args.next))

\* Its arguments up to the parenthesis; the commas are optional.
Arguments(rec, p) ==
    IF Is(p, ")") THEN Gives(BodyOf(<<>>), p + 1, FALSE)
    ELSE IF Ended(p) THEN Fails(p)
    ELSE Then(rec["binary", p, FALSE],
              LAMBDA arg :
                IF arg.failed THEN arg
                ELSE Then(rec["arguments", Match(arg.next, ","), FALSE],
                          LAMBDA more : [more EXCEPT !.node = BodyOf(<<arg.node>> \o @.kids)]))

\* cwr_parser_parse_value: a name, something in parentheses, a literal.
NameAt(p, bad) ==
    LET v == GetVariable(variables, Chain, Tok(p).s)
    IN  IF ReadsFreed(variables, v) THEN Faults("reads freed")
        ELSE IF v = 0 THEN Fails(p + 1)
        ELSE Gives(Leaf("var", Tok(p).s, variables[v].id, 0, variables[v].type), p + 1, bad)

Parenthesised(rec, p, bad) ==
    Then(rec["binary", p + 1, bad],
         LAMBDA e : IF e.failed \/ ~Is(e.next, ")") THEN FailsWithout(e.node, Match(e.next, ")"))
                    ELSE [e EXCEPT !.next = @ + 1])

Literal(t) ==
    CASE t.t = "number" /\ t.n % FloatUnit > 0 -> Leaf("float", "", 0, t.n, Made("float", <<>>))
      [] t.t = "number" /\ t.n % FloatUnit = 0 ->
            Leaf("integer", "", 0, t.n \div FloatUnit, Made("int", <<>>))
      [] t.t = "string" -> Leaf("string", "", 0, t.n + 1, Made("char", <<"array">>))
      [] t.t = "character" -> Leaf("character", "", 0, t.n, Made("char", <<>>))

ValueAt(rec, p, bad) ==
    CASE Is(p, "word") /\ Is(p + 1, "(") -> Call(rec, p, bad)
      [] Is(p, "word") /\ ~Is(p + 1, "(") -> NameAt(p, bad)
      [] Is(p, "(") -> Parenthesised(rec, p, bad)
      [] Tok(p).t \in LiteralToken -> Gives(Literal(Tok(p)), p + 1, bad)
      [] OTHER -> Fails(p + 1)

\* cwr_parser_parse_array_element: the value may have failed already.
Element(rec, p, bad) ==
    Then(ValueAt(rec, p, bad),
         LAMBDA v :
           IF ~Is(v.next, "[") THEN v
           ELSE Then(rec["binary", v.next + 1, v.failed],
                     LAMBDA i :
                       IF i.failed \/ ~Is(i.next, "]") THEN FailsWithout(v.node, i.next)
                       ELSE Gives(Tree("element", "", ZeroType, <<v.node, i.node>>),
                                  i.next + 1, FALSE)))

\* cwr_parser_parse_unary: a star takes a pointer from the type, the other
\* operators keep it; in a target (only_value) the stars are left out.
Operated(e, t) ==
    IF t # "*" THEN [e EXCEPT !.node = Tree("unary", t, @.type, <<@>>)]
    ELSE IF e.node.type.to = <<>> THEN Faults("dereferences nothing")
    ELSE [e EXCEPT !.node = Tree("unary", t, [@.type EXCEPT !.to = Tail(@)], <<@>>)]

Unary(rec, p, bad, target) ==
    IF Endless(p) THEN Faults("never returns")
    ELSE IF Tok(p).t \notin OperatorToken THEN Element(rec, p, bad)
    ELSE Then(rec[IF target THEN "target" ELSE "unary", p + 1, bad],
              LAMBDA e : IF e.failed THEN Fails(e.next)
                         ELSE IF target /\ Is(p, "*") THEN e
                         ELSE Operated(e, Tok(p).t))

\* The end of cwr_parser_parse_multiplicative and cwr_parser_parse_binary.  The
\* right operand is what cwr_parser_parse_binary reads, up to a token with
\* which neither of the two loops goes on.
\* Mutated: the operands are swapped.
Operation_Swapped(rec, left, op, p) ==
    Then(rec["binary", p, left.failed],
         LAMBDA right :
           IF right.failed \/ ~IsNumeric(right.node.type) THEN FailsWithout(left.node, right.next)
           ELSE [right EXCEPT !.node = Tree("binary", op, left.node.type, <<@, left.node>>)])
Operation(rec, left, op, p) ==
    Then(rec["binary", p, left.failed],
         LAMBDA right :
           IF right.failed \/ ~IsNumeric(right.node.type) THEN FailsWithout(left.node, right.next)
           ELSE [right EXCEPT !.node = Tree("binary", op, left.node.type, <<left.node, @>>)])

Multiplicative(rec, p, bad) ==
    Then(Unary(rec, p, bad, FALSE),
         LAMBDA left : IF Tok(left.next).t \notin {"*", "/"} THEN left
                       ELSE Operation(rec, left, Tok(left.next).t, left.next + 1))

\* An operator followed by '=' takes it, whether that means something or not.
WithEquals(t) == CASE t = "=" -> "==" [] t = "!" -> "!=" [] t = ">" -> ">="
                   [] t = "<" -> "<=" [] OTHER -> t
Binary(rec, p, bad) ==
    Then(Multiplicative(rec, p, bad),
         LAMBDA left :
           LET t == Tok(left.next).t
           IN  IF t \notin OperatorToken THEN left
               ELSE IF Peek(left.next, 1, "=") THEN Operation(rec, left, WithEquals(t), left.next + 2)
               ELSE IF t = "=" THEN left
               ELSE Operation(rec, left, t, left.next + 1))

Expr[what \in {"binary", "unary", "target", "arguments"}, p \in Nat, bad \in BOOLEAN] ==
    CASE what = "binary" -> Binary(Expr, p, bad)
      [] what = "unary" -> Unary(Expr, p, bad, FALSE)
      [] what = "target" -> Unary(Expr, p, bad, TRUE)
      [] what = "arguments" -> Arguments(Expr, p)

Expression(p) == Expr["binary", p, FALSE]

\* cwr_parser_parse_type and cwr_parser_parse_multidimensional_array: a leaf
\* that has the type.
TypeAt(p) ==
    LET end == FirstOr0({q \in (p + 1)..(p + Len(tokens)) : ~Is(q, "*")})
    IN  IF Tok(p).t \notin TypeToken THEN Fails(p + 1)
        ELSE IF end = 0 THEN Faults("never returns")
        ELSE Gives(Leaf("type", "", 0, 0, Parsed(Tok(p).t, [i \in 1..(end - p - 1) |-> "pointer"])),
                   end, FALSE)

(***************************************************************************)
(* Statements.  An entry of `opened' is a construct with a body: being     *)
(* read, and at root; or a for loop before its body, at its condition, its *)
(* statement (step) or after it (stepped); or a function at its arguments. *)
(***************************************************************************)
Entry(kind, root, node, stats) == [kind |-> kind, root |-> root, node |-> node, stats |-> stats]
Top == opened[Len(opened)]
Below == SubSeq(opened, 1, Len(opened) - 1)
SetTop(e) == Append(Below, e)

\* A body of the parser's is a local of a function that has not returned: a new
\* one is anywhere else.  Of the addresses that no entry of the table names,
\* one stands for all.
Unused == Address \ {opened[i].root : i \in DOMAIN opened}
Stale == Unused \cap {variables[i].root : i \in DOMAIN variables}
NewAddress == Stale \cup (IF Stale = Unused THEN {} ELSE {CHOOSE a \in Unused : a \notin Stale})

Parsing == phase = "parse" /\ ~failed /\ fault = "none"
Fail == failed' = TRUE /\ UNCHANGED <<position, variables, functions, opened, tree, fault>>
Crash(f) == fault' = f /\ UNCHANGED <<position, variables, functions, opened, tree, failed>>
Bad(r) == IF Crashed(r) THEN Crash(r.fault) ELSE Fail
Frame == UNCHANGED <<tokens, phase>>

\* cwr_parser_get_statement.  A `struct' ends it without a value.
StatementAt(p) ==
    LET t == Tok(p).t
    IN  CASE t \in {"for", "if", "return"} -> t
          [] t = "*" \/ (t = "word" /\ Peek(p, 1, "=")) -> "assign"
          [] t = "word" /\ Peek(p, 1, "(") -> "call"
          [] t = "struct" -> "nothing"
          [] t \notin {"for", "if", "return", "*", "word", "struct"}
                /\ (Peek(p, 2, "=") \/ Peek(p, 3, "=")) -> "decl"
          [] OTHER -> "func"

InBody == Parsing /\ opened # <<>> /\ Top.kind \in BodyKind
At(kind) ==
    /\ Parsing /\ opened # <<>>
    /\ \/ Top.kind = "step"
       \/ InBody /\ ~Is(position, "}") /\ ~Ended(position)
    /\ StatementAt(position) = kind

\* cwr_parser_parse_statement after the statement n: one that is not a block
\* needs its semicolon, the statement of a for loop does not look for it.
Finished(st, n, p) ==
    LET e == st[Len(st)]
        rest == SubSeq(st, 1, Len(st) - 1)
    IN  IF e.kind = "step"
        THEN /\ opened' = Append(rest, Entry("stepped", e.root, [e.node EXCEPT !.kids[3] = n], e.stats))
             /\ position' = p
             /\ UNCHANGED failed
        ELSE IF IsBlock(n) \/ Is(p, ";")
        THEN /\ opened' = Append(rest, Entry(e.kind, e.root, e.node, Append(e.stats, n)))
             /\ position' = IF IsBlock(n) THEN p ELSE p + 1
             /\ UNCHANGED failed
        ELSE failed' = TRUE /\ opened' = st /\ UNCHANGED position

\* A statement of which r is the result.
Statement(r) ==
    IF Good(r)
    THEN Finished(opened, r.node, r.next) /\ UNCHANGED <<variables, functions, tree, fault>>
    ELSE Bad(r)

CallStatement ==
    /\ At("call")
    /\ \E r \in {Call(Expr, position, FALSE)} : Statement(r)
    /\ Frame

Assignment(target, value) ==
    IF value.failed \/ ~TypeEquals(target.type, value.node.type) THEN Fails(value.next)
    ELSE [value EXCEPT !.node = Tree("assign", IF Is(position, "*") THEN "*=" ELSE "=", ZeroType,
                                     <<@, target>>)]

AssignmentAt(p) ==
    Then(Expr[IF Is(p, "*") THEN "target" ELSE "unary", p, FALSE],
         LAMBDA target :
           IF target.failed \/ ~Is(target.next, "=") THEN Fails(target.next)
           ELSE Then(Expression(target.next + 1),
                     LAMBDA value : Assignment(target.node, value)))

Assign ==
    /\ At("assign")
    /\ \E r \in {AssignmentAt(position)} : Statement(r)
    /\ Frame

\* cwr_parser_parse_variable_declaration, at the name.  It destroys the type
\* when it fails, unless there is no name.
Declaration(type, p) ==
    IF IsBase(type, "void") \/ ~Is(p, "word") \/ ~Is(p + 1, "=") THEN Fails(p)
    ELSE Then(Expression(p + 2),
              LAMBDA v :
                IF v.failed \/ IsBase(v.node.type, "void") \/ ~TypeEquals(type, v.node.type)
                THEN Fails(v.next)
                ELSE Gives(NewNode("decl", Tok(p).s, NextId(variables), 0, type, <<>>, <<v.node>>),
                           v.next, FALSE))
\* Mutated: it belongs to the body of the function.
Declared_InFunction(d, root) == Variable(d.op, NextId(variables), opened[1].root, d.type)
Declared(d, root) == Variable(d.op, NextId(variables), root, d.type)

Declare ==
    /\ At("decl")
    /\ \E d \in {Then(TypeAt(position),
                      LAMBDA ty : IF ty.failed THEN ty ELSE Declaration(ty.node.type, ty.next))} :
          IF ~Good(d) THEN Bad(d)
          ELSE /\ Finished(opened, d.node, d.next)
               /\ variables' = Append(variables, Declared(d.node, Root))
               /\ UNCHANGED <<functions, tree, fault>>
    /\ Frame

\* The body of a construct begins; its brace is optional.
Open(st, kind, node, p) ==
    /\ \E a \in NewAddress : opened' = Append(st, Entry(kind, a, node, <<>>))
    /\ position' = Match(p, "{")
    /\ UNCHANGED <<variables, functions, tree, failed, fault>>

ReturnNode(value) == Tree("return", "", ZeroType, <<value>>)

Return ==
    /\ At("return")
    /\ \E e \in {Expression(position + 1)} :
          IF ~Good(e) THEN Bad(e)
          ELSE IF Is(e.next, ":") THEN Open(opened, "return", ReturnNode(e.node), e.next + 1)
          ELSE Statement([e EXCEPT !.node = ReturnNode(@)])
    /\ Frame

If ==
    /\ At("if")
    /\ \E e \in {Expression(position + 1)} :
          IF ~Good(e) THEN Bad(e)
          ELSE Open(opened, "if", Tree("if", "", ZeroType, <<e.node>>), e.next)
    /\ Frame

(***************************************************************************)
(* A for loop.  Its variable is declared, and then registered again under  *)
(* the same identifier with no root: for every body of the source.         *)
(***************************************************************************)
ForNode(variable) == Tree("for", "", ZeroType, <<variable, None, None>>)

ForStart ==
    /\ At("for")
    /\ Is(position + 1, "(") /\ Is(position + 2, ";")
    /\ opened' = Append(opened, Entry("condition", GlobalScope, ForNode(None), <<>>))
    /\ position' = position + 3
    /\ UNCHANGED <<variables, functions, tree, failed, fault>> /\ Frame

\* The type of a declaration that fails is destroyed by both functions.
ForDeclaration(ty) ==
    IF ty.failed THEN ty
    ELSE Then(Declaration(ty.node.type, ty.next),
              LAMBDA d : IF d.failed /\ Is(ty.next, "word") /\ ty.node.type.to # <<>>
                         THEN Faults("destroys twice") ELSE d)

ForVariable ==
    /\ At("for")
    /\ ~(Is(position + 1, "(") /\ Is(position + 2, ";"))
    /\ \E d \in {IF ~Is(position + 1, "(") THEN Fails(position + 1)
                 ELSE Then(TypeAt(position + 2), LAMBDA ty : ForDeclaration(ty))} :
          IF ~Good(d) THEN Bad(d)
          ELSE IF ~Is(d.next, ";") THEN Fail
          ELSE /\ variables' = variables \o <<Declared(d.node, Root), Declared(d.node, GlobalScope)>>
               /\ opened' = Append(opened, Entry("condition", GlobalScope, ForNode(d.node), <<>>))
               /\ position' = d.next + 1
               /\ UNCHANGED <<functions, tree, failed, fault>>
    /\ Frame

\* After the condition: the statement, or the body.
ForRest(condition, p) ==
    LET node == [Top.node EXCEPT !.kids[2] = condition]
    IN  IF Is(p, ")") THEN Open(Below, "for", node, p + 1)
        ELSE /\ opened' = SetTop(Entry("step", GlobalScope, node, <<>>))
             /\ position' = p
             /\ UNCHANGED <<variables, functions, tree, failed, fault>>

\* A condition that is not an int: the loop is destroyed, with the name of its
\* variable, and comes back as an empty statement, without an error.
ForCondition ==
    /\ Parsing /\ opened # <<>> /\ Top.kind = "condition"
    /\ \E e \in {Expression(position)} :
          IF Is(position, ";") THEN ForRest(None, position + 1)
          ELSE IF ~Good(e) THEN Bad(e)
          ELSE IF IsBase(e.node.type, "int") /\ ~Is(e.next, ";") THEN Fail
          ELSE IF IsBase(e.node.type, "int") THEN ForRest(e.node, e.next + 1)
          ELSE /\ Finished(Below, ForNode(None), e.next)
               /\ variables' = IF Top.node.kids[1] = None THEN variables ELSE FreeLast(variables)
               /\ UNCHANGED <<functions, tree, fault>>
    /\ Frame

ForBody ==
    /\ Parsing /\ opened # <<>> /\ Top.kind = "stepped"
    /\ IF Is(position, ")") THEN Open(Below, "for", Top.node, position + 1) ELSE Fail
    /\ Frame

(***************************************************************************)
(* Functions.                                                              *)
(***************************************************************************)
FunctionHead ==
    /\ Parsing /\ opened = <<>> /\ tokens # <<>> /\ ~Ended(position)
    /\ LET ty == TypeAt(position)
           p == ty.next
       IN  IF Is(position, "struct") THEN Crash("returns nothing")
           ELSE IF StatementAt(position) # "func" THEN Fail
           ELSE IF ~Good(ty) THEN Bad(ty)
           ELSE IF ~Is(p, "word") \/ ~Is(p + 1, "(") THEN Fail
           ELSE /\ \E a \in NewAddress :
                    opened' = <<Entry("arguments", a,
                                      Leaf("func", Tok(p).s, Len(functions), 0, ty.node.type), <<>>)>>
                /\ position' = p + 2
                /\ UNCHANGED <<variables, functions, tree, failed, fault>>
    /\ Frame

WithParameter(node, v) ==
    [node EXCEPT !.params = Append(@, [id |-> v.id, name |-> v.name, type |-> v.type])]

InArguments == Parsing /\ opened # <<>> /\ Top.kind = "arguments"

Argument ==
    /\ InArguments /\ ~Is(position, ")")
    /\ LET ty == TypeAt(position)
           v == Variable(Tok(ty.next).s, NextId(variables), Top.root, ty.node.type)
       IN  IF Ended(position) THEN Fail
           ELSE IF ~Good(ty) THEN Bad(ty)
           ELSE IF ~Is(ty.next, "word") THEN Fail
           ELSE /\ variables' = Append(variables, v)
                /\ opened' = SetTop(Entry("arguments", Top.root, WithParameter(Top.node, v), <<>>))
                /\ position' = Match(ty.next + 1, ",")
                /\ UNCHANGED <<functions, tree, failed, fault>>
    /\ Frame

\* The function is registered before its body is read; a prototype has no body.
ArgumentsEnd ==
    /\ InArguments /\ Is(position, ")")
    /\ functions' = Append(functions, Function(Top.node.op, TypesOf(Top.node.params), Top.node.type))
    /\ IF Is(position + 1, ";")
       THEN /\ variables' = ClearScope(variables, Top.root)
            /\ tree' = Append(tree, Top.node)
            /\ opened' = Below
            /\ position' = Match(position + 2, ";")
       ELSE /\ opened' = SetTop(Entry("func", Top.root, Top.node, <<>>))
            /\ position' = Match(position + 1, "{")
            /\ UNCHANGED <<variables, tree>>
    /\ UNCHANGED <<failed, fault>> /\ Frame

(***************************************************************************)
(* The end of a body: its variables leave the table, and the construct is  *)
(* a statement of the body around it.                                      *)
(***************************************************************************)
Closed(e) == [e.node EXCEPT !.kids = Append(@, BodyOf(e.stats))]

EndBody ==
    /\ InBody /\ Is(position, "}")
    /\ variables' = ClearScope(variables, Top.root)
    /\ IF Top.kind = "func"
       THEN /\ tree' = Append(tree, Closed(Top))
            /\ opened' = Below
            /\ position' = Match(position + 1, ";")
            /\ UNCHANGED failed
       ELSE Finished(Below, Closed(Top), position + 1) /\ UNCHANGED tree
    /\ UNCHANGED <<functions, fault>> /\ Frame

\* A body that does not end, and what is not a statement.
\* Mutated: the loop over the statements does not end with the tokens.
MissingBrace_Loops ==
    /\ InBody /\ ~Is(position, "}") /\ Ended(position)
    /\ UNCHANGED vars
MissingBrace ==
    /\ InBody /\ ~Is(position, "}") /\ Ended(position)
    /\ Fail /\ Frame

UnknownStatement == At("func") /\ Fail /\ Frame

StructStatement == At("nothing") /\ Crash("returns nothing") /\ Frame

(***************************************************************************)
(* cwr_parser_parse: an empty list has no last token either.               *)
(***************************************************************************)
Empty == Parsing /\ tokens = <<>> /\ Crash("reads no token") /\ Frame

Finish ==
    /\ phase = "parse" /\ fault = "none"
    /\ failed \/ (tokens # <<>> /\ opened = <<>> /\ Ended(position))
    /\ phase' = "done"
    /\ UNCHANGED <<tokens, position, variables, functions, opened, tree, failed, fault>>

Init ==
    /\ tokens \in Source
    /\ position = 1
    /\ variables = <<>> /\ functions = <<>>
    /\ opened = <<>> /\ tree = <<>>
    /\ failed = FALSE /\ fault = "none"
    /\ phase = "parse"

Step == \/ FunctionHead \/ Argument \/ ArgumentsEnd
        \/ CallStatement \/ Assign \/ Declare \/ Return \/ If
        \/ ForStart \/ ForVariable \/ ForCondition \/ ForBody
        \/ EndBody \/ MissingBrace \/ UnknownStatement \/ StructStatement
        \/ Empty \/ Finish

Stopped == (phase = "done" \/ fault # "none") /\ UNCHANGED vars

Next == Step \/ Stopped

Spec == Init /\ [][Next]_vars

\* The parser is one sequential program: it always takes its next step.
FairSpec == Spec /\ WF_vars(Step)
===============================================================================
