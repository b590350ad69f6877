--------------------------- MODULE CwrTreeProperties ---------------------------
(***************************************************************************)
(* What the tree of an accepted source says, against the source.           *)
(***************************************************************************)
EXTENDS CwrParserProperties

Accepted == phase = "done" /\ ~failed

RECURSIVE Within(_)
Within(n) == {n} \cup UNION {Within(n.kids[i]) : i \in DOMAIN n.kids}
Nodes == UNION {Within(tree[i]) : i \in DOMAIN tree}

(***************************************************************************)
(* Names.  A reference resolution that knows nothing of tables and roots:  *)
(* env is the list of the names declared around a node, outermost first.   *)
(***************************************************************************)
RECURSIVE After(_, _)
After(n, env) ==
    CASE n.kind = "decl" -> Append(env, n.op)
      [] n.kind = "for" -> After(n.kids[3], env)
      [] OTHER -> env

RECURSIVE Resolves(_, _), AllResolve(_, _)
Resolves(n, env) ==
    /\ n.kind = "var" => n.id + 1 = FirstOr0({i \in DOMAIN env : env[i] = n.op})
    /\ n.kind = "decl" => n.id = Len(env)
    /\ AllResolve(n.kids, env)
AllResolve(nodes, env) ==
    nodes = <<>> \/ (Resolves(Head(nodes), env) /\ AllResolve(Tail(nodes), After(Head(nodes), env)))

Names(params) == [i \in DOMAIN params |-> params[i].name]

\* In an accepted source every name stands for the first declaration of that
\* name among the ones in scope there (an outer one hides an inner one), its
\* identifier is the number of variables in scope before it, and a body's
\* names end with it: the static counterpart of what the interpreter's
\* cwr_scope_get looks up (sources without a loop variable).
NamesResolve ==
    Accepted /\ NoLoopVariable =>
        \A k \in DOMAIN tree : LET f == tree[k] IN
            /\ \A i \in DOMAIN f.params : f.params[i].id = i - 1
            /\ AllResolve(f.kids, Names(f.params))

\* A call's identifier, which the interpreter looks up among the functions it
\* registers from the statements of the tree, is the position of a function
\* of that name declared before the call (or around it) that accepts its
\* arguments, and no earlier one does.
Fits(call, f) ==
    /\ f.op = call.op
    /\ Len(f.params) = Len(call.kids)
    /\ \A i \in DOMAIN f.params : TypeEquals(f.params[i].type, call.kids[i].type)
CallsMeetFunctions ==
    Accepted =>
        \A k \in DOMAIN tree : \A n \in Within(tree[k]) : n.kind = "call" =>
            n.id + 1 = FirstOr0({i \in 1 .. k : Fits(n, tree[i])})

(***************************************************************************)
(* Tokens.  Brackets, commas, semicolons, colons, stars and equals signs   *)
(* are left out: the types and operators say where they were.              *)
(***************************************************************************)
Unsaid == {"(", ")", "{", "[", "]", ",", ";", ":", "*", "="}
Said(ts) == LET kept == SelectSeq(ts, LAMBDA t : t.t \notin Unsaid)
            IN  [i \in DOMAIN kept |-> IF kept[i].t = "word" THEN kept[i].s ELSE kept[i].t]

OpSaid(op) ==
    CASE op = "!=" -> <<"!">> [] op = ">=" -> <<">">> [] op = "<=" -> <<"<">>
      [] op \in {"*", "=", "=="} -> <<>> [] OTHER -> <<op>>

RECURSIVE Written(_), AllWritten(_)
AllWritten(nodes) == IF nodes = <<>> THEN <<>> ELSE Written(Head(nodes)) \o AllWritten(Tail(nodes))
Body(n) == AllWritten(n.kids) \o <<"}">>
BodyAt(kids, i) == IF i \in DOMAIN kids THEN Body(kids[i]) ELSE <<>>

RECURSIVE Parameters(_)
Parameters(ps) == IF ps = <<>> THEN <<>>
                  ELSE <<Head(ps).type.base, Head(ps).name>> \o Parameters(Tail(ps))

\* The tokens a node stands for.
Written(n) ==
    CASE n.kind = "func" -> <<n.type.base, n.op>> \o Parameters(n.params) \o BodyAt(n.kids, 1)
      [] n.kind = "decl" -> <<n.type.base, n.op>> \o AllWritten(n.kids)
      [] n.kind = "assign" -> Written(n.kids[2]) \o Written(n.kids[1])
      [] n.kind = "if" -> <<"if">> \o Written(n.kids[1]) \o Body(n.kids[2])
      [] n.kind = "return" -> <<"return">> \o Written(n.kids[1]) \o BodyAt(n.kids, 2)
      [] n.kind = "for" -> <<"for">> \o AllWritten(SubSeq(n.kids, 1, 3)) \o BodyAt(n.kids, 4)
      [] n.kind = "binary" -> Written(n.kids[1]) \o OpSaid(n.op) \o Written(n.kids[2])
      [] n.kind = "unary" -> OpSaid(n.op) \o Written(n.kids[1])
      [] n.kind = "element" -> AllWritten(n.kids)
      [] n.kind \in {"call", "var"} -> <<n.op>> \o AllWritten(n.kids)
      [] n.kind \in {"integer", "float"} -> <<"number">>
      [] n.kind \in {"string", "character"} -> <<n.kind>>
      [] n.kind = "none" -> <<>>

\* A loop whose condition is not an int is dropped without an error
\* (source/cwr_parser.c:629).
LoopDropped == \E n \in Nodes : n.kind = "for" /\ Len(n.kids) = 3

\* What the parser has read: past the end it reads the last token again, so
\* that a last `}' ends every open body.
ReadTokens == [i \in 1 .. position - 1 |-> Tok(i)]

\* The tree of an accepted source has every operand, operator, statement and
\* end of a block of the source, once and in its order, but for dropped loops.
TokensKept ==
    Accepted /\ ~LoopDropped => AllWritten(tree) = Said(ReadTokens)
===============================================================================
