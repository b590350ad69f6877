-------------------------- MODULE CwrParserProperties --------------------------
(***************************************************************************)
(* What the parser should do, over the state of CwrParser.                 *)
(***************************************************************************)
EXTENDS CwrParser, Selection

CONSTANT MaxVariables   \* no source of the run has more variables in scope

ASSUME VariablesAssumption == MaxVariables \in Nat

(***************************************************************************)
(* Types.                                                                  *)
(***************************************************************************)
OpenKind == BodyKind \cup {"arguments", "condition", "step", "stepped"}

\* The types of the tables and of the constructs being parsed: a body and the
\* arguments before it have an address, the head of a for loop has none.
TypeOK ==
    /\ position \in Nat \ {0}
    /\ \A i \in DOMAIN variables :
        variables[i].id \in Nat /\ variables[i].root \in Address \cup {GlobalScope}
    /\ \A i \in DOMAIN opened :
        /\ opened[i].kind \in OpenKind
        /\ opened[i].root \in IF opened[i].kind \in BodyKind \cup {"arguments"}
                              THEN Address ELSE {GlobalScope}
    /\ failed \in BOOLEAN
    /\ phase \in {"parse", "done"}

(***************************************************************************)
(* The table of variables.                                                 *)
(***************************************************************************)
\* The constructs an entry of the table belongs to.
Owners(v) == {k \in DOMAIN opened : opened[k].root = v.root /\ v.root # GlobalScope}

\* The table is the stack of the open scopes laid end to end: an entry is at
\* the position its identifier says, belongs to a body that is being parsed,
\* and never lies below an entry of an outer body.  cwr_parser_clear_scope
\* depends on it: it drops the last entry for each match; and so does the
\* interpreter, which finds variables by these identifiers.
TableIsScopes ==
    /\ \A i \in DOMAIN variables :
        variables[i].id = i - 1 /\ Owners(variables[i]) # {}
    /\ \A i, j \in DOMAIN variables : i <= j =>
        \E k \in Owners(variables[i]), l \in Owners(variables[j]) : k <= l

\* The parser is at a for loop that declares a variable.
AtLoopVariable ==
    At("for") /\ Is(position + 1, "(") /\ Tok(position + 2).t \in TypeToken

\* As long as no for loop declares a variable, the table is the open scopes:
\* the second registration of a loop's variable (source/cwr_parser.c:607) is
\* the one thing that breaks it.
ScopesUnlessLoopVariable == []~AtLoopVariable => []TableIsScopes

(***************************************************************************)
(* The table implements the abstract scopes of LexicalScopes: a body, or   *)
(* the arguments of a function, is a scope, and binds names to identifiers.*)
(***************************************************************************)
\* No for loop of the source declares a variable.
NoLoopVariable ==
    \A i \in DOMAIN tokens :
        i + 2 \in DOMAIN tokens /\ tokens[i].t = "for" /\ tokens[i + 1].t = "(" =>
            tokens[i + 2].t \notin TypeToken

\* The constructs that are a scope, and of each what is bound in it.
Scoped(os) == {k \in DOMAIN os : os[k].root # GlobalScope}
Binding(v) == [id |-> v.name, val |-> v.id]
Bound(root, vs) ==
    Selected([i \in DOMAIN vs |-> Binding(vs[i])],
             {i \in DOMAIN vs : vs[i].root = root})[Len(vs)]
Scope(e, vs) == [sees |-> e.kind \notin {"func", "arguments"}, vars |-> Bound(e.root, vs)]

ScopesOf(os, vs) == Selected([k \in DOMAIN os |-> Scope(os[k], vs)], Scoped(os))[Len(os)]
Scopes == ScopesOf(opened, variables)

Words == UNION {{ts[i].s : i \in DOMAIN ts} : ts \in Source}
Identifiers == 0 .. MaxVariables

Lexical == INSTANCE LexicalScopes WITH
    scopes <- IF NoLoopVariable THEN Scopes ELSE <<>>, Id <- Words, Value <- Identifiers

\* The table, its root links and cwr_parser_clear_scope implement a stack of
\* lexical scopes: the end of a body forgets the variables of that body and
\* nothing else, a declaration goes to the innermost one.
ImplementsLexicalScopes == Lexical!Spec

(***************************************************************************)
(* Progress.                                                               *)
(***************************************************************************)
\* Every source is accepted or refused, or makes the parser do something
\* undefined: none keeps one of its loops busy for ever.
Terminates == <>(phase = "done" \/ fault # "none")
===============================================================================
