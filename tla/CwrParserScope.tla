---------------------------- MODULE CwrParserScope ----------------------------
(***************************************************************************)
(* What the parser knows of the names of a program (source/cwr_parser.c)   *)
(* and of types (includes/parser/cwr_node.h).                              *)
(*                                                                         *)
(* The variables are one table for the whole source.  An entry carries the *)
(* body it is visible in: the address of a local of the parser's function  *)
(* that parses the body, or GlobalScope.  The chain of root links from the *)
(* body being parsed outwards is the set of their addresses.               *)
(***************************************************************************)
EXTENDS Integers, Sequences, FiniteSets

CONSTANTS Address,      \* of the bodies, on the C stack
          GlobalScope   \* no body

ASSUME AddressAssumption == GlobalScope \notin Address

(***************************************************************************)
(* Types.  `to' lists the pointers and arrays around the base type.  The   *)
(* base types of a source have identifier -1, those the parser makes up    *)
(* for literals (made) have 0.                                             *)
(***************************************************************************)
BaseType == {"char", "float", "int", "void"}
Parsed(base, to) == [to |-> to, base |-> base, made |-> FALSE]
Made(base, to) == [to |-> to, base |-> base, made |-> TRUE]
ZeroType == Made("char", <<>>)              \* what an empty record says

IsBase(t, base) == t.to = <<>> /\ t.base = base
IsNumeric(t) == IsBase(t, "float") \/ IsBase(t, "int")

\* cwr_expression_type_value_equals: a pointer takes an array or a pointer,
\* a float an int, and a type that was made up only a type that was made up.
TypeEquals(t, u) ==
    /\ Len(t.to) = Len(u.to)
    /\ \A i \in DOMAIN t.to : t.to[i] = "array" => u.to[i] = "array"
    /\ IF t.made THEN u.made /\ t.base = u.base
       ELSE t.base = u.base \/ (t.base = "float" /\ u.base = "int")

(***************************************************************************)
(* The table of variables.                                                 *)
(***************************************************************************)
Variable(name, id, root, type) == [name |-> name, id |-> id, root |-> root, type |-> type]

\* The identifier of the next variable is the length of the table.
\* Mutated: the index of the last one.
NextId_Last(vs) == Len(vs) - 1
NextId(vs) == Len(vs)

\* cwr_func_body_can_access.
CanAccess(v, chain) == v.root = GlobalScope \/ v.root \in chain

\* cwr_parser_clear_scope: for every entry of the body, the last entry leaves.
OfRoot(vs, root) == {i \in DOMAIN vs : vs[i].root = root}
\* Mutated: the first entry of the table is not looked at; one entry is left.
ClearScope_FromSecond(vs, root) ==
    SubSeq(vs, 1, Len(vs) - Cardinality(OfRoot(vs, root) \ {1}))
ClearScope_OneLeft(vs, root) ==
    LET n == Cardinality(OfRoot(vs, root))
    IN  SubSeq(vs, 1, Len(vs) - (IF n = 0 THEN 0 ELSE n - 1))
ClearScope(vs, root) == SubSeq(vs, 1, Len(vs) - Cardinality(OfRoot(vs, root)))

\* cwr_parser_get_variable: the first entry with the name that is visible, 0
\* if there is none.  Every entry up to that one has its name read.
First(S) == CHOOSE i \in S : \A j \in S : i <= j
FirstOr0(S) == IF S = {} THEN 0 ELSE First(S)
\* Mutated: the last one.
GetVariable_Last(vs, chain, name) ==
    LET found == {i \in DOMAIN vs : vs[i].name = name /\ CanAccess(vs[i], chain)}
    IN  IF found = {} THEN 0 ELSE CHOOSE i \in found : \A j \in found : j <= i
GetVariable(vs, chain, name) ==
    FirstOr0({i \in DOMAIN vs : vs[i].name = name /\ CanAccess(vs[i], chain)})

\* The name of an entry whose declaration has been destroyed: both entries of
\* the variable of a for loop.
Freed == "freed"
Nameless(v) == Variable(Freed, v.id, v.root, v.type)
FreeLast(vs) == [i \in DOMAIN vs |-> IF i > Len(vs) - 2 THEN Nameless(vs[i]) ELSE vs[i]]
ReadsFreed(vs, found) ==
    \E i \in DOMAIN vs : vs[i].name = Freed /\ (found = 0 \/ i < found)

(***************************************************************************)
(* The functions: cwr_parser_get_function takes the first one with the     *)
(* name and parameters that accept the arguments.                          *)
(***************************************************************************)
Function(name, types, type) == [name |-> name, types |-> types, type |-> type]

\* Mutated: the types are not compared.
GetFunction_AnyTypes(fs, name, types) ==
    FirstOr0({i \in DOMAIN fs : fs[i].name = name /\ Len(fs[i].types) = Len(types)})
GetFunction(fs, name, types) ==
    FirstOr0({i \in DOMAIN fs :
                /\ fs[i].name = name
                /\ Len(fs[i].types) = Len(types)
                /\ \A k \in DOMAIN types : TypeEquals(fs[i].types[k], types[k])})
===============================================================================
