------------------------------ MODULE CwrValue ------------------------------
(***************************************************************************)
(* The values of the interpreter and the C heap they live in               *)
(* (includes/interpreter/cwr_value.h).                                     *)
(*                                                                         *)
(* A memory is a record [cells, fault].  cells[a] is the block malloc gave *)
(* at address a: a cwr_value, or the raw "block" a value's array union     *)
(* points to.  fault names the first undefined memory operation of the     *)
(* program, "none" while there is none; the interpreter stops at it.       *)
(*                                                                         *)
(* A number is kept as an integer.  A float cell counts in units of        *)
(* 1/FloatUnit.  The text of a string is one character code per block.     *)
(***************************************************************************)
EXTENDS Integers

CONSTANTS Addr,        \* the addresses malloc can return
          NULL,        \* the null pointer
          Garbage,     \* what reading the wrong union member can give
          FloatUnit    \* the resolution of a float cell

ASSUME AddrAssumption == NULL \notin Addr
ASSUME GarbageAssumption == Garbage \subseteq Int /\ Garbage # {}
ASSUME FloatUnitAssumption == FloatUnit \in Nat \ {0}

\* What a C pointer variable can hold.
Pointers == Addr \cup {NULL}

ValueType == {"void", "int", "float", "char", "array", "pointer"}

Cell == [type  : ValueType \cup {"free", "block"},
         refs  : Int,                 \* references_count
         num   : Int,                 \* float_n, integer_n or character
         elem  : ValueType,           \* array.type
         cap   : Nat,                 \* array.capacity
         isref : BOOLEAN,             \* array.is_reference
         buf   : Pointers]    \* the array's pointer, or values[0]

Fault == {"none", "null_dereference", "use_after_free", "double_free",
          "wild_pointer"}

Memory == [cells : [Addr -> Cell], fault : Fault]

\* A cell with no reference yet.
NewCell(type, num, elem, cap, isref, buf) ==
    [type |-> type, refs |-> 0, num |-> num, elem |-> elem, cap |-> cap,
     isref |-> isref, buf |-> buf]

FreeCell == NewCell("free", 0, "void", 0, FALSE, NULL)

EmptyMemory == [cells |-> [a \in Addr |-> FreeCell], fault |-> "none"]

(***************************************************************************)
(* The allocator.                                                          *)
(***************************************************************************)
Live(m, a) == a \in Addr /\ m.cells[a].type # "free"

CanMalloc(m) == \E a \in Addr : ~Live(m, a)
New(m) == CHOOSE a \in Addr : ~Live(m, a)
Put(m, c) == [m EXCEPT !.cells[New(m)] = c]

Raise(m, f) == [m EXCEPT !.fault = IF @ = "none" THEN f ELSE @]

\* A read through the pointer a.
Touch(m, a) ==
    IF Live(m, a) THEN m
    ELSE Raise(m, IF a = NULL THEN "null_dereference" ELSE "use_after_free")

\* The cell a read through a sees; after a fault its content is irrelevant.
At(m, a) == IF a \in Addr THEN m.cells[a] ELSE FreeCell

\* free(): a null pointer is ignored.
Free(m, a) ==
    IF a = NULL THEN m
    ELSE IF Live(m, a) THEN [m EXCEPT !.cells[a] = FreeCell]
    ELSE Raise(m, "double_free")

(***************************************************************************)
(* Construction.                                                           *)
(***************************************************************************)
Scalar(type, n) == NewCell(type, n, "void", 0, FALSE, NULL)
Block(n, target) == NewCell("block", n, "void", 0, FALSE, target)
Array(elem, cap, buf) == NewCell("array", 0, elem, cap, FALSE, buf)
Pointer(elem) == NewCell("pointer", 0, elem, 1, TRUE, NULL)

(***************************************************************************)
(* Destruction and reference counts.                                       *)
(***************************************************************************)
ArrayDestroy(m, c) ==
    IF c.isref \/ (c.cap > 0 /\ c.elem \in {"char", "float", "int"})
    THEN Free(m, c.buf) ELSE m

InstanceDestroy(m, a) ==
    IF ~Live(m, a) THEN Touch(m, a)
    ELSE Free(IF m.cells[a].type \in {"pointer", "array"}
              THEN ArrayDestroy(m, m.cells[a]) ELSE m, a)

\* Mutated: a value with one reference is not spared.
RuntimeDestroy_OffByOne(m, a) ==
    IF Live(m, a) /\ m.cells[a].refs > 1 THEN m ELSE InstanceDestroy(m, a)

RuntimeDestroy(m, a) ==
    IF Live(m, a) /\ m.cells[a].refs > 0 THEN m ELSE InstanceDestroy(m, a)

\* Mutated: the count is set, not incremented.
AddReference_Sets(m, a) ==
    IF Live(m, a) THEN [m EXCEPT !.cells[a].refs = 1] ELSE Touch(m, a)

AddReference(m, a) ==
    IF Live(m, a) THEN [m EXCEPT !.cells[a].refs = @ + 1] ELSE Touch(m, a)

\* Mutated: destroyed with one reference left.
RemoveReference_OffByOne(m, a) ==
    IF ~Live(m, a) THEN Touch(m, a)
    ELSE LET lowered == [m EXCEPT !.cells[a].refs = @ - 1]
         IN  IF lowered.cells[a].refs <= 1 THEN InstanceDestroy(lowered, a)
             ELSE lowered

RemoveReference(m, a) ==
    IF ~Live(m, a) THEN Touch(m, a)
    ELSE LET lowered == [m EXCEPT !.cells[a].refs = @ - 1]
         IN  IF lowered.cells[a].refs <= 0 THEN InstanceDestroy(lowered, a)
             ELSE lowered

(***************************************************************************)
(* cwr_value_set: only array, character, integer and float targets are     *)
(* stored to.  A value of another type is read through the wrong member of *)
(* the union (garbage).                                                    *)
(***************************************************************************)
\* Mutated: the old array is not destroyed.
SetArray_KeepsOld(m, target, v) ==
    LET c == At(m, v)
    IN  IF c.type \notin {"array", "pointer"} THEN Raise(m, "wild_pointer")
        ELSE [m EXCEPT !.cells[target] =
                 [c EXCEPT !.type = "array", !.refs = m.cells[target].refs]]

SetArray(m, target, v) ==
    LET freed == ArrayDestroy(m, At(m, target))
        c == At(freed, v)
    IN  IF ~Live(freed, target) THEN Touch(freed, target)
        ELSE IF c.type \notin {"array", "pointer"} THEN Raise(freed, "wild_pointer")
        ELSE [freed EXCEPT !.cells[target] =
                 [c EXCEPT !.type = "array", !.refs = freed.cells[target].refs]]

Set(m, target, v, garbage) ==
    IF ~Live(m, target) THEN Touch(m, target)
    ELSE IF m.cells[target].type \notin {"array", "char", "int", "float"} THEN m
    ELSE IF ~Live(m, v) THEN Touch(m, v)
    ELSE IF m.cells[target].type = "array" THEN SetArray(m, target, v)
    ELSE [m EXCEPT !.cells[target].num =
             IF m.cells[v].type = m.cells[target].type THEN m.cells[v].num ELSE garbage]

(***************************************************************************)
(* Conversions and arithmetic.  Every binary operator computes in float.   *)
(***************************************************************************)
Truncate(n, d) == IF n >= 0 THEN n \div d ELSE -((-n) \div d)

AsFloat(c, garbage) ==
    IF c.type = "int" THEN c.num * FloatUnit
    ELSE IF c.type = "float" THEN c.num ELSE garbage

AsInteger(c, garbage) ==
    IF c.type = "float" THEN Truncate(c.num, FloatUnit)
    ELSE IF c.type = "int" THEN c.num ELSE garbage

FloatBool(b) == IF b THEN FloatUnit ELSE 0

Divide(l, r) == IF r > 0 THEN Truncate(l * FloatUnit, r)
                ELSE Truncate(-l * FloatUnit, -r)

BinaryOp == {"+", "-", "*", "/", "==", "!=", "<", ">", "<=", ">="}

Compute(op, l, r) ==
    CASE op = "+"  -> l + r
      [] op = "-"  -> l - r
      [] op = "*"  -> Truncate(l * r, FloatUnit)
      [] op = "/"  -> Divide(l, r)
      [] op = "==" -> FloatBool(l = r)
      [] op = "!=" -> FloatBool(l # r)
      [] op = "<"  -> FloatBool(l < r)
      [] op = ">"  -> FloatBool(l > r)
      [] op = "<=" -> FloatBool(l <= r)
      [] op = ">=" -> FloatBool(l >= r)

\* The value of the binary operator: a float if either operand is one, an
\* integer otherwise (the float result converted to int).
BinaryValue(op, left, right, garbage) ==
    LET result == Compute(op, AsFloat(left, garbage), AsFloat(right, garbage))
    IN  IF "float" \in {left.type, right.type} THEN Scalar("float", result)
        ELSE Scalar("int", Truncate(result, FloatUnit))

\* The value of unary minus and of negation.
UnaryValue(op, c, garbage) ==
    LET n == IF c.type = "float" THEN c.num ELSE AsInteger(c, garbage)
        type == IF c.type = "float" THEN "float" ELSE "int"
        one == IF c.type = "float" THEN FloatUnit ELSE 1
    IN  Scalar(type, IF op = "-" THEN -n ELSE IF n = 0 THEN one ELSE 0)

\* What cwr_value_at and the dereference of an array give: an element of the
\* array's type; through a reference the slot is read as if it held elements.
Element(m, c, garbage) ==
    Scalar(c.elem, IF c.isref THEN garbage ELSE At(m, c.buf).num)
=============================================================================
