---------------------------- MODULE CwrTypeProofs ---------------------------
(***************************************************************************)
(* The interpreter keeps its types (TypeCorrect) and an error stops the    *)
(* program (ErrorsSeen, ErrorsStop): for every program, heap and number of *)
(* allocation failures.                                                    *)
(*                                                                         *)
(* The lemmas about the memory come first: each operator of CwrValue maps  *)
(* a memory to a memory, and one that destroys brings no block to life.    *)
(* ErrorSeen is inductive relative to TypeOK, and FailStop follows from    *)
(* it: an activation that has not just got a result, or is not destroying  *)
(* its body, does not run after an error.                                  *)
(***************************************************************************)
EXTENDS CwrProperties, TLAPS

\* Every block allocated in n is allocated in m.
NoNew(m, n) == \A a \in Addr : Live(n, a) => Live(m, a)

\* A block malloc chooses is an address that is not allocated.
LEMMA NewFree ==
    ASSUME NEW m, CanMalloc(m)
    PROVE  New(m) \in Addr /\ ~Live(m, New(m))
BY DEF CanMalloc, New

\* The initial content of a block is a cell.
LEMMA FreeCellType == FreeCell \in Cell
BY DEF FreeCell, NewCell, Cell, ValueType, Pointers

\* Whatever it points to, a read gives a cell.
LEMMA AtType ==
    ASSUME NEW m \in Memory, NEW a PROVE At(m, a) \in Cell
BY FreeCellType DEF At, Memory

\* The constructors of values give cells that are not free.
LEMMA ConstructorTypes ==
    /\ \A type \in ValueType, n \in Int : Scalar(type, n) \in Cell
    /\ \A n \in Int, p \in Pointers : Block(n, p) \in Cell
    /\ \A elem \in ValueType, cap \in Nat, p \in Pointers : Array(elem, cap, p) \in Cell
    /\ \A elem \in ValueType : Pointer(elem) \in Cell
BY DEF Scalar, Block, Array, Pointer, NewCell, Cell, ValueType, Pointers

\* malloc followed by the initialization of the block.
LEMMA PutType ==
    ASSUME NEW m \in Memory, NEW c \in Cell, CanMalloc(m)
    PROVE  Put(m, c) \in Memory
BY NewFree DEF Put, Memory

\* Reporting a fault, or reading through a pointer, leaves the blocks alone.
LEMMA RaiseType ==
    ASSUME NEW m \in Memory, NEW f \in Fault
    PROVE  Raise(m, f) \in Memory /\ NoNew(m, Raise(m, f))
BY DEF Raise, Memory, NoNew, Live

\* A read changes no block.
LEMMA TouchType ==
    ASSUME NEW m \in Memory, NEW a
    PROVE  Touch(m, a) \in Memory /\ NoNew(m, Touch(m, a))
<1>1. "null_dereference" \in Fault /\ "use_after_free" \in Fault
  BY DEF Fault
<1>2. QED
  BY <1>1, RaiseType DEF Touch, NoNew

\* free() of any pointer.
LEMMA FreeType ==
    ASSUME NEW m \in Memory, NEW a
    PROVE  Free(m, a) \in Memory /\ NoNew(m, Free(m, a))
<1>1. "double_free" \in Fault
  BY DEF Fault
<1>2. CASE a # NULL /\ Live(m, a)
  BY <1>2, FreeCellType DEF Free, Memory, NoNew, Live, FreeCell, NewCell
<1>3. CASE ~(a # NULL /\ Live(m, a))
  BY <1>1, <1>3, RaiseType DEF Free, NoNew
<1>4. QED
  BY <1>2, <1>3

\* Nothing new after two steps that bring nothing new.
LEMMA NoNewTransitive ==
    ASSUME NEW k, NEW m, NEW n, NoNew(k, m), NoNew(m, n)
    PROVE  NoNew(k, n)
BY DEF NoNew

\* cwr_value_array_destroy.
LEMMA ArrayDestroyType ==
    ASSUME NEW m \in Memory, NEW c \in Cell
    PROVE  ArrayDestroy(m, c) \in Memory /\ NoNew(m, ArrayDestroy(m, c))
BY FreeType DEF ArrayDestroy, NoNew

\* cwr_value_instance_destroy of any pointer, null and freed ones included.
LEMMA InstanceDestroyType ==
    ASSUME NEW m \in Memory, NEW a
    PROVE  InstanceDestroy(m, a) \in Memory /\ NoNew(m, InstanceDestroy(m, a))
<1>1. CASE ~Live(m, a)
  BY <1>1, TouchType DEF InstanceDestroy
<1>2. CASE Live(m, a)
  <2> DEFINE n == IF m.cells[a].type \in {"pointer", "array"}
                  THEN ArrayDestroy(m, m.cells[a]) ELSE m
  <2>1. m.cells[a] \in Cell
    BY <1>2 DEF Live, Memory
  <2>2. n \in Memory /\ NoNew(m, n)
    BY <2>1, ArrayDestroyType DEF NoNew
  <2>3. Free(n, a) \in Memory /\ NoNew(n, Free(n, a))
    BY <2>2, FreeType
  <2>4. InstanceDestroy(m, a) = Free(n, a)
    BY <1>2 DEF InstanceDestroy
  <2> HIDE DEF n
  <2>5. QED
    BY <2>2, <2>3, <2>4, NoNewTransitive
<1>3. QED
  BY <1>1, <1>2

\* cwr_value_runtime_destroy.
LEMMA RuntimeDestroyType ==
    ASSUME NEW m \in Memory, NEW a
    PROVE  RuntimeDestroy(m, a) \in Memory /\ NoNew(m, RuntimeDestroy(m, a))
BY InstanceDestroyType DEF RuntimeDestroy, NoNew

\* cwr_value_add_reference.
LEMMA AddReferenceType ==
    ASSUME NEW m \in Memory, NEW a
    PROVE  AddReference(m, a) \in Memory /\ NoNew(m, AddReference(m, a))
<1>1. CASE Live(m, a)
  BY <1>1 DEF AddReference, Live, Memory, Cell, NoNew
<1>2. CASE ~Live(m, a)
  BY <1>2, TouchType DEF AddReference
<1>3. QED
  BY <1>1, <1>2

\* cwr_value_remove_reference, with the destruction of an unreferenced value.
LEMMA RemoveReferenceType ==
    ASSUME NEW m \in Memory, NEW a
    PROVE  RemoveReference(m, a) \in Memory /\ NoNew(m, RemoveReference(m, a))
<1>1. CASE ~Live(m, a)
  BY <1>1, TouchType DEF RemoveReference
<1>2. CASE Live(m, a)
  <2> DEFINE n == [m EXCEPT !.cells[a].refs = @ - 1]
  <2>1. n \in Memory /\ NoNew(m, n)
    BY <1>2 DEF Live, Memory, Cell, NoNew
  <2>2. InstanceDestroy(n, a) \in Memory /\ NoNew(n, InstanceDestroy(n, a))
    BY <2>1, InstanceDestroyType
  <2>3. RemoveReference(m, a) \in {n, InstanceDestroy(n, a)}
    BY <1>2 DEF RemoveReference
  <2> HIDE DEF n
  <2>4. QED
    BY <2>1, <2>2, <2>3, NoNewTransitive
<1>3. QED
  BY <1>1, <1>2

\* A store into the array of a live target.
LEMMA SetArrayType ==
    ASSUME NEW m \in Memory, NEW t \in Addr, NEW v
    PROVE  SetArray(m, t, v) \in Memory /\ NoNew(m, SetArray(m, t, v))
<1> DEFINE n == ArrayDestroy(m, At(m, t))
<1>1. n \in Memory /\ NoNew(m, n)
  BY AtType, ArrayDestroyType
<1> HIDE DEF n
<1>2. CASE ~Live(n, t)
  BY <1>1, <1>2, TouchType, NoNewTransitive DEF SetArray, n
<1>3. CASE Live(n, t) /\ At(n, v).type \notin {"array", "pointer"}
  <2>1. "wild_pointer" \in Fault
    BY DEF Fault
  <2>2. QED
    BY <1>1, <1>3, <2>1, RaiseType, NoNewTransitive DEF SetArray, n
<1>4. CASE Live(n, t) /\ At(n, v).type \in {"array", "pointer"}
  <2> DEFINE c == At(n, v)
             d == [c EXCEPT !.type = "array", !.refs = n.cells[t].refs]
             k == [n EXCEPT !.cells[t] = d]
  <2>1. c \in Cell
    BY <1>1, AtType
  <2>2. SetArray(m, t, v) = k
    BY <1>4 DEF SetArray, n
  <2> HIDE DEF c
  <2>3. n.cells[t] \in Cell
    BY <1>1 DEF Memory
  <2>4. d \in Cell
    BY <2>1, <2>3 DEF Cell, ValueType
  <2> HIDE DEF d
  <2>5. k \in Memory /\ NoNew(n, k)
    BY <1>1, <1>4, <2>4 DEF Memory, NoNew, Live
  <2>6. QED
    BY <1>1, <2>2, <2>5, NoNewTransitive
<1>5. QED
  BY <1>2, <1>3, <1>4

\* cwr_value_set, for any two pointers.
LEMMA SetType ==
    ASSUME NEW m \in Memory, NEW t, NEW v, NEW g \in Int
    PROVE  Set(m, t, v, g) \in Memory /\ NoNew(m, Set(m, t, v, g))
<1>1. CASE ~Live(m, t) \/ ~Live(m, v)
  BY <1>1, TouchType DEF Set, NoNew
<1>2. CASE Live(m, t) /\ Live(m, v)
  <2>1. t \in Addr /\ v \in Addr
    BY <1>2 DEF Live
  <2>2. CASE m.cells[t].type = "array"
    BY <1>2, <2>1, <2>2, SetArrayType DEF Set
  <2>3. CASE m.cells[t].type # "array"
    <3> DEFINE num == IF m.cells[v].type = m.cells[t].type THEN m.cells[v].num ELSE g
               n == [m EXCEPT !.cells[t].num = num]
    <3>1. m.cells[t] \in Cell /\ m.cells[v] \in Cell
      BY <2>1 DEF Memory
    <3>2. num \in Int
      BY <3>1 DEF Cell
    <3>3. Set(m, t, v, g) \in {m, n}
      BY <1>2, <2>3 DEF Set
    <3> HIDE DEF num
    <3>4. n \in Memory /\ NoNew(m, n)
      BY <2>1, <3>1, <3>2 DEF Memory, Cell, NoNew, Live
    <3> HIDE DEF n
    <3>5. QED
      BY <3>3, <3>4 DEF NoNew
  <2>4. QED
    BY <2>2, <2>3
<1>3. QED
  BY <1>1, <1>2

\* malloc after blocks were freed: there is still one to give.
LEMMA PutAfterType ==
    ASSUME NEW m \in Memory, NEW n \in Memory, NoNew(m, n), CanMalloc(m), NEW c \in Cell
    PROVE  New(m) \in Addr /\ New(n) \in Addr /\ Put(n, c) \in Memory
<1>1. CanMalloc(n)
  BY DEF CanMalloc, NoNew
<1>2. QED
  BY <1>1, NewFree, PutType

(***************************************************************************)
(* Arithmetic: every operator gives an integer, every result is a cell.    *)
(***************************************************************************)
\* Conversion to an integer.
LEMMA TruncateType ==
    ASSUME NEW n \in Int, NEW d \in Nat \ {0}
    PROVE  Truncate(n, d) \in Int
<1>1. n \div d \in Int /\ (-n) \div d \in Int
  OBVIOUS
<1>2. QED
  BY <1>1 DEF Truncate

\* The operands of an operator.
LEMMA OperandType ==
    ASSUME NEW c \in Cell, NEW g \in Int
    PROVE  AsFloat(c, g) \in Int /\ AsInteger(c, g) \in Int
<1>1. c.num \in Int /\ FloatUnit \in Nat \ {0}
  BY FloatUnitAssumption DEF Cell
<1>2. Truncate(c.num, FloatUnit) \in Int
  BY <1>1, TruncateType
<1>3. c.num * FloatUnit \in Int
  BY <1>1
<1>4. QED
  BY <1>1, <1>2, <1>3 DEF AsFloat, AsInteger

\* Division by a number that is not zero.
LEMMA DivideType ==
    ASSUME NEW l \in Int, NEW r \in Int, r # 0
    PROVE  Divide(l, r) \in Int
<1>1. l * FloatUnit \in Int /\ -l * FloatUnit \in Int
  BY FloatUnitAssumption
<1>2. CASE r > 0
  BY <1>1, <1>2, TruncateType DEF Divide
<1>3. CASE ~(r > 0)
  <2>1. -r \in Nat \ {0}
    BY <1>3
  <2>2. QED
    BY <1>1, <1>3, <2>1, TruncateType DEF Divide
<1>4. QED
  BY <1>2, <1>3

\* The binary operators, on operands the interpreter gives them.
LEMMA ComputeType ==
    ASSUME NEW op \in BinaryOp, NEW l \in Int, NEW r \in Int, op = "/" => r # 0
    PROVE  Compute(op, l, r) \in Int
<1>1. FloatUnit \in Nat \ {0} /\ l * r \in Int
  BY FloatUnitAssumption
<1>2. Truncate(l * r, FloatUnit) \in Int
  BY <1>1, TruncateType
<1>3. op = "/" => Divide(l, r) \in Int
  BY DivideType
<1>4. \A b \in BOOLEAN : FloatBool(b) \in Int
  BY <1>1 DEF FloatBool
<1>5. l + r \in Int /\ l - r \in Int
  OBVIOUS
<1>6. CASE op \in {"+", "-"}
  BY <1>5, <1>6 DEF Compute
<1>7. CASE op \in {"*", "/"}
  BY <1>2, <1>3, <1>7 DEF Compute
<1>8. CASE op \in {"==", "!="}
  BY <1>4, <1>8 DEF Compute
<1>9. CASE op \in {"<", ">", "<=", ">="}
  <2>1. (l < r) \in BOOLEAN /\ (l > r) \in BOOLEAN /\ (l <= r) \in BOOLEAN
        /\ (l >= r) \in BOOLEAN
    OBVIOUS
  <2>2. QED
    BY <1>4, <1>9, <2>1 DEF Compute
<1>10. QED
  BY <1>6, <1>7, <1>8, <1>9 DEF BinaryOp

\* The value of a binary operator.
LEMMA BinaryValueType ==
    ASSUME NEW op \in BinaryOp, NEW l \in Cell, NEW r \in Cell, NEW g \in Int,
           op = "/" => AsFloat(r, g) # 0
    PROVE  BinaryValue(op, l, r, g) \in Cell
<1>1. Compute(op, AsFloat(l, g), AsFloat(r, g)) \in Int
  BY OperandType, ComputeType
<1>2. Truncate(Compute(op, AsFloat(l, g), AsFloat(r, g)), FloatUnit) \in Int
  BY <1>1, FloatUnitAssumption, TruncateType
<1>3. "int" \in ValueType /\ "float" \in ValueType
  BY DEF ValueType
<1>4. QED
  BY <1>1, <1>2, <1>3, ConstructorTypes DEF BinaryValue

\* The value of minus and negation.
LEMMA UnaryValueType ==
    ASSUME NEW op, NEW c \in Cell, NEW g \in Int
    PROVE  UnaryValue(op, c, g) \in Cell
<1> DEFINE n == IF c.type = "float" THEN c.num ELSE AsInteger(c, g)
           t == IF c.type = "float" THEN "float" ELSE "int"
           one == IF c.type = "float" THEN FloatUnit ELSE 1
           k == IF op = "-" THEN -n ELSE IF n = 0 THEN one ELSE 0
<1>1. n \in Int
  BY OperandType DEF Cell
<1>2. one \in Int
  BY FloatUnitAssumption
<1>3. t \in ValueType
  BY DEF ValueType
<1>4. UnaryValue(op, c, g) = Scalar(t, k)
  BY DEF UnaryValue
<1> HIDE DEF n, one, t
<1>5. k \in Int
  BY <1>1, <1>2
<1>6. QED
  BY <1>3, <1>4, <1>5, ConstructorTypes

\* An element of an array.
LEMMA ElementType ==
    ASSUME NEW m \in Memory, NEW c \in Cell, NEW g \in Int
    PROVE  Element(m, c, g) \in Cell
<1>1. At(m, c.buf).num \in Int
  BY AtType DEF Cell
<1>2. c.elem \in ValueType
  BY DEF Cell
<1>3. QED
  BY <1>1, <1>2, ConstructorTypes DEF Element

VariableScope == [insts : Seq(VariableInstance), size : Nat]
FunctionScope == [insts : Seq(FunctionInstance), size : Nat]

(***************************************************************************)
(* Nodes and frames.                                                       *)
(***************************************************************************)
\* The fields of an AST node.
LEMMA NodeType ==
    ASSUME NEW n \in Node
    PROVE  n \in [kind : Kind, op : Name, id : Id, num : Nat, type : ValueType,
                  params : Seq(Id), kids : Seq(Node)]
BY NodeAssumption

\* The running frame is a frame, and there is one below it or none.
LEMMA TopType ==
    ASSUME TypeOK, stack # <<>>
    PROVE  Top \in Frame /\ Len(stack) \in Nat /\ Len(stack) >= 1
BY DEF TypeOK, Top

\* What a callee returned is a pointer.
LEMMA GotType ==
    ASSUME TypeOK, stack # <<>>, NEW k
    PROVE  Got(k) \in Pointers
<1>1. Top.got \in Seq(Pointers)
  BY TopType DEF Frame
<1>2. QED
  BY <1>1 DEF Got, Pointers

\* The children of the running frame's node.
LEMMA ChildType ==
    ASSUME TypeOK, stack # <<>>, NEW k \in 1 .. Len(Top.node.kids)
    PROVE  Child(k) \in Node
<1>1. Top.node \in Node
  BY TopType DEF Frame
<1>2. Top.node.kids \in Seq(Node)
  BY <1>1, NodeType
<1>3. QED
  BY <1>2 DEF Child

\* Chains of bodies.
LEMMA ChainType ==
    ASSUME TypeOK, stack # <<>>
    PROVE  Chain \in Seq(Body) /\ Top.chain \in Seq(Body)
<1>1. Top.chain \in Seq(Body) /\ Top.own \in Body \cup {GlobalScope}
  BY TopType DEF Frame
<1>2. Top.own # GlobalScope => <<Top.own>> \in Seq(Body)
  BY <1>1
<1>3. QED
  BY <1>1, <1>2 DEF Chain

\* A frame just pushed.
LEMMA NewFrameType ==
    ASSUME NEW n \in Node, NEW c \in Seq(Body), NEW b \in Body \cup {GlobalScope}
    PROVE  NewFrame(n, c, b) \in Frame
<1>1. <<>> \in Seq(Pointers) /\ NULL \in Pointers
  BY DEF Pointers
<1>2. "start" \in Point
  BY DEF Point
<1>3. QED
  BY <1>1, <1>2 DEF NewFrame, Frame

\* Changes of the locals of a frame.
LEMMA FrameUpdates ==
    ASSUME NEW f \in Frame, NEW pc \in Point, NEW got \in Seq(Pointers),
           NEW k \in Nat, NEW blk \in Pointers
    PROVE  /\ [f EXCEPT !.pc = pc] \in Frame
           /\ [f EXCEPT !.got = got] \in Frame
           /\ [f EXCEPT !.i = k] \in Frame
           /\ [f EXCEPT !.pc = pc, !.got = got] \in Frame
           /\ [f EXCEPT !.pc = pc, !.i = k] \in Frame
           /\ [f EXCEPT !.pc = pc, !.blk = blk] \in Frame
           /\ [f EXCEPT !.got = got, !.blk = blk] \in Frame
           /\ [f EXCEPT !.pc = pc, !.got = got, !.i = k] \in Frame
           /\ [f EXCEPT !.pc = pc, !.got = got, !.blk = blk] \in Frame
BY DEF Frame

\* The steps of a frame's index.
LEMMA IndexType ==
    ASSUME NEW f \in Frame
    PROVE  /\ [f EXCEPT !.i = @ + 1] \in Frame
           /\ f.i > 0 => [f EXCEPT !.i = @ - 1] \in Frame
<1>1. f.i \in Nat
  BY DEF Frame
<1> DEFINE k == f.i + 1
           l == f.i - 1
<1>2. k \in Nat /\ (f.i > 0 => l \in Nat)
  BY <1>1
<1> HIDE DEF k, l
<1>3. [f EXCEPT !.i = k] \in Frame /\ (f.i > 0 => [f EXCEPT !.i = l] \in Frame)
  BY <1>2 DEF Frame
<1>4. QED
  BY <1>3 DEF k, l

(***************************************************************************)
(* The call stack.                                                         *)
(***************************************************************************)
\* A change of the running frame.
LEMMA SetTopType ==
    ASSUME TypeOK, stack # <<>>, NEW f \in Frame
    PROVE  SetTop(f) \in Seq(Frame) /\ Len(SetTop(f)) = Len(stack)
BY DEF TypeOK, SetTop

\* A call of the evaluator.
LEMMA EvaluateType ==
    ASSUME TypeOK, stack # <<>>, NEW f \in Frame, NEW n \in Node,
           NEW c \in Seq(Body), Evaluate(f, n, c)
    PROVE  stack' \in Seq(Frame)
<1>1. PICK b \in Body \cup {GlobalScope} : stack' = Append(SetTop(f), NewFrame(n, c, b))
  BY DEF Evaluate
<1>2. QED
  BY <1>1, SetTopType, NewFrameType

\* The call stack after a return: the caller has one result more.
Popped(s, v) == [SubSeq(s, 1, Len(s) - 1) EXCEPT ![Len(s) - 1].got = Append(@, v)]

\* A pop adds a result to the caller and changes nothing else.
LEMMA PoppedType ==
    ASSUME NEW s \in Seq(Frame), Len(s) # 0, Len(s) # 1, NEW v \in Pointers
    PROVE  /\ Popped(s, v) \in Seq(Frame)
           /\ Len(Popped(s, v)) = Len(s) - 1
           /\ \A j \in 1 .. Len(s) - 1 : /\ Popped(s, v)[j].pc = s[j].pc
                                         /\ Popped(s, v)[j].node = s[j].node
<1>1. PICK k \in Nat : k = Len(s)
  OBVIOUS
<1>2. k > 1
  BY <1>1
<1> DEFINE n == k - 1
           t == SubSeq(s, 1, n)
<1>3. n \in Nat /\ n >= 1 /\ n <= k
  BY <1>2
<1>4. t \in Seq(Frame) /\ Len(t) = n /\ \A j \in 1 .. n : t[j] = s[j]
  BY <1>1, <1>3
<1>5. SubSeq(s, 1, Len(s) - 1) = t /\ Len(s) - 1 = n
  BY <1>1
<1> HIDE DEF n, t
<1>6. t[n] \in Frame
  BY <1>3, <1>4
<1>7. Append(t[n].got, v) \in Seq(Pointers)
  BY <1>6 DEF Frame
<1> DEFINE f == [t[n] EXCEPT !.got = Append(@, v)]
<1>8. f \in Frame /\ f.pc = t[n].pc /\ f.node = t[n].node
  BY <1>6, <1>7 DEF Frame
<1>9. Popped(s, v) = [t EXCEPT ![n] = f]
  BY <1>5 DEF Popped
<1> HIDE DEF f
<1>10. /\ [t EXCEPT ![n] = f] \in Seq(Frame)
       /\ Len([t EXCEPT ![n] = f]) = n
       /\ \A j \in 1 .. n : [t EXCEPT ![n] = f][j] = IF j = n THEN f ELSE t[j]
  BY <1>3, <1>4, <1>8
<1>11. QED
  BY <1>4, <1>5, <1>8, <1>9, <1>10

\* What the caller of a returning activation gets.
LEMMA ReturnType ==
    ASSUME TypeOK, stack # <<>>, NEW v \in Pointers, Return(v)
    PROVE  stack' \in Seq(Frame) /\ result' \in Pointers
<1>1. CASE Len(stack) - 1 = 0
  BY <1>1 DEF Return, TypeOK
<1>2. CASE Len(stack) - 1 # 0
  <2>1. stack' = Popped(stack, v) /\ result' = result
    BY <1>2 DEF Return, Popped
  <2>2. stack \in Seq(Frame) /\ result \in Pointers
    BY DEF TypeOK
  <2>3. QED
    BY <1>2, <2>1, <2>2, PoppedType
<1>3. QED
  BY <1>1, <1>2

(***************************************************************************)
(* What the actions share.                                                 *)
(***************************************************************************)
\* An evaluator step leaves the driver alone: the rest must be typed.
LEMMA TypeFrom ==
    ASSUME TypeOK, UNCHANGED driver, variables' \in VariableScope,
           stack' \in Seq(Frame), mem' \in Memory, failed' \in BOOLEAN,
           failures' \in 0 .. MaxFailures, result' \in Pointers
    PROVE  TypeOK'
BY DEF TypeOK, driver, VariableScope, VariableInstance, FunctionInstance

\* The state an action starts from, conjunct by conjunct.
LEMMA Typed ==
    ASSUME TypeOK
    PROVE  /\ variables \in VariableScope /\ functions \in FunctionScope
           /\ stack \in Seq(Frame) /\ mem \in Memory /\ failed \in BOOLEAN
           /\ failures \in 0 .. MaxFailures /\ result \in Pointers
BY DEF TypeOK, VariableScope, FunctionScope

\* The running frame, field by field.
LEMMA RunningType ==
    ASSUME TypeOK, Running
    PROVE  /\ stack # <<>> /\ Top \in Frame /\ Top.node \in Node
           /\ Top.got \in Seq(Pointers) /\ Top.i \in Nat /\ Top.blk \in Pointers
           /\ Top.chain \in Seq(Body) /\ Top.own \in Body \cup {GlobalScope}
           /\ Chain \in Seq(Body)
<1>1. stack # <<>>
  BY DEF Running
<1>2. Top \in Frame
  BY <1>1, TopType
<1>3. Chain \in Seq(Body)
  BY <1>1, ChainType
<1>4. QED
  BY <1>1, <1>2, <1>3 DEF Frame

\* A malloc that succeeds has a block; one that fails uses up a failure.
LEMMA MallocType ==
    ASSUME TypeOK, NEW ok \in BOOLEAN, Malloc(ok)
    PROVE  failures' \in 0 .. MaxFailures /\ (ok => CanMalloc(mem) /\ New(mem) \in Addr)
<1>1. failures \in 0 .. MaxFailures /\ MaxFailures \in Nat
  BY Typed, FailuresAssumption
<1>2. CASE ok
  BY <1>1, <1>2, NewFree DEF Malloc
<1>3. CASE ~ok
  BY <1>1, <1>3 DEF Malloc
<1>4. QED
  BY <1>2, <1>3

\* The topmost element of a set is one of it.
LEMMA TopmostType == ASSUME NEW S PROVE Topmost(S) \in S \cup {0}
BY DEF Topmost, IsTop

\* A lookup gives an index of the array or 0.
LEMMA GetType ==
    ASSUME NEW s, NEW chain, NEW id
    PROVE  Get(s, chain, id) \in DOMAIN s.insts \cup {0}
<1> DEFINE S == {i \in DOMAIN s.insts :
                    s.insts[i].id = id /\ CanAccess(s.insts[i], chain)}
<1>1. Topmost(S) \in S \cup {0}
  BY TopmostType
<1>2. QED
  BY <1>1 DEF Get

\* A variable that is visible holds a pointer that is not null.
LEMMA VariableType ==
    ASSUME TypeOK, NEW i \in DOMAIN variables.insts
    PROVE  variables.insts[i] \in VariableInstance /\ variables.insts[i].val \in Addr
<1>1. variables.insts \in Seq(VariableInstance)
  BY Typed DEF VariableScope
<1>2. variables.insts[i] \in VariableInstance
  BY <1>1
<1>3. QED
  BY <1>2 DEF VariableInstance

\* cwr_scope_add of a variable.
LEMMA AddVariableType ==
    ASSUME TypeOK, NEW root \in Body \cup {GlobalScope}, NEW id \in Id, NEW v \in Addr,
           NEW ok \in BOOLEAN, AddVariable(ok, Instance(root, id, v))
    PROVE  variables' \in VariableScope /\ failures' \in 0 .. MaxFailures
<1> DEFINE inst == Instance(root, id, v)
<1>1. inst \in VariableInstance
  BY DEF Instance, VariableInstance
<1>2. variables \in VariableScope /\ failures \in 0 .. MaxFailures /\ MaxFailures \in Nat
  BY Typed, FailuresAssumption
<1> HIDE DEF inst
<1>3. Add(variables, inst) \in VariableScope
  <2>1. Append(variables.insts, inst) \in Seq(VariableInstance)
    BY <1>1, <1>2 DEF VariableScope
  <2>2. variables.size \in Nat /\ 2 * variables.size \in Nat
    BY <1>2 DEF VariableScope
  <2>3. QED
    BY <2>1, <2>2 DEF Add, VariableScope
<1>4. CASE ok
  BY <1>2, <1>3, <1>4 DEF AddVariable, inst
<1>5. CASE ~ok
  BY <1>2, <1>5 DEF AddVariable
<1>6. QED
  BY <1>4, <1>5

\* What a read through the wrong member gives is a number.
LEMMA GarbageType == ASSUME NEW g \in Garbage PROVE g \in Int
BY GarbageAssumption

\* The points named in the actions.
LEMMA PointType ==
    /\ "start" \in Point /\ "value" \in Point /\ "operand" \in Point /\ "slot" \in Point
    /\ "left" \in Point /\ "right" \in Point /\ "arguments" \in Point /\ "await" \in Point
    /\ "drop" \in Point /\ "body" \in Point /\ "leave" \in Point /\ "unwind" \in Point
    /\ "result" \in Point /\ "condition" \in Point /\ "variable" \in Point
    /\ "test" \in Point /\ "iterate" \in Point /\ "step" \in Point /\ "target" \in Point
BY DEF Point
\* Every pointer read from a memory is one, NULL included.
LEMMA BufType ==
    ASSUME NEW m \in Memory, NEW a PROVE At(m, a).buf \in Pointers /\ NULL \in Pointers
BY AtType DEF Cell, Pointers

\* A malloc in an action that has already changed the memory to n.
LEMMA AllocateType ==
    ASSUME TypeOK, NEW ok \in BOOLEAN, Malloc(ok), NEW n \in Memory, NoNew(mem, n),
           NEW c \in Cell
    PROVE  /\ failures' \in 0 .. MaxFailures
           /\ (IF ok THEN Put(n, c) ELSE n) \in Memory
           /\ (IF ok THEN New(mem) ELSE NULL) \in Pointers
           /\ (IF ok THEN New(n) ELSE NULL) \in Pointers
           /\ ok => New(mem) \in Pointers
<1>1. failures' \in 0 .. MaxFailures /\ (ok => CanMalloc(mem))
  BY MallocType
<1>2. ok => New(mem) \in Addr /\ New(n) \in Addr /\ Put(n, c) \in Memory
  BY <1>1, Typed, PutAfterType
<1>3. QED
  BY <1>1, <1>2 DEF Pointers

\* The memory an action starts from brings nothing new.
LEMMA NoNewSelf == ASSUME NEW m PROVE NoNew(m, m)
BY DEF NoNew

\* The evaluation of a child of the running node.
LEMMA EvaluateChildType ==
    ASSUME TypeOK, Running, NEW f \in Frame, NEW k \in 1 .. Len(Top.node.kids),
           NEW c \in Seq(Body), Evaluate(f, Child(k), c)
    PROVE  stack' \in Seq(Frame)
<1>1. stack # <<>>
  BY DEF Running
<1>2. Child(k) \in Node
  BY <1>1, ChildType
<1>3. QED
  BY <1>1, <1>2, EvaluateType

(***************************************************************************)
(* Expressions.                                                            *)
(***************************************************************************)
\* Literals, strings and variables.
LEMMA LiteralType ==
    ASSUME TypeOK, Literal \/ StringBlock \/ StringValue \/ Variable
    PROVE  TypeOK'
<1>1. Running
  BY DEF Literal, StringBlock, StringValue, Variable, At_
<1>2. Top \in Frame /\ Top.node \in Node /\ Top.blk \in Pointers /\ stack # <<>>
  BY <1>1, RunningType
<1>3. mem \in Memory /\ NoNew(mem, mem) /\ failed \in BOOLEAN /\ result \in Pointers
      /\ variables \in VariableScope /\ stack \in Seq(Frame) /\ failures \in 0 .. MaxFailures
  BY Typed, NoNewSelf
<1>4. CASE Literal
  <2> DEFINE c == Scalar(Top.node.type, Top.node.num)
  <2>1. c \in Cell
    BY <1>2, NodeType, ConstructorTypes
  <2> HIDE DEF c
  <2>2. PICK ok \in BOOLEAN : /\ Malloc(ok)
                              /\ mem' = IF ok THEN Put(mem, c) ELSE mem
                              /\ Return(IF ok THEN New(mem) ELSE NULL)
                              /\ failed' = (failed \/ ~ok)
    BY <1>4 DEF Literal, c
  <2>3. /\ failures' \in 0 .. MaxFailures /\ mem' \in Memory
        /\ (IF ok THEN New(mem) ELSE NULL) \in Pointers
    BY <1>3, <2>1, <2>2, AllocateType
  <2>4. stack' \in Seq(Frame) /\ result' \in Pointers
    BY <1>2, <2>2, <2>3, ReturnType
  <2>5. failed' \in BOOLEAN /\ UNCHANGED <<driver, variables>>
    BY <1>4, <2>2 DEF Literal
  <2>6. QED
    BY <1>3, <2>3, <2>4, <2>5, TypeFrom
<1>5. CASE StringBlock
  <2>1. Block(0, NULL) \in Cell /\ NULL \in Pointers
    BY ConstructorTypes DEF Pointers
  <2>2. PICK ok \in BOOLEAN :
            /\ Malloc(ok)
            /\ failed' = (failed \/ ~ok)
            /\ IF ok
               THEN /\ mem' = Put(mem, Block(0, NULL))
                    /\ stack' = SetTop([Top EXCEPT !.pc = "value", !.blk = New(mem)])
                    /\ UNCHANGED result
               ELSE Return(NULL) /\ UNCHANGED mem
    BY <1>5 DEF StringBlock
  <2>3. /\ failures' \in 0 .. MaxFailures /\ mem' \in Memory
        /\ ok => New(mem) \in Pointers
    BY <1>3, <2>1, <2>2, AllocateType
  <2>4. CASE ok
    <3>1. [Top EXCEPT !.pc = "value", !.blk = New(mem)] \in Frame
      BY <1>2, <2>3, <2>4, PointType DEF Frame
    <3>2. stack' \in Seq(Frame) /\ result' \in Pointers
      BY <1>2, <1>3, <2>2, <2>4, <3>1, SetTopType
    <3>3. QED
      BY <1>3, <1>5, <2>2, <2>3, <3>2, TypeFrom DEF StringBlock
  <2>5. CASE ~ok
    <3>1. stack' \in Seq(Frame) /\ result' \in Pointers
      BY <1>2, <2>1, <2>2, <2>5, ReturnType
    <3>2. QED
      BY <1>3, <1>5, <2>2, <2>3, <3>1, TypeFrom DEF StringBlock
  <2>6. QED
    BY <2>4, <2>5
<1>6. CASE StringValue
  <2> DEFINE c == Array("char", Top.node.num, Top.blk)
  <2>1. c \in Cell
    BY <1>2, NodeType, ConstructorTypes DEF ValueType
  <2> HIDE DEF c
  <2>2. PICK ok \in BOOLEAN : /\ Malloc(ok)
                              /\ mem' = IF ok THEN Put(mem, c) ELSE Free(mem, Top.blk)
                              /\ Return(IF ok THEN New(mem) ELSE NULL)
                              /\ failed' = (failed \/ ~ok)
    BY <1>6 DEF StringValue, c
  <2>3. /\ failures' \in 0 .. MaxFailures
        /\ (IF ok THEN Put(mem, c) ELSE mem) \in Memory
        /\ (IF ok THEN New(mem) ELSE NULL) \in Pointers
    BY <1>3, <2>1, <2>2, AllocateType
  <2>4. mem' \in Memory
    BY <1>3, <2>2, <2>3, FreeType
  <2>5. stack' \in Seq(Frame) /\ result' \in Pointers
    BY <1>2, <2>2, <2>3, ReturnType
  <2>6. QED
    BY <1>3, <1>6, <2>2, <2>3, <2>4, <2>5, TypeFrom DEF StringValue
<1>7. CASE Variable
  <2> DEFINE i == Get(variables, Top.chain, Top.node.id)
  <2>1. i \in DOMAIN variables.insts \cup {0}
    BY GetType
  <2> HIDE DEF i
  <2>2. CASE i = 0
    <3>1. mem' \in Memory /\ UNCHANGED <<stack, result>>
      BY <1>3, <1>7, <2>2, TouchType DEF Variable, i
    <3>2. QED
      BY <1>3, <1>7, <3>1, TypeFrom DEF Variable
  <2>3. CASE i # 0
    <3>1. variables.insts[i].val \in Pointers
      BY <2>1, <2>3, VariableType DEF Pointers
    <3>2. Return(variables.insts[i].val) /\ UNCHANGED mem
      BY <1>7, <2>3 DEF Variable, i
    <3>3. stack' \in Seq(Frame) /\ result' \in Pointers
      BY <1>2, <3>1, <3>2, ReturnType
    <3>4. QED
      BY <1>3, <1>7, <3>2, <3>3, TypeFrom DEF Variable
  <2>4. QED
    BY <2>2, <2>3
<1>8. QED
  BY <1>4, <1>5, <1>6, <1>7
\* The state a step starts from, as the leaves below use it.
Start == /\ Running /\ Top \in Frame /\ Top.node \in Node /\ stack # <<>>
         /\ Top.blk \in Pointers /\ Top.chain \in Seq(Body) /\ Chain \in Seq(Body)
         /\ Top.own \in Body \cup {GlobalScope} /\ Top.i \in Nat
         /\ Top.got \in Seq(Pointers)
         /\ mem \in Memory /\ NoNew(mem, mem) /\ failed \in BOOLEAN
         /\ result \in Pointers /\ variables \in VariableScope /\ stack \in Seq(Frame)
         /\ failures \in 0 .. MaxFailures /\ functions \in FunctionScope

\* It holds wherever the evaluator runs.
LEMMA StartType == ASSUME TypeOK, Running PROVE Start
BY RunningType, Typed, NoNewSelf DEF Start

\* The children a node of each kind has.
LEMMA ArityType ==
    ASSUME NEW n \in Node
    PROVE  /\ n.kind \in {"func", "unary", "decl", "binary", "element", "assign", "if",
                          "for", "return"} => 1 \in 1 .. Len(n.kids)
           /\ n.kind \in {"binary", "element", "assign", "if", "for"} =>
                2 \in 1 .. Len(n.kids)
           /\ n.kind = "for" => 3 \in 1 .. Len(n.kids) /\ 4 \in 1 .. Len(n.kids)
<1>1. Len(n.kids) \in Nat
  BY NodeType
<1>2. PICK k \in Nat : k = Len(n.kids)
  BY <1>1
<1>3. n.kind \in {"func", "unary", "decl"} => k = 1
  BY <1>2, ShapeAssumption
<1>4. n.kind \in {"binary", "element", "assign", "if"} => k = 2
  BY <1>2, ShapeAssumption
<1>5. (n.kind = "return" => k \in {1, 2}) /\ (n.kind = "for" => k = 4)
  BY <1>2, ShapeAssumption
<1>6. /\ k \in {1, 2, 4} => 1 \in 1 .. k
      /\ k \in {2, 4} => 2 \in 1 .. k
      /\ k = 4 => 3 \in 1 .. k /\ 4 \in 1 .. k
  OBVIOUS
<1>7. n.kind \in {"func", "unary", "decl", "binary", "element", "assign", "if", "for",
                  "return"} => k \in {1, 2, 4}
  BY <1>3, <1>4, <1>5
<1>8. n.kind \in {"binary", "element", "assign", "if", "for"} => k \in {2, 4}
  BY <1>4, <1>5
<1>9. QED
  BY <1>2, <1>5, <1>6, <1>7, <1>8

\* A step that returns and leaves the variables and the driver alone.
LEMMA ReturnsType ==
    ASSUME TypeOK, Running, NEW v \in Pointers, Return(v), mem' \in Memory,
           failed' \in BOOLEAN, failures' \in 0 .. MaxFailures,
           UNCHANGED <<driver, variables>>
    PROVE  TypeOK'
<1>1. Start
  BY StartType
<1>2. stack' \in Seq(Frame) /\ result' \in Pointers
  BY <1>1, ReturnType DEF Start
<1>3. QED
  BY <1>1, <1>2, TypeFrom DEF Start

\* A step that moves the running frame on.
LEMMA MovesType ==
    ASSUME TypeOK, Running, NEW f \in Frame, stack' = SetTop(f), mem' \in Memory,
           failed' \in BOOLEAN, failures' \in 0 .. MaxFailures,
           variables' \in VariableScope, UNCHANGED <<driver, result>>
    PROVE  TypeOK'
<1>1. Start
  BY StartType
<1>2. stack' \in Seq(Frame)
  BY <1>1, SetTopType DEF Start
<1>3. QED
  BY <1>1, <1>2, TypeFrom DEF Start

\* A step that evaluates a child of the running node.
LEMMA EvaluatesType ==
    ASSUME TypeOK, Running, NEW f \in Frame, NEW k \in 1 .. Len(Top.node.kids),
           NEW c \in Seq(Body), Evaluate(f, Child(k), c), mem' \in Memory,
           UNCHANGED <<driver, variables, failed, failures, result>>
    PROVE  TypeOK'
<1>1. Start
  BY StartType
<1>2. stack' \in Seq(Frame)
  BY EvaluateChildType
<1>3. QED
  BY <1>1, <1>2, TypeFrom DEF Start

\* The unary operators.
LEMMA UnaryType ==
    ASSUME TypeOK, UnaryStart \/ UnaryFailed \/ UnaryNew \/ UnaryFollow
                   \/ ReferenceValue \/ ReferenceSlot \/ UnaryOther
    PROVE  TypeOK'
<1>1. Running /\ Start
  BY StartType DEF UnaryStart, UnaryFailed, UnaryNew, UnaryFollow, ReferenceValue,
                   ReferenceSlot, UnaryOther, At_
<1>2. Got(1) \in Pointers /\ NULL \in Pointers
  BY <1>1, GotType DEF Start, Pointers
<1>3. CASE UnaryStart
  <2>1. [Top EXCEPT !.pc = "operand"] \in Frame
    BY <1>1, PointType DEF Start, Frame
  <2>2. 1 \in 1 .. Len(Top.node.kids)
    BY <1>1, <1>3, ArityType DEF Start, UnaryStart, At_
  <2>3. QED
    BY <1>1, <1>3, <2>1, <2>2, EvaluatesType DEF Start, UnaryStart
<1>4. CASE UnaryFailed
  BY <1>1, <1>2, <1>4, ReturnsType DEF Start, UnaryFailed
<1>5. CASE UnaryNew
  <2> DEFINE v == Got(1)
             c == At(mem, v)
             new(g) == IF Top.node.op = "*" THEN Element(mem, c, g)
                       ELSE UnaryValue(Top.node.op, c, g)
             read == IF Top.node.op = "*" THEN Touch(Touch(mem, v), c.buf)
                     ELSE Touch(mem, v)
  <2>1. PICK ok \in BOOLEAN, g \in Garbage :
            /\ Malloc(ok)
            /\ mem' = RuntimeDestroy(IF ok THEN Put(read, new(g)) ELSE read, v)
            /\ Return(IF ok THEN New(mem) ELSE NULL)
            /\ failed' = ~ok
    BY <1>5 DEF UnaryNew
  <2>2. new(g) \in Cell
    BY <1>1, AtType, GarbageType, ElementType, UnaryValueType DEF Start
  <2>3. read \in Memory /\ NoNew(mem, read)
    BY <1>1, TouchType, NoNewTransitive DEF Start
  <2> HIDE DEF new, read
  <2>4. /\ failures' \in 0 .. MaxFailures
        /\ (IF ok THEN Put(read, new(g)) ELSE read) \in Memory
        /\ (IF ok THEN New(mem) ELSE NULL) \in Pointers
    BY <2>1, <2>2, <2>3, AllocateType
  <2>5. mem' \in Memory
    BY <2>1, <2>4, RuntimeDestroyType
  <2>6. QED
    BY <1>1, <1>5, <2>1, <2>4, <2>5, ReturnsType DEF UnaryNew
<1>6. CASE UnaryFollow
  <2> DEFINE p == At(mem, At(mem, Got(1)).buf).buf
  <2>1. p \in Pointers
    BY <1>1, BufType DEF Start
  <2>2. mem' \in Memory
    BY <1>1, <1>6, TouchType, RuntimeDestroyType DEF Start, UnaryFollow
  <2>3. Return(p) /\ failed' \in BOOLEAN
    BY <1>6 DEF UnaryFollow
  <2> HIDE DEF p
  <2>4. QED
    BY <1>1, <1>6, <2>1, <2>2, <2>3, ReturnsType DEF Start, UnaryFollow
<1>7. CASE ReferenceValue
  <2> DEFINE v == Got(1)
             c == Pointer(IF At(mem, v).type \in ValueType THEN At(mem, v).type ELSE "void")
             n == Touch(mem, v)
  <2>1. PICK ok \in BOOLEAN :
            /\ Malloc(ok)
            /\ failed' = ~ok
            /\ IF ok
               THEN /\ mem' = Put(n, c)
                    /\ stack' = SetTop([Top EXCEPT !.pc = "slot", !.blk = New(mem)])
                    /\ UNCHANGED result
               ELSE mem' = RuntimeDestroy(mem, v) /\ Return(NULL)
    BY <1>7 DEF ReferenceValue
  <2>2. c \in Cell
    BY ConstructorTypes DEF ValueType
  <2>3. n \in Memory /\ NoNew(mem, n)
    BY <1>1, TouchType DEF Start
  <2> HIDE DEF c, n
  <2>4. /\ failures' \in 0 .. MaxFailures
        /\ (IF ok THEN Put(n, c) ELSE n) \in Memory
        /\ ok => New(mem) \in Pointers
    BY <2>1, <2>2, <2>3, AllocateType
  <2>5. CASE ok
    <3>1. [Top EXCEPT !.pc = "slot", !.blk = New(mem)] \in Frame
      BY <1>1, <2>4, <2>5, PointType DEF Start, Frame
    <3>2. QED
      BY <1>1, <1>7, <2>1, <2>4, <2>5, <3>1, MovesType DEF Start, ReferenceValue
  <2>6. CASE ~ok
    <3>1. mem' \in Memory
      BY <1>1, <2>1, <2>6, RuntimeDestroyType DEF Start
    <3>2. QED
      BY <1>1, <1>2, <1>7, <2>1, <2>4, <2>6, <3>1, ReturnsType DEF Start, ReferenceValue
  <2>7. QED
    BY <2>5, <2>6
<1>8. CASE ReferenceSlot
  <2> DEFINE v == Got(1)
             c == Block(0, v)
             n == Put(mem, c)
             k == [n EXCEPT !.cells[Top.blk].buf = New(mem)]
  <2>1. PICK ok \in BOOLEAN :
            /\ Malloc(ok)
            /\ failed' = ~ok
            /\ mem' = RuntimeDestroy(IF ok THEN k ELSE Free(mem, Top.blk), v)
            /\ Return(IF ok THEN Top.blk ELSE NULL)
    BY <1>8 DEF ReferenceSlot
  <2>2. c \in Cell
    BY <1>2, ConstructorTypes
  <2> HIDE DEF c
  <2>3. /\ failures' \in 0 .. MaxFailures
        /\ (IF ok THEN n ELSE mem) \in Memory
        /\ ok => New(mem) \in Pointers
    BY <1>1, <2>1, <2>2, AllocateType DEF Start
  <2> HIDE DEF n
  <2>4. ok => k \in Memory
    BY <2>3 DEF Memory, Cell
  <2> HIDE DEF k
  <2>5. (IF ok THEN k ELSE Free(mem, Top.blk)) \in Memory
    BY <1>1, <2>4, FreeType DEF Start
  <2>6. mem' \in Memory
    BY <2>1, <2>5, RuntimeDestroyType
  <2>7. (IF ok THEN Top.blk ELSE NULL) \in Pointers
    BY <1>1, <1>2 DEF Start
  <2>8. QED
    BY <1>1, <1>8, <2>1, <2>3, <2>6, <2>7, ReturnsType DEF ReferenceSlot
<1>9. CASE UnaryOther
  <2>1. mem' \in Memory
    BY <1>1, <1>9, RuntimeDestroyType DEF Start, UnaryOther
  <2>2. QED
    BY <1>1, <1>2, <1>9, <2>1, ReturnsType DEF Start, UnaryOther
<1>10. QED
  BY <1>3, <1>4, <1>5, <1>6, <1>7, <1>8, <1>9
\* The destruction of both operands.
LEMMA DestroyOperandsType ==
    ASSUME NEW m \in Memory
    PROVE  DestroyOperands(m) \in Memory /\ NoNew(m, DestroyOperands(m))
<1>1. RuntimeDestroy(m, Got(1)) \in Memory /\ NoNew(m, RuntimeDestroy(m, Got(1)))
  BY RuntimeDestroyType
<1>2. QED
  BY <1>1, RuntimeDestroyType, NoNewTransitive DEF DestroyOperands

\* The evaluation of the operands, and what follows when one fails.
LEMMA OperandsType ==
    ASSUME TypeOK, LeftOperand \/ RightOperand \/ OperandFailed
    PROVE  TypeOK'
<1>1. Running /\ Start
  BY StartType DEF LeftOperand, RightOperand, OperandFailed, At_
<1>2. NULL \in Pointers
  BY DEF Pointers
<1>3. 1 \in 1 .. Len(Top.node.kids) /\ 2 \in 1 .. Len(Top.node.kids)
  BY <1>1, ArityType DEF Start, LeftOperand, RightOperand, OperandFailed, Pair, At_
<1>4. [Top EXCEPT !.pc = "left"] \in Frame /\ [Top EXCEPT !.pc = "right"] \in Frame
  BY <1>1, PointType DEF Start, Frame
<1>5. CASE LeftOperand
  BY <1>1, <1>3, <1>4, <1>5, EvaluatesType DEF Start, LeftOperand
<1>6. CASE RightOperand
  <2>1. CASE failed
    BY <1>1, <1>2, <1>6, <2>1, ReturnsType DEF Start, RightOperand
  <2>2. CASE ~failed
    BY <1>1, <1>3, <1>4, <1>6, <2>2, EvaluatesType DEF Start, RightOperand
  <2>3. QED
    BY <2>1, <2>2
<1>7. CASE OperandFailed
  <2>1. mem' \in Memory
    BY <1>1, <1>7, RuntimeDestroyType DEF Start, OperandFailed
  <2>2. QED
    BY <1>1, <1>2, <1>7, <2>1, ReturnsType DEF Start, OperandFailed
<1>8. QED
  BY <1>5, <1>6, <1>7

\* The binary operators.
LEMMA BinaryType ==
    ASSUME TypeOK, Binary
    PROVE  TypeOK'
<1>1. Running /\ Start
  BY StartType DEF Binary, At_
<1>2. NULL \in Pointers
  BY DEF Pointers
<1> DEFINE op == Top.node.op
           read == Touch(Touch(mem, Got(1)), Got(2))
           left == At(mem, Got(1))
           right == At(mem, Got(2))
<1>3. op \in BinaryOp
  BY <1>1, ShapeAssumption DEF Start, Binary, At_
<1>4. left \in Cell /\ right \in Cell
  BY <1>1, AtType DEF Start
<1>5. read \in Memory /\ NoNew(mem, read)
  BY <1>1, TouchType, NoNewTransitive DEF Start
<1>6. UNCHANGED <<driver, variables>>
  BY DEF Binary
<1>7. PICK g \in Garbage :
        IF op = "/" /\ AsFloat(right, g) = 0
        THEN /\ mem' = DestroyOperands(read)
             /\ Return(NULL)
             /\ failed' = TRUE
             /\ UNCHANGED failures
        ELSE \E ok \in BOOLEAN :
             /\ Malloc(ok)
             /\ mem' = DestroyOperands(
                    IF ok THEN Put(read, BinaryValue(op, left, right, g)) ELSE read)
             /\ Return(IF ok THEN New(mem) ELSE NULL)
             /\ failed' = ~ok
  BY DEF Binary
<1> HIDE DEF op, read, left, right
<1>8. CASE op = "/" /\ AsFloat(right, g) = 0
  <2>1. mem' \in Memory
    BY <1>5, <1>7, <1>8, DestroyOperandsType
  <2>2. QED
    BY <1>1, <1>2, <1>6, <1>7, <1>8, <2>1, ReturnsType DEF Start
<1>9. CASE ~(op = "/" /\ AsFloat(right, g) = 0)
  <2> DEFINE c == BinaryValue(op, left, right, g)
  <2>1. c \in Cell
    BY <1>3, <1>4, <1>9, GarbageType, BinaryValueType
  <2>2. PICK ok \in BOOLEAN : /\ Malloc(ok)
                              /\ mem' = DestroyOperands(IF ok THEN Put(read, c) ELSE read)
                              /\ Return(IF ok THEN New(mem) ELSE NULL)
                              /\ failed' = ~ok
    BY <1>7, <1>9
  <2> HIDE DEF c
  <2>3. /\ failures' \in 0 .. MaxFailures
        /\ (IF ok THEN Put(read, c) ELSE read) \in Memory
        /\ (IF ok THEN New(mem) ELSE NULL) \in Pointers
    BY <1>5, <2>1, <2>2, AllocateType
  <2>4. mem' \in Memory
    BY <2>2, <2>3, DestroyOperandsType
  <2>5. QED
    BY <1>1, <1>6, <2>2, <2>3, <2>4, ReturnsType
<1>10. QED
  BY <1>8, <1>9

\* Elements of arrays.
LEMMA ArrayElementType ==
    ASSUME TypeOK, ArrayElement
    PROVE  TypeOK'
<1>1. Running /\ Start
  BY StartType DEF ArrayElement, At_
<1>2. NULL \in Pointers
  BY DEF Pointers
<1> DEFINE read == Touch(Touch(mem, Got(1)), Got(2))
           c == At(mem, Got(1))
           target(g) == Truncate(AsFloat(At(mem, Got(2)), g), FloatUnit)
           outside(g) == target(g) < 0 \/ (c.cap > 0 /\ target(g) > c.cap - 1)
<1>3. c \in Cell
  BY <1>1, AtType DEF Start
<1>4. read \in Memory /\ NoNew(mem, read)
  BY <1>1, TouchType, NoNewTransitive DEF Start
<1>5. UNCHANGED <<driver, variables>>
  BY DEF ArrayElement
<1>6. PICK g \in Garbage :
        IF outside(g)
        THEN /\ mem' = DestroyOperands(read)
             /\ Return(NULL)
             /\ failed' = TRUE
             /\ UNCHANGED failures
        ELSE \E ok \in BOOLEAN :
             /\ Malloc(ok)
             /\ mem' = DestroyOperands(
                    IF ok THEN Put(Touch(read, c.buf), Element(mem, c, g)) ELSE read)
             /\ Return(IF ok THEN New(mem) ELSE NULL)
             /\ UNCHANGED failed
  BY DEF ArrayElement
<1> HIDE DEF read, c, outside
<1>7. CASE outside(g)
  <2>1. mem' \in Memory
    BY <1>4, <1>6, <1>7, DestroyOperandsType
  <2>2. QED
    BY <1>1, <1>2, <1>5, <1>6, <1>7, <2>1, ReturnsType DEF Start
<1>8. CASE ~outside(g)
  <2> DEFINE n == Touch(read, c.buf)
             e == Element(mem, c, g)
  <2>1. n \in Memory /\ NoNew(mem, n)
    BY <1>4, TouchType, NoNewTransitive
  <2>2. e \in Cell
    BY <1>1, <1>3, GarbageType, ElementType DEF Start
  <2>3. PICK ok \in BOOLEAN : /\ Malloc(ok)
                              /\ mem' = DestroyOperands(IF ok THEN Put(n, e) ELSE read)
                              /\ Return(IF ok THEN New(mem) ELSE NULL)
                              /\ UNCHANGED failed
    BY <1>6, <1>8
  <2> HIDE DEF n, e
  <2>4. /\ failures' \in 0 .. MaxFailures
        /\ (IF ok THEN Put(n, e) ELSE n) \in Memory
        /\ (IF ok THEN New(mem) ELSE NULL) \in Pointers
    BY <2>1, <2>2, <2>3, AllocateType
  <2>5. (IF ok THEN Put(n, e) ELSE read) \in Memory
    BY <1>4, <2>4
  <2>6. mem' \in Memory
    BY <2>3, <2>5, DestroyOperandsType
  <2>7. QED
    BY <1>1, <1>5, <2>3, <2>4, <2>6, ReturnsType DEF Start
<1>9. QED
  BY <1>7, <1>8

\* Every step of an expression.
LEMMA ExpressionType == ASSUME TypeOK, Expression PROVE TypeOK'
BY LiteralType, UnaryType, OperandsType, BinaryType, ArrayElementType DEF Expression
(***************************************************************************)
(* Calls.                                                                  *)
(***************************************************************************)
\* The caller's side of a call, up to the entry of the callee.
LEMMA CallerType ==
    ASSUME TypeOK, CallStart \/ CallArgument \/ CallFailed \/ CallEnter \/ CallReturn
    PROVE  TypeOK'
<1>1. Running /\ Start
  BY StartType DEF CallStart, CallArgument, CallFailed, CallEnter, CallReturn, At_
<1>2. Got(1) \in Pointers /\ NULL \in Pointers
  BY <1>1, GotType DEF Start, Pointers
<1>3. CASE CallStart
  <2> DEFINE c == Block(0, NULL)
  <2>1. c \in Cell
    BY <1>2, ConstructorTypes
  <2> HIDE DEF c
  <2>2. PICK ok \in BOOLEAN :
            /\ Malloc(ok)
            /\ failed' = (failed \/ ~ok)
            /\ IF ok
               THEN /\ mem' = Put(mem, c)
                    /\ stack' = SetTop([Top EXCEPT !.pc = "arguments", !.blk = New(mem)])
                    /\ UNCHANGED result
               ELSE Return(NULL) /\ UNCHANGED mem
    BY <1>3 DEF CallStart, c
  <2>3. /\ failures' \in 0 .. MaxFailures
        /\ (IF ok THEN Put(mem, c) ELSE mem) \in Memory
        /\ ok => New(mem) \in Pointers
    BY <1>1, <2>1, <2>2, AllocateType DEF Start
  <2>4. mem' \in Memory /\ failed' \in BOOLEAN /\ UNCHANGED <<driver, variables>>
    BY <1>1, <1>3, <2>2, <2>3 DEF Start, CallStart
  <2>5. CASE ok
    <3>1. [Top EXCEPT !.pc = "arguments", !.blk = New(mem)] \in Frame
      BY <1>1, <2>3, <2>5, PointType DEF Start, Frame
    <3>2. QED
      BY <1>1, <2>2, <2>3, <2>4, <2>5, <3>1, MovesType DEF Start
  <2>6. CASE ~ok
    BY <1>1, <1>2, <2>2, <2>3, <2>4, <2>6, ReturnsType DEF Start
  <2>7. QED
    BY <2>5, <2>6
<1>4. CASE CallArgument
  <2>1. Len(Top.got) \in Nat /\ Len(Top.node.kids) \in Nat
    BY <1>1, NodeType DEF Start
  <2>2. Len(Top.got) + 1 \in 1 .. Len(Top.node.kids)
    BY <1>4, <2>1 DEF CallArgument
  <2>3. QED
    BY <1>1, <1>4, <2>2, EvaluatesType DEF Start, CallArgument
<1>5. CASE CallFailed
  <2>1. CASE Top.i < Len(Top.got) - 1
    <3>1. [Top EXCEPT !.i = @ + 1] \in Frame
      BY <1>1, IndexType DEF Start
    <3>2. mem' \in Memory
      BY <1>1, <1>5, <2>1, RuntimeDestroyType DEF Start, CallFailed
    <3>3. QED
      BY <1>1, <1>5, <2>1, <3>1, <3>2, MovesType DEF Start, CallFailed
  <2>2. CASE ~(Top.i < Len(Top.got) - 1)
    <3>1. mem' \in Memory
      BY <1>1, <1>5, <2>2, FreeType DEF Start, CallFailed
    <3>2. QED
      BY <1>1, <1>2, <1>5, <2>2, <3>1, ReturnsType DEF Start, CallFailed
  <2>3. QED
    BY <2>1, <2>2
<1>6. CASE CallEnter
  <2>1. Callee \in DOMAIN functions.insts \cup {0}
    BY GetType DEF Callee
  <2>2. CASE Callee = 0
    <3>1. mem' \in Memory
      BY <1>1, <1>6, <2>2, TouchType DEF Start, CallEnter
    <3>2. QED
      BY <1>1, <1>6, <2>2, <3>1, TypeFrom DEF Start, CallEnter
  <2>3. CASE Callee # 0
    <3> DEFINE f == functions.insts[Callee].val
               waiting == [Top EXCEPT !.pc = "await", !.got = <<>>, !.blk = NULL]
               entered(b) == [NewFrame(f, <<>>, b) EXCEPT !.got = Top.got, !.blk = Top.blk]
    <3>1. functions.insts \in Seq(FunctionInstance)
      BY <1>1 DEF Start, FunctionScope
    <3>2. functions.insts[Callee] \in FunctionInstance
      BY <2>1, <2>3, <3>1
    <3>3. f \in Node
      BY <3>2 DEF FunctionInstance
    <3>4. waiting \in Frame
      <4>1. <<>> \in Seq(Pointers)
        OBVIOUS
      <4>2. QED
        BY <1>1, <1>2, <4>1, PointType DEF Start, Frame
    <3>5. PICK b \in Body \cup {GlobalScope} : stack' = Append(SetTop(waiting), entered(b))
      BY <1>6, <2>3 DEF CallEnter
    <3>6. entered(b) \in Frame
      <4>1. <<>> \in Seq(Body)
        OBVIOUS
      <4>2. NewFrame(f, <<>>, b) \in Frame
        BY <3>3, <4>1, NewFrameType
      <4>3. QED
        BY <1>1, <4>2 DEF Start, Frame
    <3> HIDE DEF waiting, entered
    <3>7. SetTop(waiting) \in Seq(Frame)
      BY <1>1, <3>4, SetTopType DEF Start
    <3>8. stack' \in Seq(Frame)
      BY <3>5, <3>6, <3>7
    <3>9. QED
      BY <1>1, <1>6, <2>3, <3>8, TypeFrom DEF Start, CallEnter
  <2>4. QED
    BY <2>2, <2>3
<1>7. CASE CallReturn
  BY <1>1, <1>2, <1>7, ReturnsType DEF Start, CallReturn
<1>8. QED
  BY <1>3, <1>4, <1>5, <1>6, <1>7

\* The void value a bound function or an aborted call returns.
LEMMA VoidType == Scalar("void", 0) \in Cell
BY ConstructorTypes DEF ValueType

\* A bound printf.
LEMMA BindType ==
    ASSUME TypeOK, BindPrint \/ BindDrop \/ BindReturn
    PROVE  TypeOK'
<1>1. Running /\ Start
  BY StartType DEF BindPrint, BindDrop, BindReturn, At_
<1>2. CASE BindPrint
  <2>1. mem' \in Memory
    BY <1>1, <1>2, TouchType DEF Start, BindPrint
  <2>2. [Top EXCEPT !.pc = "drop"] \in Frame
    BY <1>1, PointType DEF Start, Frame
  <2>3. QED
    BY <1>1, <1>2, <2>1, <2>2, MovesType DEF Start, BindPrint
<1>3. CASE BindDrop
  <2>1. mem' \in Memory
    BY <1>1, <1>3, RuntimeDestroyType DEF Start, BindDrop
  <2>2. [Top EXCEPT !.i = @ + 1] \in Frame
    BY <1>1, IndexType DEF Start
  <2>3. QED
    BY <1>1, <1>3, <2>1, <2>2, MovesType DEF Start, BindDrop
<1>4. CASE BindReturn
  <2> DEFINE freed == IF Top.i > 0 THEN Free(mem, Top.blk) ELSE mem
             c == Scalar("void", 0)
  <2>1. freed \in Memory /\ NoNew(mem, freed)
    BY <1>1, FreeType DEF Start
  <2>2. c \in Cell
    BY VoidType
  <2>3. PICK ok \in BOOLEAN : /\ Malloc(ok)
                              /\ mem' = IF ok THEN Put(freed, c) ELSE freed
                              /\ Return(IF ok THEN New(freed) ELSE NULL)
    BY <1>4 DEF BindReturn
  <2> HIDE DEF freed, c
  <2>4. failures' \in 0 .. MaxFailures /\ mem' \in Memory
        /\ (IF ok THEN New(freed) ELSE NULL) \in Pointers
    BY <2>1, <2>2, <2>3, AllocateType
  <2>5. QED
    BY <1>1, <1>4, <2>3, <2>4, ReturnsType DEF Start, BindReturn
<1>5. QED
  BY <1>2, <1>3, <1>4
\* A user function: its arguments, its body, and what follows it.
LEMMA FunctionType ==
    ASSUME TypeOK, FunctionArgument \/ FunctionBody \/ FunctionLeave \/ RootDestroy
                   \/ FunctionReturn \/ FunctionOutOfMemory
    PROVE  TypeOK'
<1>1. Running /\ Start
  BY StartType DEF FunctionArgument, FunctionBody, FunctionLeave, RootDestroy,
                   FunctionReturn, FunctionOutOfMemory, At_
<1>2. Got(1) \in Pointers /\ Got(Top.i + 1) \in Pointers /\ NULL \in Pointers
  BY <1>1, GotType DEF Start, Pointers
<1>3. RootStart \in Nat
  BY <1>1 DEF Start, RootStart, VariableScope
<1>4. CASE FunctionArgument
  <2> DEFINE v == Got(Top.i + 1)
             held == AddReference(mem, v)
             wild == Top.i + 1 \notin DOMAIN Top.node.params \/ v = NULL
             id == Top.node.params[Top.i + 1]
  <2>1. held \in Memory
    BY <1>1, AddReferenceType DEF Start
  <2>2. CASE wild
    <3>1. mem' \in Memory
      BY <1>4, <2>1, <2>2, RaiseType DEF FunctionArgument, Fault
    <3>2. QED
      BY <1>1, <1>4, <2>2, <3>1, TypeFrom DEF Start, FunctionArgument
  <2>3. CASE ~wild
    <3>1. PICK ok \in BOOLEAN :
            /\ AddVariable(ok, Instance(Top.own, id, v))
            /\ mem' = IF ok THEN held ELSE InstanceDestroy(held, v)
            /\ stack' = SetTop(IF ok THEN [Top EXCEPT !.i = @ + 1]
                               ELSE [Top EXCEPT !.pc = "unwind", !.i = RootStart])
      BY <1>4, <2>3 DEF FunctionArgument
    <3>2. id \in Id
      <4>1. Top.node.params \in Seq(Id)
        BY <1>1, NodeType DEF Start
      <4>2. QED
        BY <2>3, <4>1
    <3>3. v \in Addr
      BY <1>2, <2>3 DEF Pointers
    <3> HIDE DEF v, id
    <3>4. variables' \in VariableScope /\ failures' \in 0 .. MaxFailures
      BY <1>1, <3>1, <3>2, <3>3, AddVariableType DEF Start
    <3>5. mem' \in Memory
      BY <2>1, <3>1, InstanceDestroyType
    <3>6. /\ [Top EXCEPT !.i = @ + 1] \in Frame
          /\ [Top EXCEPT !.pc = "unwind", !.i = RootStart] \in Frame
      BY <1>1, <1>3, IndexType, PointType, FrameUpdates DEF Start
    <3>7. PICK f \in Frame : stack' = SetTop(f)
      BY <3>1, <3>6
    <3>8. QED
      BY <1>1, <1>4, <3>4, <3>5, <3>7, MovesType DEF Start, FunctionArgument
  <2>4. QED
    BY <2>2, <2>3
<1>5. CASE FunctionBody
  <2>1. mem' \in Memory
    BY <1>1, <1>5, FreeType DEF Start, FunctionBody
  <2>2. <<>> \in Seq(Pointers)
    OBVIOUS
  <2>3. [Top EXCEPT !.pc = "body", !.got = <<>>, !.blk = NULL] \in Frame
    BY <1>1, <1>2, <2>2, PointType, FrameUpdates DEF Start
  <2>4. 1 \in 1 .. Len(Top.node.kids)
    BY <1>1, <1>5, ArityType DEF Start, FunctionBody, At_
  <2>5. QED
    BY <1>1, <1>5, <2>1, <2>3, <2>4, EvaluatesType DEF Start, FunctionBody
<1>6. CASE FunctionLeave
  <2>1. [Top EXCEPT !.pc = "leave", !.i = RootStart] \in Frame
    BY <1>1, <1>3, PointType, FrameUpdates DEF Start
  <2>2. QED
    BY <1>1, <1>6, <2>1, MovesType DEF Start, FunctionLeave
<1>7. CASE RootDestroy
  <2>1. [Top EXCEPT !.i = @ - 1] \in Frame
    BY <1>1, <1>7, IndexType DEF Start, RootDestroy
  <2>2. mem' \in Memory
    BY <1>1, <1>7, RemoveReferenceType DEF Start, RootDestroy
  <2>3. variables' \in VariableScope
    <3>1. CASE RootMatches(variables, Top.i, Top.own)
      <4>1. variables' = DropLast(variables)
        BY <1>7, <3>1 DEF RootDestroy
      <4>2. variables.insts \in Seq(VariableInstance) /\ Top.i \in DOMAIN variables.insts
        BY <1>1, <3>1 DEF Start, VariableScope, RootMatches
      <4>3. SubSeq(variables.insts, 1, Len(variables.insts) - 1) \in Seq(VariableInstance)
        BY <4>2
      <4>4. QED
        BY <1>1, <4>1, <4>3 DEF Start, DropLast, VariableScope
    <3>2. CASE ~RootMatches(variables, Top.i, Top.own)
      BY <1>1, <1>7, <3>2 DEF Start, RootDestroy
    <3>3. QED
      BY <3>1, <3>2
  <2>4. QED
    BY <1>1, <1>7, <2>1, <2>2, <2>3, MovesType DEF Start, RootDestroy
<1>8. CASE FunctionReturn
  BY <1>1, <1>2, <1>8, ReturnsType DEF Start, FunctionReturn
<1>9. CASE FunctionOutOfMemory
  <2>1. PICK ok \in BOOLEAN : /\ Malloc(ok)
                              /\ mem' = IF ok THEN Put(mem, Scalar("void", 0)) ELSE mem
                              /\ Return(IF ok THEN New(mem) ELSE NULL)
    BY <1>9 DEF FunctionOutOfMemory
  <2>2. failures' \in 0 .. MaxFailures /\ mem' \in Memory
        /\ (IF ok THEN New(mem) ELSE NULL) \in Pointers
    BY <1>1, <2>1, VoidType, AllocateType DEF Start
  <2>3. QED
    BY <1>1, <1>9, <2>1, <2>2, ReturnsType DEF FunctionOutOfMemory
<1>10. QED
  BY <1>4, <1>5, <1>6, <1>7, <1>8, <1>9

\* Every step of a call.
LEMMA CallType == ASSUME TypeOK, Call PROVE TypeOK'
BY CallerType, BindType, FunctionType DEF Call
(***************************************************************************)
(* Statements.                                                             *)
(***************************************************************************)
\* A frame that drops its results, for the statements that wait again.
LEMMA ClearedType ==
    ASSUME NEW f \in Frame, NEW pc \in Point, NEW k \in Nat
    PROVE  /\ [f EXCEPT !.pc = pc, !.got = <<>>] \in Frame
           /\ [f EXCEPT !.pc = pc, !.got = <<>>, !.i = k] \in Frame
<1>1. <<>> \in Seq(Pointers)
  OBVIOUS
<1>2. QED
  BY <1>1 DEF Frame

\* Statement lists and conditionals.
LEMMA BodyType ==
    ASSUME TypeOK, BodyStatement \/ BodyResult \/ BodyEnd \/ IfStart \/ IfCondition
                   \/ IfReturn
    PROVE  TypeOK'
<1>1. Running /\ Start
  BY StartType DEF BodyStatement, BodyResult, BodyEnd, IfStart, IfCondition, IfReturn, At_
<1>2. Got(1) \in Pointers /\ NULL \in Pointers
  BY <1>1, GotType DEF Start, Pointers
<1>3. CASE BodyStatement
  <2>1. Len(Top.node.kids) \in Nat /\ Top.i \in Nat
    BY <1>1, NodeType DEF Start
  <2>2. Top.i + 1 \in 1 .. Len(Top.node.kids)
    BY <1>3, <2>1 DEF BodyStatement
  <2>3. [Top EXCEPT !.pc = "result", !.i = @ + 1] \in Frame
    <3> DEFINE k == Top.i + 1
    <3>1. k \in Nat
      BY <2>1
    <3> HIDE DEF k
    <3>2. [Top EXCEPT !.pc = "result", !.i = k] \in Frame
      BY <1>1, <3>1, PointType DEF Start, Frame
    <3>3. QED
      BY <3>2 DEF k
  <2>4. QED
    BY <1>1, <1>3, <2>2, <2>3, EvaluatesType DEF Start, BodyStatement
<1>4. CASE BodyResult
  <2>1. CASE EndsEarly(Child(Top.i))
    BY <1>1, <1>2, <1>4, <2>1, ReturnsType DEF Start, BodyResult
  <2>2. CASE ~EndsEarly(Child(Top.i))
    <3>1. mem' \in Memory
      BY <1>1, <1>4, <2>2, RuntimeDestroyType DEF Start, BodyResult
    <3>2. [Top EXCEPT !.pc = "start", !.got = <<>>] \in Frame
      BY <1>1, PointType, ClearedType DEF Start
    <3>3. QED
      BY <1>1, <1>4, <2>2, <3>1, <3>2, MovesType DEF Start, BodyResult
  <2>3. QED
    BY <2>1, <2>2
<1>5. CASE BodyEnd
  BY <1>1, <1>2, <1>5, ReturnsType DEF Start, BodyEnd
<1>6. CASE IfStart \/ IfCondition
  <2>1. 1 \in 1 .. Len(Top.node.kids) /\ 2 \in 1 .. Len(Top.node.kids)
    BY <1>1, <1>6, ArityType DEF Start, IfStart, IfCondition, At_
  <2>2. CASE IfStart
    <3>1. [Top EXCEPT !.pc = "condition"] \in Frame
      BY <1>1, PointType DEF Start, Frame
    <3>2. QED
      BY <1>1, <2>1, <2>2, <3>1, EvaluatesType DEF Start, IfStart
  <2>3. CASE IfCondition /\ failed
    BY <1>1, <1>2, <2>3, ReturnsType DEF Start, IfCondition
  <2>4. CASE IfCondition /\ ~failed
    <3> DEFINE f == [Top EXCEPT !.pc = "body", !.got = <<>>]
    <3>1. mem' \in Memory /\ UNCHANGED <<driver, variables, failed, failures>>
      BY <1>1, <2>4, RuntimeDestroyType DEF Start, IfCondition
    <3>2. f \in Frame
      BY <1>1, PointType, ClearedType DEF Start
    <3>3. (Evaluate(f, Child(2), Top.chain) /\ UNCHANGED result) \/ Return(NULL)
      BY <2>4 DEF IfCondition
    <3> HIDE DEF f
    <3>4. QED
      BY <1>1, <1>2, <2>1, <3>1, <3>2, <3>3, EvaluatesType, ReturnsType DEF Start
  <2>5. QED
    BY <1>6, <2>2, <2>3, <2>4
<1>7. CASE IfReturn
  BY <1>1, <1>2, <1>7, ReturnsType DEF Start, IfReturn
<1>8. QED
  BY <1>3, <1>4, <1>5, <1>6, <1>7

\* Loops, up to the test of the condition.
LEMMA LoopEntryType ==
    ASSUME TypeOK, ForInit \/ ForFailed \/ ForVariable \/ ForTest
    PROVE  TypeOK'
<1>1. Running /\ Start /\ Top.node.kind = "for"
  BY StartType DEF ForInit, ForFailed, ForVariable, ForTest, At_
<1>2. Got(1) \in Pointers /\ NULL \in Pointers
  BY <1>1, GotType DEF Start, Pointers
<1>3. 1 \in 1 .. Len(Top.node.kids) /\ 2 \in 1 .. Len(Top.node.kids)
  BY <1>1, ArityType DEF Start
<1>4. \A pc \in Point : [Top EXCEPT !.pc = pc] \in Frame
  BY <1>1 DEF Start, Frame
<1>5. CASE ForInit
  <2>1. CASE Child(1).kind = "none"
    BY <1>1, <1>4, <1>5, <2>1, PointType, MovesType DEF Start, ForInit
  <2>2. CASE Child(1).kind # "none"
    BY <1>1, <1>3, <1>4, <1>5, <2>2, PointType, EvaluatesType DEF Start, ForInit
  <2>3. QED
    BY <2>1, <2>2
<1>6. CASE ForFailed
  BY <1>1, <1>2, <1>6, ReturnsType DEF Start, ForFailed
<1>7. CASE ForVariable
  <2> DEFINE v == Got(1)
             held == AddReference(mem, v)
  <2>1. held \in Memory
    BY <1>1, AddReferenceType DEF Start
  <2>2. CASE v = NULL
    BY <1>1, <1>7, <2>1, <2>2, TypeFrom DEF Start, ForVariable
  <2>3. CASE v # NULL
    <3>1. PICK ok \in BOOLEAN :
            /\ AddVariable(ok, Instance(Top.own, Top.node.id, v))
            /\ failed' = ~ok
            /\ IF ok
               THEN /\ mem' = held
                    /\ stack' = SetTop([Top EXCEPT !.pc = "test", !.got = <<>>])
                    /\ UNCHANGED result
               ELSE mem' = InstanceDestroy(held, v) /\ Return(v)
      BY <1>7, <2>3 DEF ForVariable
    <3>2. v \in Addr /\ Top.node.id \in Id
      BY <1>1, <1>2, <2>3, NodeType DEF Start, Pointers
    <3> HIDE DEF held
    <3>3. variables' \in VariableScope /\ failures' \in 0 .. MaxFailures
      BY <1>1, <3>1, <3>2, AddVariableType DEF Start
    <3>4. mem' \in Memory
      BY <2>1, <3>1, InstanceDestroyType
    <3>5. [Top EXCEPT !.pc = "test", !.got = <<>>] \in Frame
      BY <1>1, PointType, ClearedType DEF Start
    <3>6. UNCHANGED driver
      BY <1>7 DEF ForVariable
    <3>7. CASE ok
      BY <1>1, <3>1, <3>3, <3>4, <3>5, <3>6, <3>7, MovesType
    <3>8. CASE ~ok
      <4>1. stack' \in Seq(Frame) /\ result' \in Pointers
        BY <1>1, <1>2, <3>1, <3>8, ReturnType DEF Start
      <4>2. QED
        BY <3>1, <3>3, <3>4, <3>6, <4>1, TypeFrom
    <3>9. QED
      BY <3>7, <3>8
  <2>4. QED
    BY <2>2, <2>3
<1>8. CASE ForTest
  <2>1. CASE Child(2).kind = "none"
    BY <1>1, <1>4, <1>8, <2>1, PointType, MovesType DEF Start, ForTest
  <2>2. CASE Child(2).kind # "none"
    BY <1>1, <1>3, <1>4, <1>8, <2>2, PointType, EvaluatesType DEF Start, ForTest
  <2>3. QED
    BY <2>1, <2>2
<1>9. QED
  BY <1>5, <1>6, <1>7, <1>8

\* Loops, from the condition on.
LEMMA LoopType ==
    ASSUME TypeOK, ForCondition \/ ForStep \/ ForBody \/ ForIterated \/ ForEnd
    PROVE  TypeOK'
<1>1. Running /\ Start /\ Top.node.kind = "for"
  BY StartType DEF ForCondition, ForStep, ForBody, ForIterated, ForEnd, At_
<1>2. Got(1) \in Pointers /\ NULL \in Pointers
  BY <1>1, GotType DEF Start, Pointers
<1>3. 3 \in 1 .. Len(Top.node.kids) /\ 4 \in 1 .. Len(Top.node.kids)
  BY <1>1, ArityType DEF Start
<1>4. \A pc \in Point : [Top EXCEPT !.pc = pc] \in Frame
  BY <1>1 DEF Start, Frame
<1>5. RuntimeDestroy(mem, Got(1)) \in Memory
  BY <1>1, RuntimeDestroyType DEF Start
<1>6. CASE ForCondition
  <2> DEFINE f == [Top EXCEPT !.pc = "iterate", !.got = <<>>]
             h == [Top EXCEPT !.pc = "leave", !.got = <<>>, !.i = RootStart]
  <2>1. RootStart \in Nat
    BY <1>1 DEF Start, RootStart, VariableScope
  <2>2. f \in Frame /\ h \in Frame
    BY <1>1, <2>1, PointType, ClearedType DEF Start
  <2>3. stack' = SetTop(f) \/ stack' = SetTop(h)
    BY <1>6 DEF ForCondition
  <2> HIDE DEF f, h
  <2>4. QED
    BY <1>1, <1>5, <1>6, <2>2, <2>3, MovesType DEF Start, ForCondition
<1>7. CASE ForStep
  <2>1. CASE Child(3).kind = "none"
    BY <1>1, <1>3, <1>4, <1>7, <2>1, PointType, EvaluatesType DEF Start, ForStep
  <2>2. CASE Child(3).kind # "none"
    BY <1>1, <1>3, <1>4, <1>7, <2>2, PointType, EvaluatesType DEF Start, ForStep
  <2>3. QED
    BY <2>1, <2>2
<1>8. CASE ForBody
  <2>1. [Top EXCEPT !.pc = "body", !.got = <<>>] \in Frame
    BY <1>1, PointType, ClearedType DEF Start
  <2>2. QED
    BY <1>1, <1>3, <1>5, <1>8, <2>1, EvaluatesType DEF Start, ForBody
<1>9. CASE ForIterated
  <2>1. CASE Got(1) # NULL
    BY <1>1, <1>2, <1>9, <2>1, ReturnsType DEF Start, ForIterated
  <2>2. CASE Got(1) = NULL
    <3>1. [Top EXCEPT !.pc = "test", !.got = <<>>] \in Frame
      BY <1>1, PointType, ClearedType DEF Start
    <3>2. QED
      BY <1>1, <1>9, <2>2, <3>1, MovesType DEF Start, ForIterated
  <2>3. QED
    BY <2>1, <2>2
<1>10. CASE ForEnd
  BY <1>1, <1>2, <1>10, ReturnsType DEF Start, ForEnd
<1>11. QED
  BY <1>6, <1>7, <1>8, <1>9, <1>10
\* The value of a declaration, an assignment or a return, and what returns do
\* with it.
LEMMA StatementValueType ==
    ASSUME TypeOK, StatementValue \/ StatementFailed \/ ReturnValue \/ ReturnAfterBody
    PROVE  TypeOK'
<1>1. Running /\ Start
  BY StartType DEF StatementValue, StatementFailed, ReturnValue, ReturnAfterBody, At_
<1>2. Got(1) \in Pointers /\ NULL \in Pointers
  BY <1>1, GotType DEF Start, Pointers
<1>3. \A pc \in Point : [Top EXCEPT !.pc = pc] \in Frame
  BY <1>1 DEF Start, Frame
<1>4. CASE StatementValue
  <2>1. 1 \in 1 .. Len(Top.node.kids)
    BY <1>1, <1>4, ArityType DEF Start, StatementValue, At_
  <2>2. QED
    BY <1>1, <1>3, <1>4, <2>1, PointType, EvaluatesType DEF Start, StatementValue
<1>5. CASE StatementFailed
  BY <1>1, <1>2, <1>5, ReturnsType DEF Start, StatementFailed
<1>6. CASE ReturnValue
  <2>1. CASE Len(Top.node.kids) = 1
    BY <1>1, <1>2, <1>6, <2>1, ReturnsType DEF Start, ReturnValue
  <2>2. CASE Len(Top.node.kids) # 1
    <3>1. Len(Top.node.kids) \in {1, 2}
      BY <1>1, <1>6, ShapeAssumption DEF Start, ReturnValue, At_
    <3>2. 2 \in 1 .. Len(Top.node.kids)
      <4>1. Len(Top.node.kids) = 2 /\ 2 \in 1 .. 2
        BY <2>2, <3>1
      <4>2. QED
        BY <4>1, Zenon
    <3>3. QED
      BY <1>1, <1>3, <1>6, <2>2, <3>2, PointType, EvaluatesType DEF Start, ReturnValue
  <2>3. QED
    BY <2>1, <2>2
<1>7. CASE ReturnAfterBody
  <2>1. mem' \in Memory
    BY <1>1, <1>7, RuntimeDestroyType DEF Start, ReturnAfterBody
  <2>2. QED
    BY <1>1, <1>2, <1>7, <2>1, ReturnsType DEF Start, ReturnAfterBody
<1>8. QED
  BY <1>4, <1>5, <1>6, <1>7

\* Declarations and assignments.
LEMMA AssignType ==
    ASSUME TypeOK, Declare \/ Assign \/ AssignTarget \/ AssignThrough
    PROVE  TypeOK'
<1>1. Running /\ Start
  BY StartType DEF Declare, Assign, AssignTarget, AssignThrough, At_
<1>2. Got(1) \in Pointers /\ Got(2) \in Pointers /\ NULL \in Pointers
  BY <1>1, GotType DEF Start, Pointers
<1> DEFINE v == Got(1)
           held == AddReference(mem, v)
<1>3. held \in Memory
  BY <1>1, AddReferenceType DEF Start
<1>4. CASE Declare
  <2> DEFINE root == IF Top.chain = <<>> THEN GlobalScope ELSE Top.chain[1]
  <2>1. CASE v = NULL
    BY <1>1, <1>3, <1>4, <2>1, TypeFrom DEF Start, Declare
  <2>2. CASE v # NULL
    <3>1. PICK ok \in BOOLEAN :
            /\ AddVariable(ok, Instance(root, Top.node.id, v))
            /\ mem' = IF ok THEN held ELSE InstanceDestroy(held, v)
            /\ Return(IF ok THEN NULL ELSE v)
            /\ failed' = ~ok
      BY <1>4, <2>2 DEF Declare
    <3>2. v \in Addr /\ Top.node.id \in Id /\ root \in Body \cup {GlobalScope}
      BY <1>1, <1>2, <2>2, NodeType DEF Start, Pointers
    <3> HIDE DEF held, root
    <3>3. variables' \in VariableScope /\ failures' \in 0 .. MaxFailures
      BY <1>1, <3>1, <3>2, AddVariableType
    <3>4. mem' \in Memory
      BY <1>3, <3>1, InstanceDestroyType
    <3>5. (IF ok THEN NULL ELSE v) \in Pointers
      BY <1>2
    <3>6. stack' \in Seq(Frame) /\ result' \in Pointers
      BY <1>1, <3>1, <3>5, ReturnType DEF Start
    <3>7. UNCHANGED driver
      BY <1>4 DEF Declare
    <3>8. QED
      BY <3>1, <3>3, <3>4, <3>6, <3>7, TypeFrom
  <2>3. QED
    BY <2>1, <2>2
<1>5. CASE Assign
  <2> DEFINE i == Get(variables, Top.chain, Top.node.id)
  <2>1. i \in DOMAIN variables.insts \cup {0}
    BY GetType
  <2> HIDE DEF i
  <2>2. CASE i = 0 \/ v = NULL
    <3>1. mem' = Touch(held, NULL) /\ UNCHANGED <<stack, variables, result>>
      BY <1>5, <2>2 DEF Assign, i
    <3>2. mem' \in Memory
      BY <1>3, <3>1, TouchType
    <3>3. QED
      BY <1>1, <1>5, <3>1, <3>2, TypeFrom DEF Start, Assign
  <2>3. CASE ~(i = 0 \/ v = NULL)
    <3>1. /\ mem' = RemoveReference(held, variables.insts[i].val)
          /\ variables' = [variables EXCEPT !.insts[i].val = v]
          /\ Return(v)
      BY <1>5, <2>3 DEF Assign, i
    <3>2. mem' \in Memory
      BY <1>3, <3>1, RemoveReferenceType
    <3>3. v \in Addr /\ i \in DOMAIN variables.insts
      BY <1>2, <2>1, <2>3 DEF Pointers
    <3>4. variables' \in VariableScope
      <4> DEFINE inst == [variables.insts[i] EXCEPT !.val = v]
      <4>1. variables.insts \in Seq(VariableInstance) /\ variables.size \in Nat
        BY <1>1 DEF Start, VariableScope
      <4>2. inst \in VariableInstance
        BY <1>1, <3>3, VariableType DEF VariableInstance
      <4>3. variables' = [variables EXCEPT !.insts = [@ EXCEPT ![i] = inst]]
        BY <1>1, <3>1 DEF Start, VariableScope
      <4> HIDE DEF inst
      <4>4. [variables.insts EXCEPT ![i] = inst] \in Seq(VariableInstance)
        BY <3>3, <4>1, <4>2
      <4>5. QED
        BY <1>1, <4>3, <4>4 DEF Start, VariableScope
    <3>5. stack' \in Seq(Frame) /\ result' \in Pointers
      BY <1>1, <1>2, <3>1, ReturnType DEF Start
    <3>6. QED
      BY <1>1, <1>5, <3>2, <3>4, <3>5, TypeFrom DEF Start, Assign
  <2>4. QED
    BY <2>2, <2>3
<1>6. CASE AssignTarget
  <2>1. [Top EXCEPT !.pc = "target"] \in Frame
    BY <1>1, PointType DEF Start, Frame
  <2>2. 2 \in 1 .. Len(Top.node.kids)
    BY <1>1, <1>6, ArityType DEF Start, AssignTarget, At_
  <2>3. QED
    BY <1>1, <1>3, <1>6, <2>1, <2>2, EvaluatesType DEF Start, AssignTarget
<1>7. CASE AssignThrough
  <2>1. CASE failed
    <3>1. mem' \in Memory
      BY <1>1, <1>7, <2>1, RuntimeDestroyType DEF Start, AssignThrough
    <3>2. QED
      BY <1>1, <1>2, <1>7, <2>1, <3>1, ReturnsType DEF Start, AssignThrough
  <2>2. CASE ~failed
    <3>1. PICK g \in Garbage : mem' = SetThrough(mem, Got(2), Got(1), g)
      BY <1>7, <2>2 DEF AssignThrough
    <3>2. Set(mem, Got(2), Got(1), g) \in Memory
      BY <1>1, GarbageType, SetType DEF Start
    <3>3. mem' \in Memory
      BY <3>1, <3>2, FreeType DEF SetThrough
    <3>4. QED
      BY <1>1, <1>2, <1>7, <2>2, <3>3, ReturnsType DEF Start, AssignThrough
  <2>3. QED
    BY <2>1, <2>2
<1>8. QED
  BY <1>4, <1>5, <1>6, <1>7

\* Every step of a statement.
LEMMA StatementType == ASSUME TypeOK, Statement PROVE TypeOK'
BY BodyType, LoopEntryType, LoopType, StatementValueType, AssignType DEF Statement

(***************************************************************************)
(* The driver.                                                             *)
(***************************************************************************)
\* cwr_scope_add of a function.
LEMMA AddFunctionType ==
    ASSUME TypeOK, NEW f \in Node, f.kind = "func"
    PROVE  Add(functions, Instance(GlobalScope, f.id, f)) \in FunctionScope
<1> DEFINE inst == Instance(GlobalScope, f.id, f)
<1>1. inst \in FunctionInstance
  BY NodeType DEF Instance, FunctionInstance
<1>2. functions \in FunctionScope
  BY Typed
<1> HIDE DEF inst
<1>3. Append(functions.insts, inst) \in Seq(FunctionInstance)
  BY <1>1, <1>2 DEF FunctionScope
<1>4. functions.size \in Nat /\ 2 * functions.size \in Nat
  BY <1>2 DEF FunctionScope
<1>5. Add(functions, inst) \in FunctionScope
  BY <1>3, <1>4 DEF Add, FunctionScope
<1>6. QED
  BY <1>5 DEF inst

\* Every step of the driver.
LEMMA DriverType == ASSUME TypeOK, Driver PROVE TypeOK'
<1>1. /\ mem \in Memory /\ failures \in 0 .. MaxFailures /\ MaxFailures \in Nat
      /\ next \in Nat \ {0} /\ program \in Seq({n \in Node : n.kind = "func"})
      /\ functions \in FunctionScope /\ variables \in VariableScope
      /\ failed \in BOOLEAN /\ result \in Pointers /\ stack \in Seq(Frame)
  BY FailuresAssumption DEF TypeOK, FunctionScope, VariableScope
<1>2. \A p \in Phase : p \in Phase
  OBVIOUS
<1>3. "entry" \in Phase /\ "run" \in Phase /\ "destroy" \in Phase /\ "done" \in Phase
  BY DEF Phase
<1>4. next + 1 \in Nat \ {0} /\ 1 \in Nat \ {0}
  BY <1>1
<1> DEFINE Others == /\ stack' \in Seq(Frame) /\ mem' \in Memory /\ failed' \in BOOLEAN
                     /\ failures' \in 0 .. MaxFailures
                     /\ phase' \in Phase /\ next' \in Nat \ {0}
                     /\ functions' \in FunctionScope
<1>5. ASSUME Others, UNCHANGED <<program, variables, result>>
      PROVE  TypeOK'
  BY <1>5 DEF TypeOK, VariableScope, FunctionScope, VariableInstance, FunctionInstance
<1>6. CASE Register
  <2> DEFINE f == program[next]
  <2>1. next \in 1 .. Len(program)
    BY <1>1, <1>6 DEF Register
  <2>2. f \in Node /\ f.kind = "func"
    BY <1>1, <2>1
  <2>3. phase \in Phase
    BY DEF TypeOK
  <2>4. CASE f.op = "printf" /\ f.params = <<>>
    <3>1. mem' \in Memory
      BY <1>1, <1>6, <2>4, TouchType DEF Register
    <3>2. QED
      BY <1>1, <1>5, <1>6, <2>3, <2>4, <3>1 DEF Register
  <2>5. CASE ~(f.op = "printf" /\ f.params = <<>>)
    <3>1. PICK ok \in BOOLEAN :
            /\ IF ok
               THEN /\ functions' = Add(functions, Instance(GlobalScope, f.id, f))
                    /\ next' = next + 1
                    /\ UNCHANGED <<phase, failures>>
               ELSE /\ MustGrow(functions)
                    /\ failures < MaxFailures
                    /\ failures' = failures + 1
                    /\ phase' = "destroy" /\ next' = 1
                    /\ UNCHANGED functions
            /\ failed' = ~ok
            /\ UNCHANGED mem
      BY <1>6, <2>5 DEF Register
    <3>2. functions' \in FunctionScope
      BY <1>1, <2>2, <3>1, AddFunctionType
    <3>3. failures' \in 0 .. MaxFailures
      BY <1>1, <3>1
    <3>4. phase' \in Phase /\ next' \in Nat \ {0}
      BY <1>3, <1>4, <2>3, <3>1
    <3>5. UNCHANGED <<program, variables, stack, result>>
      BY <1>6 DEF Register
    <3>6. QED
      BY <1>1, <1>5, <3>1, <3>2, <3>3, <3>4, <3>5
  <2>6. QED
    BY <2>4, <2>5
<1>7. CASE Registered
  BY <1>1, <1>3, <1>5, <1>7 DEF Registered
<1>8. CASE EntryPoint
  <2> DEFINE main == GetByName(functions, <<>>, "main")
             S == {i \in DOMAIN functions.insts :
                     functions.insts[i].val.op = "main" /\ CanAccess(functions.insts[i], <<>>)}
  <2>1. main \in DOMAIN functions.insts \cup {0}
    <3>1. main = Topmost(S)
      BY DEF GetByName
    <3>2. Topmost(S) \in S \cup {0}
      BY TopmostType
    <3>3. QED
      BY <3>1, <3>2
  <2> HIDE DEF main
  <2>2. stack' \in Seq(Frame) /\ failed' \in BOOLEAN
    <3>1. CASE main = 0
      BY <1>1, <1>8, <3>1 DEF EntryPoint, main
    <3>2. CASE main # 0
      <4>1. functions.insts \in Seq(FunctionInstance)
        BY <1>1 DEF FunctionScope
      <4>2. functions.insts[main] \in FunctionInstance
        BY <2>1, <3>2, <4>1
      <4>3. functions.insts[main].val \in Node
        BY <4>2 DEF FunctionInstance
      <4>4. PICK b \in Body : stack' = <<NewFrame(functions.insts[main].val, <<>>, b)>>
        BY <1>8, <3>2 DEF EntryPoint, main
      <4>5. <<>> \in Seq(Body)
        OBVIOUS
      <4>6. NewFrame(functions.insts[main].val, <<>>, b) \in Frame
        BY <4>3, <4>5, NewFrameType
      <4>7. failed' = failed
        BY <1>8, <3>2 DEF EntryPoint, main
      <4>8. QED
        BY <1>1, <4>4, <4>6, <4>7
    <3>3. QED
      BY <3>1, <3>2
  <2>3. QED
    BY <1>1, <1>3, <1>5, <1>8, <2>2 DEF EntryPoint
<1>9. CASE EntryReturned
  <2>1. mem' \in Memory
    BY <1>1, <1>9, InstanceDestroyType DEF EntryReturned
  <2>2. QED
    BY <1>1, <1>3, <1>4, <1>5, <1>9, <2>1 DEF EntryReturned
<1>10. CASE ScopeDestroy
  <2>1. mem' \in Memory
    BY <1>1, <1>10, InstanceDestroyType DEF ScopeDestroy
  <2>2. phase' \in Phase /\ next' \in Nat \ {0}
    BY <1>3, <1>4, <1>10 DEF ScopeDestroy, TypeOK
  <2>3. QED
    BY <1>1, <1>5, <1>10, <2>1, <2>2 DEF ScopeDestroy
<1>11. QED
  BY <1>6, <1>7, <1>8, <1>9, <1>10 DEF Driver

(***************************************************************************)
(* The theorem.                                                            *)
(***************************************************************************)
\* The initial states are typed.
LEMMA InitType == Init => TypeOK
<1> SUFFICES ASSUME Init PROVE TypeOK
  OBVIOUS
<1>1. EmptyMemory \in Memory
  BY FreeCellType DEF EmptyMemory, Memory, Fault
<1>2. EmptyScope \in VariableScope /\ EmptyScope \in FunctionScope
  BY DefaultSizeAssumption DEF EmptyScope, VariableScope, FunctionScope
<1>3. program \in Seq({n \in Node : n.kind = "func"})
  BY ProgramAssumption DEF Init
<1>4. functions \in FunctionScope /\ variables \in VariableScope /\ mem \in Memory
  BY <1>1, <1>2 DEF Init
<1>5. /\ phase \in Phase /\ next \in Nat \ {0} /\ stack \in Seq(Frame)
      /\ failed \in BOOLEAN /\ failures \in 0 .. MaxFailures /\ result \in Pointers
  <2>1. /\ phase \in Phase
        /\ next \in Nat \ {0}
        /\ result \in Pointers
        /\ failed \in BOOLEAN
    <3>1. phase \in Phase
      BY DEF Init, Phase
    <3>2. next \in Nat \ {0}
      BY DEF Init
    <3>3. result \in Pointers
      BY DEF Init, Pointers
    <3>4. failed = FALSE
      BY DEF Init
    <3>5. QED
      BY <3>1, <3>2, <3>3, <3>4, Zenon
  <2>2. stack \in Seq(Frame)
    BY DEF Init
  <2>3. failures \in 0 .. MaxFailures
    BY FailuresAssumption DEF Init
  <2>4. QED
    BY <2>1, <2>2, <2>3
<1>6. QED
  BY <1>3, <1>4, <1>5 DEF TypeOK, VariableScope, FunctionScope

\* The interpreter is type correct: whatever the program, every variable of the
\* C program holds what its declaration says, no frame returns anything but a
\* pointer, and no index leaves its range (source/cwr_interpreter.c).
THEOREM TypeCorrect == Spec => []TypeOK
<1>1. ASSUME TypeOK, [Next]_vars PROVE TypeOK'
  <2>1. CASE UNCHANGED vars
    BY <1>1, <2>1 DEF vars, TypeOK, VariableInstance, FunctionInstance
  <2>2. CASE Next
    BY <1>1, <2>1, <2>2, ExpressionType, CallType, StatementType, DriverType
       DEF Next, Stopped
  <2>3. QED
    BY <1>1, <2>1, <2>2
<1>2. QED
  BY <1>1, InitType, PTL DEF Spec

(***************************************************************************)
(* Errors.                                                                 *)
(***************************************************************************)
\* What the running frame is after an error.
Unwinding(f) == Waiting(f) \/ f.pc \in {"leave", "unwind"}

(***************************************************************************)
(* The three ways an action of the evaluator ends.                         *)
(***************************************************************************)
\* A pop changes neither the number of the other frames nor what they wait for.
LEMMA PoppedShape ==
    ASSUME NEW s \in Seq(Frame), Len(s) # 0, Len(s) # 1, NEW v
    PROVE  /\ Len(Popped(s, v)) = Len(s) - 1
           /\ \A j \in 1 .. Len(s) - 1 : /\ Popped(s, v)[j].pc = s[j].pc
                                         /\ Popped(s, v)[j].node = s[j].node
<1>1. PICK k \in Nat : k = Len(s)
  OBVIOUS
<1>2. k > 1
  BY <1>1
<1> DEFINE n == k - 1
           t == SubSeq(s, 1, n)
<1>3. n \in Nat /\ n >= 1 /\ n <= k
  BY <1>2
<1>4. t \in Seq(Frame) /\ Len(t) = n /\ \A j \in 1 .. n : t[j] = s[j]
  BY <1>1, <1>3
<1>5. SubSeq(s, 1, Len(s) - 1) = t /\ Len(s) - 1 = n
  BY <1>1
<1> HIDE DEF n, t
<1>6. t[n] \in Frame
  BY <1>3, <1>4
<1> DEFINE f == [t[n] EXCEPT !.got = Append(@, v)]
<1>7. f.pc = t[n].pc /\ f.node = t[n].node
  BY <1>6 DEF Frame
<1>8. Popped(s, v) = [t EXCEPT ![n] = f]
  BY <1>5 DEF Popped
<1> HIDE DEF f
<1>9. /\ Len([t EXCEPT ![n] = f]) = n
      /\ \A j \in 1 .. n : [t EXCEPT ![n] = f][j] = IF j = n THEN f ELSE t[j]
  BY <1>3, <1>4
<1>10. QED
  BY <1>4, <1>5, <1>7, <1>8, <1>9

\* A return: the caller waited for it.
LEMMA ReturnSeen ==
    ASSUME TypeOK, ErrorSeen, Running, NEW v, Return(v), UNCHANGED phase
    PROVE  ErrorSeen'
<1>1. stack \in Seq(Frame) /\ stack # <<>> /\ phase = "run"
  BY DEF TypeOK, Running
<1>2. CASE Len(stack) - 1 = 0
  <2>1. stack' = <<>>
    BY <1>2 DEF Return
  <2>2. QED
    BY <1>1, <2>1 DEF ErrorSeen
<1>3. CASE Len(stack) - 1 # 0
  <2>1. PICK n \in Nat : n = Len(stack) - 1 /\ n >= 1
    <3>1. PICK k \in Nat : k = Len(stack)
      BY <1>1
    <3>2. k # 0 /\ k # 1
      BY <1>1, <1>3, <3>1
    <3>3. k - 1 \in Nat /\ k - 1 >= 1
      BY <3>2
    <3>4. QED
      BY <3>1, <3>3
  <2>2. stack' = Popped(stack, v)
    BY <1>3 DEF Return, Popped
  <2>3. /\ Len(stack') = n
        /\ \A j \in 1 .. n : stack'[j].pc = stack[j].pc /\ stack'[j].node = stack[j].node
    <3>1. Len(stack) # 0 /\ Len(stack) # 1
      BY <1>1, <1>3
    <3>2. Len(Popped(stack, v)) = Len(stack) - 1
          /\ \A j \in 1 .. Len(stack) - 1 :
                /\ Popped(stack, v)[j].pc = stack[j].pc
                /\ Popped(stack, v)[j].node = stack[j].node
      BY <1>1, <3>1, PoppedShape
    <3>3. QED
      BY <2>1, <2>2, <3>2
  <2>4. \A j \in 1 .. n : Waiting(stack[j])
    BY <1>1, <2>1 DEF ErrorSeen
  <2>5. \A j \in 1 .. n : Waiting(stack'[j])
    BY <2>3, <2>4 DEF Waiting
  <2>6. DOMAIN stack' = 1 .. n
    BY <1>1, <1>3, <2>1, <2>2, PoppedShape DEF Popped
  <2>7. QED
    BY <1>1, <2>1, <2>3, <2>5, <2>6 DEF ErrorSeen, Top
<1>4. QED
  BY <1>2, <1>3

\* A step within the running activation.
LEMMA MoveSeen ==
    ASSUME TypeOK, ErrorSeen, Running, NEW f, stack' = SetTop(f), UNCHANGED phase,
           failed' => Unwinding(f)
    PROVE  ErrorSeen'
<1>1. stack \in Seq(Frame) /\ stack # <<>> /\ phase = "run"
  BY DEF TypeOK, Running
<1>2. PICK n \in Nat : n = Len(stack) /\ n >= 1
  BY <1>1
<1>3. /\ Len(stack') = n /\ DOMAIN stack' = 1 .. n
      /\ \A j \in 1 .. n : stack'[j] = IF j = n THEN f ELSE stack[j]
  BY <1>1, <1>2 DEF SetTop
<1>4. \A j \in 1 .. n : j < n => Waiting(stack[j])
  BY <1>1, <1>2 DEF ErrorSeen
<1>5. \A j \in 1 .. n : j < n => Waiting(stack'[j])
  BY <1>2, <1>3, <1>4 DEF Waiting
<1>6. stack'[n] = f
  BY <1>2, <1>3
<1>7. failed' => Waiting(stack'[n]) \/ stack'[n].pc \in {"leave", "unwind"}
  BY <1>6 DEF Unwinding
<1>8. QED
  BY <1>1, <1>3, <1>5, <1>7 DEF ErrorSeen, Top

\* A new activation: the caller waits for it, and there is no error.
LEMMA PushSeen ==
    ASSUME TypeOK, ErrorSeen, Running, NEW f, NEW g, stack' = Append(SetTop(f), g),
           UNCHANGED phase, Waiting(f), ~failed'
    PROVE  ErrorSeen'
<1>1. stack \in Seq(Frame) /\ stack # <<>> /\ phase = "run"
  BY DEF TypeOK, Running
<1>2. PICK n \in Nat : n = Len(stack) /\ n >= 1
  BY <1>1
<1>3. /\ Len(stack') = n + 1 /\ DOMAIN stack' = 1 .. n + 1
      /\ \A j \in 1 .. n : stack'[j] = IF j = n THEN f ELSE stack[j]
  <2> DEFINE S == Frame \cup {f, g}
  <2>1. stack \in Seq(S) /\ f \in S /\ g \in S
    BY <1>1
  <2>2. SetTop(f) \in Seq(S) /\ Len(SetTop(f)) = n
        /\ \A j \in 1 .. n : SetTop(f)[j] = IF j = n THEN f ELSE stack[j]
    BY <1>2, <2>1 DEF SetTop
  <2> HIDE DEF S
  <2>3. QED
    BY <1>2, <2>1, <2>2
<1>4. \A j \in 1 .. n : j < n => Waiting(stack[j])
  BY <1>1, <1>2 DEF ErrorSeen
<1>5. \A j \in 1 .. n : Waiting(stack'[j])
  <2>1. SUFFICES ASSUME NEW j \in 1 .. n PROVE Waiting(stack'[j])
    OBVIOUS
  <2>2. CASE j = n
    <3>1. stack'[j] = f
      BY <1>3, <2>2
    <3>2. QED
      BY <3>1 DEF Waiting
  <2>3. CASE j # n
    <3>1. stack'[j] = stack[j] /\ j < n
      BY <1>2, <1>3, <2>3
    <3>2. Waiting(stack[j])
      BY <1>4, <3>1
    <3>3. QED
      BY <3>1, <3>2 DEF Waiting
  <2>4. QED
    BY <2>2, <2>3
<1>6. \A j \in DOMAIN stack' : j < Len(stack') => j \in 1 .. n
  BY <1>2, <1>3
<1>7. QED
  BY <1>1, <1>5, <1>6 DEF ErrorSeen

\* The evaluation of a child.
LEMMA EvaluateSeen ==
    ASSUME TypeOK, ErrorSeen, Running, NEW f, NEW n, NEW c, Evaluate(f, n, c),
           UNCHANGED phase, Waiting(f), ~failed'
    PROVE  ErrorSeen'
<1>1. PICK b \in Body \cup {GlobalScope} : stack' = Append(SetTop(f), NewFrame(n, c, b))
  BY DEF Evaluate
<1>2. QED
  BY <1>1, PushSeen

\* An activation that neither waits nor unwinds runs without an error.
LEMMA NoErrorAt ==
    ASSUME TypeOK, ErrorSeen, Running, ~Unwinding(Top)
    PROVE  ~failed
BY DEF ErrorSeen, Running, Unwinding

\* A fault that stops the program where it is.
LEMMA StaySeen ==
    ASSUME ErrorSeen, UNCHANGED <<phase, stack, failed>>
    PROVE  ErrorSeen'
BY DEF ErrorSeen, Waiting, Top

(***************************************************************************)
(* Expressions.                                                            *)
(***************************************************************************)
\* Literals, strings and variables.
LEMMA LiteralSeen ==
    ASSUME TypeOK, ErrorSeen, Literal \/ StringBlock \/ StringValue \/ Variable
    PROVE  ErrorSeen'
<1>1. Running /\ UNCHANGED phase
  BY DEF Literal, StringBlock, StringValue, Variable, At_, driver
<1>2. CASE Literal
  <2>1. PICK ok \in BOOLEAN : Return(IF ok THEN New(mem) ELSE NULL)
    BY <1>2 DEF Literal
  <2>2. QED
    BY <1>1, <2>1, ReturnSeen
<1>3. CASE StringBlock
  <2>1. ~failed
    BY <1>1, <1>3, NoErrorAt DEF StringBlock, At_, Unwinding, Waiting
  <2>2. PICK ok \in BOOLEAN :
            /\ failed' = (failed \/ ~ok)
            /\ IF ok THEN stack' = SetTop([Top EXCEPT !.pc = "value", !.blk = New(mem)])
               ELSE Return(NULL)
    BY <1>3 DEF StringBlock
  <2>3. CASE ok
    <3>1. ~failed'
      BY <2>1, <2>2, <2>3
    <3>2. QED
      BY <1>1, <2>2, <2>3, <3>1, MoveSeen
  <2>4. CASE ~ok
    BY <1>1, <2>2, <2>4, ReturnSeen
  <2>5. QED
    BY <2>3, <2>4
<1>4. CASE StringValue
  <2>1. PICK ok \in BOOLEAN : Return(IF ok THEN New(mem) ELSE NULL)
    BY <1>4 DEF StringValue
  <2>2. QED
    BY <1>1, <2>1, ReturnSeen
<1>5. CASE Variable
  <2> DEFINE i == Get(variables, Top.chain, Top.node.id)
  <2>1. CASE i = 0
    BY <1>1, <1>5, <2>1, StaySeen DEF Variable
  <2>2. CASE i # 0
    BY <1>1, <1>5, <2>2, ReturnSeen DEF Variable
  <2>3. QED
    BY <2>1, <2>2
<1>6. QED
  BY <1>2, <1>3, <1>4, <1>5

\* The unary operators.
LEMMA UnarySeen ==
    ASSUME TypeOK, ErrorSeen, UnaryStart \/ UnaryFailed \/ UnaryNew \/ UnaryFollow
                              \/ ReferenceValue \/ ReferenceSlot \/ UnaryOther
    PROVE  ErrorSeen'
<1>1. Running /\ UNCHANGED phase
  BY DEF UnaryStart, UnaryFailed, UnaryNew, UnaryFollow, ReferenceValue, ReferenceSlot,
         UnaryOther, At_, driver
<1>2. Top \in Frame
  BY <1>1, RunningType
<1>3. CASE UnaryStart
  <2>1. ~failed'
    BY <1>1, <1>3, NoErrorAt DEF UnaryStart, At_, Unwinding, Waiting
  <2>2. Waiting([Top EXCEPT !.pc = "operand"])
    BY <1>2, <1>3 DEF UnaryStart, At_, Waiting, Frame
  <2>3. QED
    BY <1>1, <1>3, <2>1, <2>2, EvaluateSeen DEF UnaryStart
<1>4. CASE UnaryFailed
  BY <1>1, <1>4, ReturnSeen DEF UnaryFailed
<1>5. CASE UnaryNew
  <2>1. PICK ok \in BOOLEAN : Return(IF ok THEN New(mem) ELSE NULL)
    BY <1>5 DEF UnaryNew
  <2>2. QED
    BY <1>1, <2>1, ReturnSeen
<1>6. CASE UnaryFollow
  <2>1. PICK v : Return(v)
    BY <1>6 DEF UnaryFollow
  <2>2. QED
    BY <1>1, <2>1, ReturnSeen
<1>7. CASE ReferenceValue
  <2>1. PICK ok \in BOOLEAN :
            /\ failed' = ~ok
            /\ IF ok THEN stack' = SetTop([Top EXCEPT !.pc = "slot", !.blk = New(mem)])
               ELSE Return(NULL)
    BY <1>7 DEF ReferenceValue
  <2>2. CASE ok
    BY <1>1, <2>1, <2>2, MoveSeen
  <2>3. CASE ~ok
    BY <1>1, <2>1, <2>3, ReturnSeen
  <2>4. QED
    BY <2>2, <2>3
<1>8. CASE ReferenceSlot
  <2>1. PICK v : Return(v)
    BY <1>8 DEF ReferenceSlot
  <2>2. QED
    BY <1>1, <2>1, ReturnSeen
<1>9. CASE UnaryOther
  BY <1>1, <1>9, ReturnSeen DEF UnaryOther
<1>10. QED
  BY <1>3, <1>4, <1>5, <1>6, <1>7, <1>8, <1>9

\* Binary operators and elements.
LEMMA PairSeen ==
    ASSUME TypeOK, ErrorSeen, LeftOperand \/ RightOperand \/ OperandFailed \/ Binary
                              \/ ArrayElement
    PROVE  ErrorSeen'
<1>1. Running /\ UNCHANGED phase
  BY DEF LeftOperand, RightOperand, OperandFailed, Binary, ArrayElement, At_, driver
<1>2. Top \in Frame
  BY <1>1, RunningType
<1>3. CASE LeftOperand
  <2>1. ~failed'
    BY <1>1, <1>3, NoErrorAt DEF LeftOperand, At_, Unwinding, Waiting
  <2>2. Waiting([Top EXCEPT !.pc = "left"])
    BY <1>2, <1>3 DEF LeftOperand, Pair, At_, Waiting, Frame
  <2>3. QED
    BY <1>1, <1>3, <2>1, <2>2, EvaluateSeen DEF LeftOperand
<1>4. CASE RightOperand
  <2>1. CASE failed
    BY <1>1, <1>4, <2>1, ReturnSeen DEF RightOperand
  <2>2. CASE ~failed
    <3>1. Waiting([Top EXCEPT !.pc = "right"])
      BY <1>2, <1>4 DEF RightOperand, Pair, At_, Waiting, Frame
    <3>2. QED
      BY <1>1, <1>4, <2>2, <3>1, EvaluateSeen DEF RightOperand
  <2>3. QED
    BY <2>1, <2>2
<1>5. CASE OperandFailed
  BY <1>1, <1>5, ReturnSeen DEF OperandFailed
<1>6. CASE Binary
  <2>1. PICK v : Return(v)
    BY <1>6 DEF Binary
  <2>2. QED
    BY <1>1, <2>1, ReturnSeen
<1>7. CASE ArrayElement
  <2>1. PICK v : Return(v)
    BY <1>7 DEF ArrayElement
  <2>2. QED
    BY <1>1, <2>1, ReturnSeen
<1>8. QED
  BY <1>3, <1>4, <1>5, <1>6, <1>7

(***************************************************************************)
(* Calls.                                                                  *)
(***************************************************************************)
\* The caller: it evaluates its arguments, enters the function and returns.
LEMMA CallerSeen ==
    ASSUME TypeOK, ErrorSeen, CallStart \/ CallArgument \/ CallFailed \/ CallEnter \/ CallReturn
    PROVE  ErrorSeen'
<1>1. Running /\ UNCHANGED phase /\ Top.node.kind = "call"
  BY DEF CallStart, CallArgument, CallFailed, CallEnter, CallReturn, At_, driver
<1>2. Top \in Frame
  BY <1>1, RunningType
<1>3. CASE CallStart
  <2>1. ~failed
    BY <1>1, <1>3, NoErrorAt DEF CallStart, At_, Unwinding, Waiting
  <2>2. PICK ok \in BOOLEAN :
            /\ failed' = (failed \/ ~ok)
            /\ IF ok THEN stack' = SetTop([Top EXCEPT !.pc = "arguments", !.blk = New(mem)])
               ELSE Return(NULL)
    BY <1>3 DEF CallStart
  <2>3. CASE ok
    <3>1. ~failed'
      BY <2>1, <2>2, <2>3
    <3>2. QED
      BY <1>1, <2>2, <2>3, <3>1, MoveSeen
  <2>4. CASE ~ok
    BY <1>1, <2>2, <2>4, ReturnSeen
  <2>5. QED
    BY <2>3, <2>4
<1>4. CASE CallArgument
  <2>1. Waiting(Top) /\ ~failed'
    BY <1>1, <1>4 DEF CallArgument, At_, Waiting
  <2>2. QED
    BY <1>1, <1>4, <2>1, EvaluateSeen DEF CallArgument
<1>5. CASE CallFailed
  <2>1. CASE Top.i < Len(Top.got) - 1
    <3>1. Unwinding([Top EXCEPT !.i = @ + 1])
      BY <1>1, <1>2, <1>5 DEF CallFailed, At_, Unwinding, Waiting, Frame
    <3>2. QED
      BY <1>1, <1>5, <2>1, <3>1, MoveSeen DEF CallFailed
  <2>2. CASE ~(Top.i < Len(Top.got) - 1)
    BY <1>1, <1>5, <2>2, ReturnSeen DEF CallFailed
  <2>3. QED
    BY <2>1, <2>2
<1>6. CASE CallEnter
  <2>1. ~failed'
    BY <1>6 DEF CallEnter
  <2>2. CASE Callee = 0
    BY <1>1, <1>6, <2>2, StaySeen DEF CallEnter
  <2>3. CASE Callee # 0
    <3> DEFINE g == [Top EXCEPT !.pc = "await", !.got = <<>>, !.blk = NULL]
    <3>1. PICK f : stack' = Append(SetTop(g), f)
      BY <1>6, <2>3 DEF CallEnter
    <3>2. Waiting(g)
      BY <1>1, <1>2 DEF Waiting, Frame
    <3> HIDE DEF g
    <3>3. QED
      BY <1>1, <2>1, <3>1, <3>2, PushSeen
  <2>4. QED
    BY <2>2, <2>3
<1>7. CASE CallReturn
  BY <1>1, <1>7, ReturnSeen DEF CallReturn
<1>8. QED
  BY <1>3, <1>4, <1>5, <1>6, <1>7

\* A bound printf.
LEMMA BindSeen ==
    ASSUME TypeOK, ErrorSeen, BindPrint \/ BindDrop \/ BindReturn
    PROVE  ErrorSeen'
<1>1. Running /\ UNCHANGED <<phase, failed>> /\ ~failed
  <2>1. Running /\ UNCHANGED <<phase, failed>>
    BY DEF BindPrint, BindDrop, BindReturn, At_, driver
  <2>2. ~Unwinding(Top)
    BY DEF BindPrint, BindDrop, BindReturn, At_, Unwinding, Waiting
  <2>3. QED
    BY <2>1, <2>2, NoErrorAt
<1>2. CASE BindPrint
  <2>1. stack' = SetTop([Top EXCEPT !.pc = "drop"])
    BY <1>2 DEF BindPrint
  <2>2. QED
    BY <1>1, <2>1, MoveSeen
<1>3. CASE BindDrop
  <2>1. stack' = SetTop([Top EXCEPT !.i = @ + 1])
    BY <1>3 DEF BindDrop
  <2>2. QED
    BY <1>1, <2>1, MoveSeen
<1>4. CASE BindReturn
  <2>1. PICK v : Return(v)
    BY <1>4 DEF BindReturn
  <2>2. QED
    BY <1>1, <2>1, ReturnSeen
<1>5. QED
  BY <1>2, <1>3, <1>4

\* A user function: its arguments and its body.
LEMMA FunctionSeen ==
    ASSUME TypeOK, ErrorSeen, FunctionArgument \/ FunctionBody \/ FunctionLeave
                              \/ FunctionReturn \/ FunctionOutOfMemory
    PROVE  ErrorSeen'
<1>1. Running /\ UNCHANGED phase /\ Top.node.kind = "func"
  BY DEF FunctionArgument, FunctionBody, FunctionLeave, FunctionReturn,
         FunctionOutOfMemory, At_, driver
<1>2. Top \in Frame
  BY <1>1, RunningType
<1>3. CASE FunctionArgument
  <2>1. ~failed'
    BY <1>1, <1>3, NoErrorAt DEF FunctionArgument, At_, Unwinding, Waiting
  <2>2. UNCHANGED stack \/ \E f : stack' = SetTop(f)
    BY <1>3 DEF FunctionArgument
  <2>3. UNCHANGED failed
    BY <1>3 DEF FunctionArgument
  <2>4. QED
    BY <1>1, <2>1, <2>2, <2>3, StaySeen, MoveSeen
<1>4. CASE FunctionBody
  <2>1. ~failed'
    BY <1>1, <1>4, NoErrorAt DEF FunctionBody, At_, Unwinding, Waiting
  <2> DEFINE f == [Top EXCEPT !.pc = "body", !.got = <<>>, !.blk = NULL]
  <2>2. Waiting(f)
    BY <1>1, <1>2 DEF Waiting, Frame
  <2>3. Evaluate(f, Child(1), Chain)
    BY <1>4 DEF FunctionBody
  <2> HIDE DEF f
  <2>4. QED
    BY <1>1, <2>1, <2>2, <2>3, EvaluateSeen
<1>5. CASE FunctionLeave
  <2> DEFINE f == [Top EXCEPT !.pc = "leave", !.i = RootStart]
  <2>1. Unwinding(f)
    BY <1>2 DEF Unwinding, Frame
  <2>2. stack' = SetTop(f)
    BY <1>5 DEF FunctionLeave
  <2> HIDE DEF f
  <2>3. QED
    BY <1>1, <2>1, <2>2, MoveSeen
<1>6. CASE FunctionReturn
  BY <1>1, <1>6, ReturnSeen DEF FunctionReturn
<1>7. CASE FunctionOutOfMemory
  <2>1. PICK v : Return(v)
    BY <1>7 DEF FunctionOutOfMemory
  <2>2. QED
    BY <1>1, <2>1, ReturnSeen
<1>8. QED
  BY <1>3, <1>4, <1>5, <1>6, <1>7

\* The destruction of a body goes on until its end.
LEMMA RootDestroySeen ==
    ASSUME TypeOK, ErrorSeen, RootDestroy
    PROVE  ErrorSeen'
<1>1. Running /\ UNCHANGED phase /\ Top.pc \in {"leave", "unwind"}
  BY DEF RootDestroy, At_, driver
<1>2. Top \in Frame
  BY <1>1, RunningType
<1> DEFINE f == [Top EXCEPT !.i = @ - 1]
<1>3. Unwinding(f)
  BY <1>1, <1>2 DEF Unwinding, Frame
<1>4. stack' = SetTop(f)
  BY DEF RootDestroy
<1> HIDE DEF f
<1>5. QED
  BY <1>1, <1>3, <1>4, MoveSeen

(***************************************************************************)
(* Statements.                                                             *)
(***************************************************************************)
\* Statement lists.
LEMMA BodySeen ==
    ASSUME TypeOK, ErrorSeen, BodyStatement \/ BodyResult \/ BodyEnd
    PROVE  ErrorSeen'
<1>1. Running /\ UNCHANGED <<phase, failed>> /\ Top.node.kind = "body"
  BY DEF BodyStatement, BodyResult, BodyEnd, At_, driver
<1>2. Top \in Frame
  BY <1>1, RunningType
<1>3. CASE BodyStatement
  <2> DEFINE f == [Top EXCEPT !.pc = "result", !.i = @ + 1]
  <2>1. ~failed'
    BY <1>1, <1>3, NoErrorAt DEF BodyStatement, At_, Unwinding, Waiting
  <2>2. Waiting(f)
    BY <1>1, <1>2 DEF Waiting, Frame
  <2>3. Evaluate(f, Child(Top.i + 1), Top.chain)
    BY <1>3 DEF BodyStatement
  <2> HIDE DEF f
  <2>4. QED
    BY <1>1, <2>1, <2>2, <2>3, EvaluateSeen
<1>4. CASE BodyResult
  <2>1. CASE EndsEarly(Child(Top.i))
    <3>1. Return(Got(1))
      BY <1>4, <2>1 DEF BodyResult
    <3>2. QED
      BY <1>1, <3>1, ReturnSeen
  <2>2. CASE ~EndsEarly(Child(Top.i))
    <3>1. ~failed'
      BY <1>1, <2>2 DEF EndsEarly
    <3>2. stack' = SetTop([Top EXCEPT !.pc = "start", !.got = <<>>])
      BY <1>4, <2>2 DEF BodyResult
    <3>3. QED
      BY <1>1, <3>1, <3>2, MoveSeen
  <2>3. QED
    BY <2>1, <2>2
<1>5. CASE BodyEnd
  BY <1>1, <1>5, ReturnSeen DEF BodyEnd
<1>6. QED
  BY <1>3, <1>4, <1>5

\* Conditional statements.
LEMMA IfSeen ==
    ASSUME TypeOK, ErrorSeen, IfStart \/ IfCondition \/ IfReturn
    PROVE  ErrorSeen'
<1>1. Running /\ UNCHANGED <<phase, failed>> /\ Top.node.kind = "if"
  BY DEF IfStart, IfCondition, IfReturn, At_, driver
<1>2. Top \in Frame
  BY <1>1, RunningType
<1>3. CASE IfStart
  <2>1. ~failed'
    BY <1>1, <1>3, NoErrorAt DEF IfStart, At_, Unwinding, Waiting
  <2>2. Waiting([Top EXCEPT !.pc = "condition"])
    BY <1>1, <1>2 DEF Waiting, Frame
  <2>3. QED
    BY <1>1, <1>3, <2>1, <2>2, EvaluateSeen DEF IfStart
<1>4. CASE IfCondition
  <2> DEFINE f == [Top EXCEPT !.pc = "body", !.got = <<>>]
  <2>1. Waiting(f)
    BY <1>1, <1>2 DEF Waiting, Frame
  <2>2. (\E v : Return(v)) \/ (~failed' /\ Evaluate(f, Child(2), Top.chain))
    BY <1>1, <1>4 DEF IfCondition
  <2> HIDE DEF f
  <2>3. QED
    BY <1>1, <2>1, <2>2, ReturnSeen, EvaluateSeen
<1>5. CASE IfReturn
  BY <1>1, <1>5, ReturnSeen DEF IfReturn
<1>6. QED
  BY <1>3, <1>4, <1>5

\* A loop, before its iterations.
LEMMA ForStartSeen ==
    ASSUME TypeOK, ErrorSeen, ForInit \/ ForFailed \/ ForVariable \/ ForEnd
    PROVE  ErrorSeen'
<1>1. Running /\ UNCHANGED phase /\ Top.node.kind = "for"
  BY DEF ForInit, ForFailed, ForVariable, ForEnd, At_, driver
<1>2. Top \in Frame
  BY <1>1, RunningType
<1>3. CASE ForInit
  <2> DEFINE f == [Top EXCEPT !.pc = "test"]
             g == [Top EXCEPT !.pc = "variable"]
  <2>1. ~failed'
    BY <1>1, <1>3, NoErrorAt DEF ForInit, At_, Unwinding, Waiting
  <2>2. Waiting(g)
    BY <1>1, <1>2 DEF Waiting, Frame
  <2>3. stack' = SetTop(f) \/ Evaluate(g, Child(1), Top.chain)
    BY <1>3 DEF ForInit
  <2> HIDE DEF f, g
  <2>4. QED
    BY <1>1, <2>1, <2>2, <2>3, MoveSeen, EvaluateSeen
<1>4. CASE ForFailed
  BY <1>1, <1>4, ReturnSeen DEF ForFailed
<1>5. CASE ForVariable
  <2>1. CASE Got(1) = NULL
    BY <1>1, <1>5, <2>1, StaySeen DEF ForVariable
  <2>2. CASE Got(1) # NULL
    <3>1. PICK ok \in BOOLEAN :
              /\ failed' = ~ok
              /\ IF ok THEN stack' = SetTop([Top EXCEPT !.pc = "test", !.got = <<>>])
                 ELSE Return(Got(1))
      BY <1>5, <2>2 DEF ForVariable
    <3>2. CASE ok
      BY <1>1, <3>1, <3>2, MoveSeen
    <3>3. CASE ~ok
      BY <1>1, <3>1, <3>3, ReturnSeen
    <3>4. QED
      BY <3>2, <3>3
  <2>3. QED
    BY <2>1, <2>2
<1>6. CASE ForEnd
  BY <1>1, <1>6, ReturnSeen DEF ForEnd
<1>7. QED
  BY <1>3, <1>4, <1>5, <1>6

\* The iterations of a loop.
LEMMA ForIterationSeen ==
    ASSUME TypeOK, ErrorSeen, ForTest \/ ForCondition \/ ForStep \/ ForBody \/ ForIterated
    PROVE  ErrorSeen'
<1>1. Running /\ UNCHANGED <<phase, failed>> /\ Top.node.kind = "for"
  BY DEF ForTest, ForCondition, ForStep, ForBody, ForIterated, At_, driver
<1>2. Top \in Frame
  BY <1>1, RunningType
<1>3. CASE ForTest
  <2> DEFINE f == [Top EXCEPT !.pc = "iterate"]
             g == [Top EXCEPT !.pc = "condition"]
  <2>1. ~failed'
    BY <1>1, <1>3, NoErrorAt DEF ForTest, At_, Unwinding, Waiting
  <2>2. Waiting(g)
    BY <1>1, <1>2 DEF Waiting, Frame
  <2>3. stack' = SetTop(f) \/ Evaluate(g, Child(2), Chain)
    BY <1>3 DEF ForTest
  <2> HIDE DEF f, g
  <2>4. QED
    BY <1>1, <2>1, <2>2, <2>3, MoveSeen, EvaluateSeen
<1>4. CASE ForCondition
  <2>1. ~failed' /\ \E f : stack' = SetTop(f)
    BY <1>1, <1>4 DEF ForCondition
  <2>2. QED
    BY <1>1, <2>1, MoveSeen
<1>5. CASE ForStep
  <2> DEFINE f == [Top EXCEPT !.pc = "body"]
             g == [Top EXCEPT !.pc = "step"]
  <2>1. ~failed'
    BY <1>1, <1>5, NoErrorAt DEF ForStep, At_, Unwinding, Waiting
  <2>2. Waiting(f) /\ Waiting(g)
    BY <1>1, <1>2 DEF Waiting, Frame
  <2>3. Evaluate(f, Child(4), Chain) \/ Evaluate(g, Child(3), Chain)
    BY <1>5 DEF ForStep
  <2> HIDE DEF f, g
  <2>4. QED
    BY <1>1, <2>1, <2>2, <2>3, EvaluateSeen
<1>6. CASE ForBody
  <2> DEFINE f == [Top EXCEPT !.pc = "body", !.got = <<>>]
  <2>1. Waiting(f)
    BY <1>1, <1>2 DEF Waiting, Frame
  <2>2. ~failed' /\ Evaluate(f, Child(4), Chain)
    BY <1>1, <1>6 DEF ForBody
  <2> HIDE DEF f
  <2>3. QED
    BY <1>1, <2>1, <2>2, EvaluateSeen
<1>7. CASE ForIterated
  <2>1. ~failed' /\ ((\E v : Return(v)) \/ (\E f : stack' = SetTop(f)))
    BY <1>1, <1>7 DEF ForIterated
  <2>2. QED
    BY <1>1, <2>1, ReturnSeen, MoveSeen
<1>8. QED
  BY <1>3, <1>4, <1>5, <1>6, <1>7

\* Declarations, assignments and returns.
LEMMA ValueSeen ==
    ASSUME TypeOK, ErrorSeen, StatementValue \/ StatementFailed \/ Declare \/ Assign
                              \/ AssignTarget \/ AssignThrough \/ ReturnValue
                              \/ ReturnAfterBody
    PROVE  ErrorSeen'
<1>1. Running /\ UNCHANGED phase /\ Top.node.kind \in {"decl", "assign", "return"}
  BY DEF StatementValue, StatementFailed, Declare, Assign, AssignTarget, AssignThrough,
         ReturnValue, ReturnAfterBody, At_, driver
<1>2. Top \in Frame
  BY <1>1, RunningType
<1> DEFINE value == [Top EXCEPT !.pc = "value"]
           target == [Top EXCEPT !.pc = "target"]
           body == [Top EXCEPT !.pc = "body"]
<1>3. Waiting(value) /\ Waiting(target) /\ Waiting(body)
  BY <1>1, <1>2 DEF Waiting, Frame
<1>4. CASE StatementValue
  <2>1. ~failed'
    BY <1>1, <1>4, NoErrorAt DEF StatementValue, At_, Unwinding, Waiting
  <2>2. Evaluate(value, Child(1), Top.chain)
    BY <1>4 DEF StatementValue
  <2> HIDE DEF value
  <2>3. QED
    BY <1>1, <1>3, <2>1, <2>2, EvaluateSeen
<1>5. CASE StatementFailed
  <2>1. PICK v : Return(v)
    BY <1>5 DEF StatementFailed
  <2>2. QED
    BY <1>1, <2>1, ReturnSeen
<1>6. CASE Declare
  <2>1. (UNCHANGED <<stack, failed>>) \/ (\E v : Return(v))
    BY <1>6 DEF Declare
  <2>2. QED
    BY <1>1, <2>1, StaySeen, ReturnSeen
<1>7. CASE Assign
  <2>1. (UNCHANGED <<stack, failed>>) \/ (\E v : Return(v))
    BY <1>7 DEF Assign
  <2>2. QED
    BY <1>1, <2>1, StaySeen, ReturnSeen
<1>8. CASE AssignTarget
  <2>1. ~failed' /\ Evaluate(target, Child(2), Top.chain)
    BY <1>8 DEF AssignTarget
  <2> HIDE DEF target
  <2>2. QED
    BY <1>1, <1>3, <2>1, EvaluateSeen
<1>9. CASE AssignThrough
  <2>1. PICK v : Return(v)
    BY <1>9 DEF AssignThrough
  <2>2. QED
    BY <1>1, <2>1, ReturnSeen
<1>10. CASE ReturnValue
  <2>1. (\E v : Return(v)) \/ (~failed' /\ Evaluate(body, Child(2), Top.chain))
    BY <1>10 DEF ReturnValue
  <2> HIDE DEF body
  <2>2. QED
    BY <1>1, <1>3, <2>1, ReturnSeen, EvaluateSeen
<1>11. CASE ReturnAfterBody
  BY <1>1, <1>11, ReturnSeen DEF ReturnAfterBody
<1>12. QED
  BY <1>4, <1>5, <1>6, <1>7, <1>8, <1>9, <1>10, <1>11

\* The driver: nothing has failed when the entry point is called.
LEMMA DriverSeen ==
    ASSUME TypeOK, ErrorSeen, Driver
    PROVE  ErrorSeen'
<1>1. CASE Register
  <2>1. phase = "interpret" /\ ~failed /\ stack = <<>> /\ UNCHANGED stack
    BY <1>1 DEF Register, ErrorSeen
  <2>2. (UNCHANGED <<phase, failed>>) \/ phase' = "destroy" \/ ~failed'
    BY <1>1, <2>1 DEF Register
  <2>3. phase' \in {"interpret", "entry"} => ~failed' /\ stack' = <<>>
    BY <2>1, <2>2
  <2>4. stack' = <<>>
    BY <2>1
  <2>5. QED
    BY <2>3, <2>4 DEF ErrorSeen
<1>2. CASE Registered
  BY <1>2 DEF Registered, ErrorSeen
<1>3. CASE EntryPoint
  <2>1. phase' = "run" /\ ~failed /\ stack = <<>>
    BY <1>3 DEF EntryPoint, ErrorSeen
  <2>2. UNCHANGED stack \/ (~failed' /\ \E f : stack' = <<f>>)
    BY <1>3, <2>1 DEF EntryPoint
  <2>3. \A j \in DOMAIN stack' : ~(j < Len(stack'))
    BY <2>1, <2>2
  <2>4. failed' => stack' = <<>>
    BY <2>1, <2>2
  <2>5. QED
    BY <2>1, <2>3, <2>4 DEF ErrorSeen
<1>4. CASE EntryReturned
  BY <1>4 DEF EntryReturned, ErrorSeen
<1>5. CASE ScopeDestroy
  BY <1>5 DEF ScopeDestroy, ErrorSeen, Waiting, Top
<1>6. QED
  BY <1>1, <1>2, <1>3, <1>4, <1>5 DEF Driver

\* Every step.
LEMMA NextSeen ==
    ASSUME TypeOK, ErrorSeen, [Next]_vars
    PROVE  ErrorSeen'
<1>1. CASE Expression
  BY <1>1, LiteralSeen, UnarySeen, PairSeen DEF Expression
<1>2. CASE Call
  BY <1>2, CallerSeen, BindSeen, FunctionSeen, RootDestroySeen DEF Call
<1>3. CASE Statement
  BY <1>3, BodySeen, IfSeen, ForStartSeen, ForIterationSeen, ValueSeen DEF Statement
<1>4. CASE Driver
  BY <1>4, DriverSeen
<1>5. CASE UNCHANGED vars
  BY <1>5, StaySeen DEF vars
<1>6. QED
  BY <1>1, <1>2, <1>3, <1>4, <1>5 DEF Next, Stopped

\* Wherever a callee can fail, its caller looks at error->is_failed before it
\* does anything else.
THEOREM ErrorsSeen == Spec => []ErrorSeen
<1>1. Init => ErrorSeen
  BY DEF Init, ErrorSeen
<1>2. TypeOK /\ ErrorSeen /\ [Next]_vars => ErrorSeen'
  BY NextSeen
<1>3. QED
  BY <1>1, <1>2, TypeCorrect, PTL DEF Spec

(***************************************************************************)
(* After an error.                                                         *)
(***************************************************************************)
\* What FailStop asks of one step.
Winding ==
    /\ Len(stack') <= Len(stack)
    /\ Len(variables'.insts) <= Len(variables.insts)
    /\ \A a \in Addr : ~Live(mem, a) /\ Live(mem', a) =>
            mem'.cells[a].type = "void"

\* A step that leaves the variables alone and brings no block to life.
LEMMA WindingFrom ==
    ASSUME TypeOK, Len(stack') <= Len(stack), UNCHANGED variables, NoNew(mem, mem')
    PROVE  Winding
<1>1. Len(variables.insts) \in Nat
  BY Typed DEF VariableScope
<1>2. QED
  BY <1>1 DEF Winding, NoNew

\* Neither a return nor a change of the locals adds an activation.
LEMMA Shrinks ==
    ASSUME TypeOK, stack # <<>>, (\E v : Return(v)) \/ (\E f : stack' = SetTop(f))
    PROVE  Len(stack') <= Len(stack)
<1>1. stack \in Seq(Frame)
  BY Typed
<1>2. PICK n \in Nat : n = Len(stack) /\ n >= 1
  BY <1>1
<1>3. CASE \E v : Return(v)
  <2>1. PICK v : Return(v)
    BY <1>3
  <2>2. CASE n - 1 = 0
    BY <1>2, <2>1, <2>2 DEF Return
  <2>3. CASE n - 1 # 0
    <3>1. Len(stack) # 0 /\ Len(stack) # 1
      BY <1>2, <2>3
    <3>2. stack' = Popped(stack, v)
      BY <1>2, <2>1, <2>3 DEF Return, Popped
    <3>3. Len(stack') = n - 1
      BY <1>1, <1>2, <3>1, <3>2, PoppedShape
    <3>4. QED
      BY <1>2, <3>3
  <2>4. QED
    BY <2>2, <2>3
<1>4. CASE \E f : stack' = SetTop(f)
  <2>1. PICK f : stack' = SetTop(f)
    BY <1>4
  <2>2. stack' = [stack EXCEPT ![n] = f]
    BY <1>2, <2>1 DEF SetTop
  <2>3. Len(stack') = n
    BY <1>1, <1>2, <2>2
  <2>4. QED
    BY <1>2, <2>3
<1>5. QED
  BY <1>3, <1>4

\* Expressions: an operator with a failed operand returns.
LEMMA ExpressionWinds ==
    ASSUME TypeOK, ErrorSeen, failed, Expression
    PROVE  Winding
<1>1. CASE UnaryFailed \/ RightOperand
  <2>1. Running /\ UNCHANGED <<variables, mem>> /\ \E v : Return(v)
    BY <1>1 DEF UnaryFailed, RightOperand, At_
  <2>2. NoNew(mem, mem')
    BY <2>1 DEF NoNew
  <2>3. QED
    BY <2>1, <2>2, Shrinks, WindingFrom, RunningType
<1>2. CASE OperandFailed
  <2>1. Running /\ UNCHANGED variables /\ Return(NULL)
    BY <1>2 DEF OperandFailed, At_
  <2>2. NoNew(mem, mem')
    BY <1>2, Typed, RuntimeDestroyType DEF OperandFailed
  <2>3. QED
    BY <2>1, <2>2, Shrinks, WindingFrom, RunningType
<1>3. ~(UnaryNew \/ UnaryFollow \/ ReferenceValue \/ UnaryOther \/ Binary \/ ArrayElement)
  BY DEF UnaryNew, UnaryFollow, ReferenceValue, UnaryOther, Binary, ArrayElement
<1>4. ~(Literal \/ StringBlock \/ StringValue \/ Variable \/ UnaryStart \/ ReferenceSlot
        \/ LeftOperand)
  <2>1. Running => Unwinding(Top)
    BY NoErrorAt
  <2>2. QED
    BY <2>1 DEF Literal, StringBlock, StringValue, Variable, UnaryStart, ReferenceSlot,
                LeftOperand, At_, Unwinding, Waiting
<1>5. QED
  BY <1>1, <1>2, <1>3, <1>4 DEF Expression

\* Calls: arguments are destroyed, then the roots of the functions.
LEMMA CallWinds ==
    ASSUME TypeOK, ErrorSeen, failed, Call
    PROVE  Winding
<1>1. mem \in Memory
  BY Typed
<1>2. CASE CallFailed
  <2>1. /\ Running /\ UNCHANGED variables
        /\ (\E v : Return(v)) \/ (\E f : stack' = SetTop(f))
        /\ \/ mem' = RuntimeDestroy(mem, Got(Top.i + 1))
           \/ mem' = Free(mem, Top.blk)
           \/ mem' = mem
    BY <1>2 DEF CallFailed, At_
  <2>2. NoNew(mem, mem')
    BY <1>1, <2>1, RuntimeDestroyType, FreeType DEF NoNew
  <2>3. QED
    BY <2>1, <2>2, Shrinks, WindingFrom, RunningType
<1>3. CASE CallReturn \/ FunctionLeave \/ FunctionReturn
  <2>1. /\ Running /\ UNCHANGED <<variables, mem>>
        /\ (\E v : Return(v)) \/ (\E f : stack' = SetTop(f))
    BY <1>3 DEF CallReturn, FunctionLeave, FunctionReturn, At_
  <2>2. NoNew(mem, mem')
    BY <2>1 DEF NoNew
  <2>3. QED
    BY <2>1, <2>2, Shrinks, WindingFrom, RunningType
<1>4. CASE RootDestroy
  <2>1. Running /\ \E f : stack' = SetTop(f)
    BY <1>4 DEF RootDestroy, At_
  <2>2. Len(stack') <= Len(stack)
    BY <2>1, Shrinks, RunningType
  <2>3. CASE ~RootMatches(variables, Top.i, Top.own)
    <3>1. UNCHANGED <<variables, mem>>
      BY <1>4, <2>3 DEF RootDestroy
    <3>2. QED
      BY <2>2, <3>1, WindingFrom DEF NoNew
  <2>4. CASE RootMatches(variables, Top.i, Top.own)
    <3>1. /\ mem' = RemoveReference(mem, variables.insts[Top.i].val)
          /\ variables' = DropLast(variables)
      BY <1>4, <2>4 DEF RootDestroy
    <3>2. NoNew(mem, mem')
      BY <1>1, <3>1, RemoveReferenceType
    <3>3. PICK n \in Nat : n = Len(variables.insts)
      BY Typed DEF VariableScope
    <3>4. variables.insts \in Seq(VariableInstance) /\ n >= 1
      BY <2>4, <3>3, Typed DEF VariableScope, RootMatches
    <3>5. variables'.insts = SubSeq(variables.insts, 1, n - 1)
      BY <3>1, <3>3, Typed DEF DropLast, VariableScope
    <3>6. Len(variables'.insts) = n - 1
      BY <3>3, <3>4, <3>5
    <3>7. QED
      BY <2>2, <3>2, <3>3, <3>6 DEF Winding, NoNew
  <2>5. QED
    BY <2>3, <2>4
<1>5. CASE FunctionOutOfMemory
  <2>1. PICK ok \in BOOLEAN :
            /\ Malloc(ok)
            /\ mem' = IF ok THEN Put(mem, Scalar("void", 0)) ELSE mem
            /\ \E v : Return(v)
    BY <1>5 DEF FunctionOutOfMemory
  <2>2. Running /\ UNCHANGED variables
    BY <1>5 DEF FunctionOutOfMemory, At_
  <2>3. Len(stack') <= Len(stack)
    BY <2>1, <2>2, Shrinks, RunningType
  <2>4. CASE ~ok
    BY <2>1, <2>2, <2>3, <2>4, WindingFrom DEF NoNew
  <2>5. CASE ok
    <3>1. Len(variables.insts) \in Nat
      BY Typed DEF VariableScope
    <3>2. \A a \in Addr : ~Live(mem, a) /\ Live(mem', a) => mem'.cells[a].type = "void"
      <4>1. SUFFICES ASSUME NEW a \in Addr, ~Live(mem, a), Live(mem', a)
                     PROVE  mem'.cells[a].type = "void"
        OBVIOUS
      <4>2. mem' = [mem EXCEPT !.cells[New(mem)] = Scalar("void", 0)]
        BY <2>1, <2>5 DEF Put
      <4>3. mem'.cells = [mem.cells EXCEPT ![New(mem)] = Scalar("void", 0)]
        BY <1>1, <4>2 DEF Memory
      <4>4. a = New(mem)
        BY <1>1, <4>1, <4>3 DEF Live, Memory
      <4>5. mem'.cells[a] = Scalar("void", 0)
        BY <1>1, <4>3, <4>4 DEF Memory
      <4>6. QED
        BY <4>5 DEF Scalar, NewCell
    <3>3. QED
      BY <2>2, <2>3, <3>1, <3>2 DEF Winding
  <2>6. QED
    BY <2>4, <2>5
<1>6. ~(CallArgument \/ CallEnter)
  BY DEF CallArgument, CallEnter
<1>7. ~(CallStart \/ BindPrint \/ BindDrop \/ BindReturn \/ FunctionArgument \/ FunctionBody)
  <2>1. Running => Unwinding(Top)
    BY NoErrorAt
  <2>2. QED
    BY <2>1 DEF CallStart, BindPrint, BindDrop, BindReturn, FunctionArgument, FunctionBody,
                At_, Unwinding, Waiting
<1>8. QED
  BY <1>2, <1>3, <1>4, <1>5, <1>6, <1>7 DEF Call

\* Statements: each one that waited for a value returns.
LEMMA StatementWinds ==
    ASSUME TypeOK, ErrorSeen, failed, Statement
    PROVE  Winding
<1>1. mem \in Memory
  BY Typed
<1>2. CASE BodyResult
  <2>1. EndsEarly(Child(Top.i))
    BY DEF EndsEarly
  <2>2. Running /\ UNCHANGED <<variables, mem>> /\ Return(Got(1))
    BY <1>2, <2>1 DEF BodyResult, At_
  <2>3. QED
    BY <2>2, Shrinks, WindingFrom, RunningType DEF NoNew
<1>3. CASE IfCondition \/ IfReturn \/ ForFailed \/ ForEnd \/ StatementFailed
  <2>1. Running /\ UNCHANGED <<variables, mem>> /\ \E v : Return(v)
    BY <1>3 DEF IfCondition, IfReturn, ForFailed, ForEnd, StatementFailed, At_
  <2>2. QED
    BY <2>1, Shrinks, WindingFrom, RunningType DEF NoNew
<1>4. CASE AssignThrough \/ ReturnAfterBody
  <2>1. /\ Running /\ UNCHANGED variables /\ \E v : Return(v)
        /\ \E a : mem' = RuntimeDestroy(mem, a)
    BY <1>4 DEF AssignThrough, ReturnAfterBody, At_
  <2>2. NoNew(mem, mem')
    BY <1>1, <2>1, RuntimeDestroyType
  <2>3. QED
    BY <2>1, <2>2, Shrinks, WindingFrom, RunningType
<1>5. ~(ForVariable \/ ForCondition \/ ForBody \/ ForIterated \/ Declare \/ Assign
        \/ AssignTarget \/ ReturnValue)
  BY DEF ForVariable, ForCondition, ForBody, ForIterated, Declare, Assign, AssignTarget,
         ReturnValue
<1>6. ~(BodyStatement \/ BodyEnd \/ IfStart \/ ForInit \/ ForTest \/ ForStep \/ StatementValue)
  <2>1. Running => Unwinding(Top)
    BY NoErrorAt
  <2>2. QED
    BY <2>1 DEF BodyStatement, BodyEnd, IfStart, ForInit, ForTest, ForStep, StatementValue,
                At_, Unwinding, Waiting
<1>7. QED
  BY <1>2, <1>3, <1>4, <1>5, <1>6 DEF Statement

\* The driver only destroys.
LEMMA DriverWinds ==
    ASSUME TypeOK, ErrorSeen, failed, Driver
    PROVE  Winding
<1>1. mem \in Memory /\ Len(stack) \in Nat
  BY Typed
<1>2. EntryReturned \/ ScopeDestroy
  BY DEF Driver, Register, Registered, EntryPoint, ErrorSeen
<1>3. UNCHANGED <<stack, variables>> /\ (UNCHANGED mem \/ \E a : mem' = InstanceDestroy(mem, a))
  BY <1>2 DEF EntryReturned, ScopeDestroy
<1>4. NoNew(mem, mem')
  BY <1>1, <1>3, InstanceDestroyType DEF NoNew
<1>5. QED
  BY <1>1, <1>3, <1>4, WindingFrom

\* After an error nothing is called, declared or computed, for every program:
\* what runs is the code that returns and destroys.
THEOREM ErrorsStop == Spec => FailStop
<1>1. ASSUME TypeOK, ErrorSeen, [Next]_vars
      PROVE  [failed => Winding]_vars
  <2>1. SUFFICES ASSUME Next, failed PROVE Winding
    BY <1>1
  <2>2. CASE Stopped
    <3>1. UNCHANGED <<stack, variables, mem>> /\ Len(stack) \in Nat
      BY <1>1, <2>2, Typed DEF Stopped, vars
    <3>2. QED
      BY <1>1, <3>1, WindingFrom DEF NoNew
  <2>3. QED
    BY <1>1, <2>1, <2>2, ExpressionWinds, CallWinds, StatementWinds, DriverWinds DEF Next
<1>2. [][failed => Winding]_vars => FailStop
  BY DEF FailStop, Winding
<1>3. QED
  BY <1>1, <1>2, TypeCorrect, ErrorsSeen, PTL DEF Spec
=============================================================================
