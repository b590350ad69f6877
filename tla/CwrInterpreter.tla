--------------------------- MODULE CwrInterpreter ---------------------------
(***************************************************************************)
(* The tree-walking interpreter (source/cwr_interpreter.c) run by its      *)
(* driver (tests/main.c, from cwr_intepreter_interpret to the destruction  *)
(* of the result).                                                         *)
(*                                                                         *)
(* `stack' is the C call stack of the evaluator: one frame for each active *)
(* cwr_intepreter_evaluate_* call, the last one running.  A frame holds    *)
(* the AST node it evaluates, the chain of bodies the call was given (its  *)
(* `root' argument, outwards), the local body it owns if it is a function  *)
(* call or a for loop, the results of its callees (got) and the point it   *)
(* is at (pc).  Each action is the code from one call of the evaluator to  *)
(* the next one, or one iteration of a loop over values.                   *)
(***************************************************************************)
EXTENDS CwrValue, CwrScope, FiniteSets

CONSTANTS Node,          \* the AST nodes, closed under children
          Program,       \* the programs: sequences of function declarations
          Body,          \* the C stack addresses a local body can get
          Id,            \* identifiers of variables and functions
          Name,          \* names of functions, and the operators
          MaxFailures    \* how many allocations may fail in a behaviour

Kind == {"none", "func", "body", "call", "if", "for", "decl", "assign",
         "return", "literal", "string", "var", "unary", "binary", "element"}

\* An AST node: kind, operator or name, identifier, number (the literal, the
\* length of a string), type (of a literal, of a function's first argument),
\* identifiers of the parameters, children.
ASSUME NodeAssumption ==
    \A n \in Node :
        n \in [kind : Kind, op : Name, id : Id, num : Nat, type : ValueType,
               params : Seq(Id), kids : Seq(Node)]
\* The shapes the parser builds.
ASSUME ShapeAssumption ==
    \A n \in Node :
        /\ n.kind \in {"func", "unary", "decl"} => Len(n.kids) = 1
        /\ n.kind \in {"binary", "element", "assign", "if"} => Len(n.kids) = 2
        /\ n.kind = "return" => Len(n.kids) \in {1, 2}
        /\ n.kind = "for" => Len(n.kids) = 4
        /\ n.kind \in {"none", "literal", "string", "var"} => n.kids = <<>>
        /\ n.kind = "binary" => n.op \in BinaryOp
ASSUME ProgramAssumption == Program \subseteq Seq({n \in Node : n.kind = "func"})
ASSUME BodyAssumption == GlobalScope \notin Body
ASSUME FailuresAssumption == MaxFailures \in Nat

VARIABLES phase,      \* how far the driver is
          program,    \* the parser's nodes_list
          next,       \* the loop index of the driver's loops
          functions,  \* context.functions
          variables,  \* context.variables
          stack,      \* the activations of the evaluator
          mem,        \* the heap
          failed,     \* error->is_failed
          failures,   \* allocations that failed so far
          result      \* what the entry point returned

vars == <<phase, program, next, functions, variables, stack, mem, failed,
          failures, result>>
driver == <<phase, program, next, functions>>

Phase == {"interpret", "entry", "run", "destroy", "done"}

\* The points of the evaluator's functions at which an activation can be.
Point == {"start", "value", "operand", "slot", "left", "right", "arguments",
          "await", "drop", "body", "leave", "unwind", "result", "condition",
          "variable", "test", "iterate", "step", "target"}

Frame == [node : Node,
          chain : Seq(Body),                 \* root, root->root, ...
          own : Body \cup {GlobalScope},     \* the local `body', if any
          pc : Point,
          got : Seq(Pointers),
          i : Nat,                           \* a loop index
          blk : Pointers]                    \* the arguments array

(***************************************************************************)
(* Calls and returns.                                                      *)
(***************************************************************************)
Top == stack[Len(stack)]
Child(i) == Top.node.kids[i]

\* What the i-th callee of the running frame returned.
Got(i) == IF i \in DOMAIN Top.got THEN Top.got[i] ELSE NULL

Running == phase = "run" /\ mem.fault = "none" /\ stack # <<>>
At_(kind, pc) == Running /\ Top.node.kind = kind /\ Top.pc = pc

\* Bodies of the running activations: a new one is at another address.
OwnedBodies == {stack[i].own : i \in DOMAIN stack} \ {GlobalScope}

NewFrame(n, chain, own) ==
    [node |-> n, chain |-> chain, own |-> own, pc |-> "start", got |-> <<>>,
     i |-> 0, blk |-> NULL]

SetTop(f) == [stack EXCEPT ![Len(stack)] = f]

\* Evaluate n with the chain given; the running frame waits at f.
Evaluate(f, n, chain) ==
    IF n.kind = "for"
    THEN \E b \in Body \ OwnedBodies :
            stack' = Append(SetTop(f), NewFrame(n, chain, b))
    ELSE stack' = Append(SetTop(f), NewFrame(n, chain, GlobalScope))

\* The running activation returns the pointer v to its caller.
Return(v) ==
    LET below == Len(stack) - 1
    IN  IF below = 0
        THEN stack' = <<>> /\ result' = v
        ELSE /\ stack' = [SubSeq(stack, 1, below) EXCEPT ![below].got = Append(@, v)]
             /\ UNCHANGED result

\* One malloc: it succeeds, or fails if the failures allowed are not used up.
Malloc(ok) ==
    IF ok THEN CanMalloc(mem) /\ UNCHANGED failures
    ELSE failures < MaxFailures /\ failures' = failures + 1

\* The chain a body evaluated for the running frame sees.
Chain == IF Top.own = GlobalScope THEN Top.chain ELSE <<Top.own>> \o Top.chain

(***************************************************************************)
(* Expressions: literals and variables.                                    *)
(***************************************************************************)
Literal ==
    /\ At_("literal", "start")
    /\ \E ok \in BOOLEAN :
        /\ Malloc(ok)
        /\ mem' = IF ok THEN Put(mem, Scalar(Top.node.type, Top.node.num)) ELSE mem
        /\ Return(IF ok THEN New(mem) ELSE NULL)
        /\ failed' = (failed \/ ~ok)
    /\ UNCHANGED <<driver, variables>>

\* The characters of a string literal ...
StringBlock ==
    /\ At_("string", "start")
    /\ \E ok \in BOOLEAN :
        /\ Malloc(ok)
        /\ failed' = (failed \/ ~ok)
        /\ IF ok
           THEN /\ mem' = Put(mem, Block(0, NULL))
                /\ stack' = SetTop([Top EXCEPT !.pc = "value", !.blk = New(mem)])
                /\ UNCHANGED result
           ELSE Return(NULL) /\ UNCHANGED mem
    /\ UNCHANGED <<driver, variables>>

\* ... and the array value that owns them.
StringValue ==
    /\ At_("string", "value")
    /\ \E ok \in BOOLEAN :
        /\ Malloc(ok)
        /\ mem' = IF ok THEN Put(mem, Array("char", Top.node.num, Top.blk))
                  ELSE Free(mem, Top.blk)
        /\ Return(IF ok THEN New(mem) ELSE NULL)
        /\ failed' = (failed \/ ~ok)
    /\ UNCHANGED <<driver, variables>>

Variable ==
    /\ At_("var", "start")
    /\ LET i == Get(variables, Top.chain, Top.node.id)
       IN  IF i = 0
           THEN mem' = Touch(mem, NULL) /\ UNCHANGED <<stack, result>>
           ELSE Return(variables.insts[i].val) /\ UNCHANGED mem
    /\ UNCHANGED <<driver, variables, failed, failures>>

(***************************************************************************)
(* Expressions: unary operators.                                           *)
(***************************************************************************)
UnaryStart ==
    /\ At_("unary", "start")
    /\ Evaluate([Top EXCEPT !.pc = "operand"], Child(1), Top.chain)
    /\ UNCHANGED <<driver, variables, mem, failed, failures, result>>

UnaryFailed ==
    /\ At_("unary", "operand")
    /\ failed
    /\ Return(Got(1))
    /\ UNCHANGED <<driver, variables, mem, failed, failures>>

\* Minus, negation, and the dereference of an array (or string): a new value.
UnaryNew ==
    /\ At_("unary", "operand")
    /\ ~failed
    /\ LET v == Got(1)
           c == At(mem, v)
       IN  /\ Top.node.op \in {"-", "!"} \/ (Top.node.op = "*" /\ ~c.isref)
           /\ \E ok \in BOOLEAN, g \in Garbage :
                LET new == IF Top.node.op = "*" THEN Element(mem, c, g)
                           ELSE UnaryValue(Top.node.op, c, g)
                    read == IF Top.node.op = "*" THEN Touch(Touch(mem, v), c.buf)
                            ELSE Touch(mem, v)
                IN  /\ Malloc(ok)
                    /\ mem' = RuntimeDestroy(IF ok THEN Put(read, new) ELSE read, v)
                    /\ Return(IF ok THEN New(mem) ELSE NULL)
                    /\ failed' = ~ok
    /\ UNCHANGED <<driver, variables>>

\* The dereference of a reference gives the value referred to itself.
UnaryFollow ==
    /\ At_("unary", "operand")
    /\ ~failed
    /\ LET v == Got(1)
           c == At(mem, v)
       IN  /\ Top.node.op = "*" /\ c.isref
           /\ mem' = RuntimeDestroy(Touch(mem, c.buf), v)
           /\ Return(At(mem, c.buf).buf)
           /\ failed' = (At(mem, c.buf).buf = NULL)
    /\ UNCHANGED <<driver, variables, failures>>

\* The reference operator allocates the value, then its slot.
ReferenceValue ==
    /\ At_("unary", "operand")
    /\ ~failed
    /\ Top.node.op = "&"
    /\ LET v == Got(1)
       IN  \E ok \in BOOLEAN :
            /\ Malloc(ok)
            /\ failed' = ~ok
            /\ IF ok
               THEN /\ mem' = Put(Touch(mem, v),
                                  Pointer(IF At(mem, v).type \in ValueType
                                          THEN At(mem, v).type ELSE "void"))
                    /\ stack' = SetTop([Top EXCEPT !.pc = "slot", !.blk = New(mem)])
                    /\ UNCHANGED result
               ELSE mem' = RuntimeDestroy(mem, v) /\ Return(NULL)
    /\ UNCHANGED <<driver, variables>>

ReferenceSlot ==
    /\ At_("unary", "slot")
    /\ LET v == Got(1)
       IN  \E ok \in BOOLEAN :
            /\ Malloc(ok)
            /\ failed' = ~ok
            /\ mem' = RuntimeDestroy(
                        IF ok THEN [Put(mem, Block(0, v)) EXCEPT
                                        !.cells[Top.blk].buf = New(mem)]
                        ELSE Free(mem, Top.blk), v)
            /\ Return(IF ok THEN Top.blk ELSE NULL)
    /\ UNCHANGED <<driver, variables>>

\* Any other operator (unary plus) returns its operand ... after destroying it.
UnaryOther ==
    /\ At_("unary", "operand")
    /\ ~failed
    /\ Top.node.op \notin {"-", "!", "*", "&"}
    /\ mem' = RuntimeDestroy(mem, Got(1))
    /\ Return(Got(1))
    /\ failed' = (Got(1) = NULL)
    /\ UNCHANGED <<driver, variables, failures>>

(***************************************************************************)
(* Expressions: binary operators and array elements.                       *)
(***************************************************************************)
Pair == {"binary", "element"}

LeftOperand ==
    /\ \E kind \in Pair : At_(kind, "start")
    /\ Evaluate([Top EXCEPT !.pc = "left"], Child(1), Top.chain)
    /\ UNCHANGED <<driver, variables, mem, failed, failures, result>>

\* Mutated: the error of the first operand is not looked at.
RightOperand_Unchecked ==
    /\ \E kind \in Pair : At_(kind, "left")
    /\ Evaluate([Top EXCEPT !.pc = "right"], Child(2), Top.chain)
    /\ UNCHANGED <<driver, variables, mem, failed, failures, result>>

RightOperand ==
    /\ \E kind \in Pair : At_(kind, "left")
    /\ IF failed
       THEN Return(NULL)
       ELSE /\ Evaluate([Top EXCEPT !.pc = "right"], Child(2), Top.chain)
            /\ UNCHANGED result
    /\ UNCHANGED <<driver, variables, mem, failed, failures>>

\* The second operand failed: the first one is destroyed.
\* Mutated: even if a variable holds it.
OperandFailed_DestroysHeld ==
    /\ \E kind \in Pair : At_(kind, "right")
    /\ failed
    /\ mem' = InstanceDestroy(mem, Got(1))
    /\ Return(NULL)
    /\ UNCHANGED <<driver, variables, failed, failures>>

OperandFailed ==
    /\ \E kind \in Pair : At_(kind, "right")
    /\ failed
    /\ mem' = RuntimeDestroy(mem, Got(1))
    /\ Return(NULL)
    /\ UNCHANGED <<driver, variables, failed, failures>>

DestroyOperands(m) == RuntimeDestroy(RuntimeDestroy(m, Got(1)), Got(2))

Binary ==
    /\ At_("binary", "right")
    /\ ~failed
    /\ LET op == Top.node.op
           read == Touch(Touch(mem, Got(1)), Got(2))
           left == At(mem, Got(1))
           right == At(mem, Got(2))
       IN  \E g \in Garbage :
            IF op = "/" /\ AsFloat(right, g) = 0
            THEN /\ mem' = DestroyOperands(read)
                 /\ Return(NULL)
                 /\ failed' = TRUE
                 /\ UNCHANGED failures
            ELSE \E ok \in BOOLEAN :
                 /\ Malloc(ok)
                 /\ mem' = DestroyOperands(
                        IF ok THEN Put(read, BinaryValue(op, left, right, g)) ELSE read)
                 /\ Return(IF ok THEN New(mem) ELSE NULL)
                 /\ failed' = ~ok
    /\ UNCHANGED <<driver, variables>>

\* `target > capacity - 1' compares as unsigned: no index is out of an empty
\* array.  A failed allocation of the element is not reported.
ArrayElement ==
    /\ At_("element", "right")
    /\ ~failed
    /\ LET read == Touch(Touch(mem, Got(1)), Got(2))
           c == At(mem, Got(1))
       IN  \E g \in Garbage :
            LET target == Truncate(AsFloat(At(mem, Got(2)), g), FloatUnit)
            IN  IF target < 0 \/ (c.cap > 0 /\ target > c.cap - 1)
                THEN /\ mem' = DestroyOperands(read)
                     /\ Return(NULL)
                     /\ failed' = TRUE
                     /\ UNCHANGED failures
                ELSE \E ok \in BOOLEAN :
                     /\ Malloc(ok)
                     /\ mem' = DestroyOperands(
                            IF ok THEN Put(Touch(read, c.buf), Element(mem, c, g))
                            ELSE read)
                     /\ Return(IF ok THEN New(mem) ELSE NULL)
                     /\ UNCHANGED failed
    /\ UNCHANGED <<driver, variables>>

(***************************************************************************)
(* Function calls: cwr_intepreter_evaluate_stat_func_call.                 *)
(***************************************************************************)
\* A printf whose first parameter is a pointer, a float or a char is bound to
\* a C function.
IsBind(f) == f.op = "printf" /\ f.type \in {"pointer", "float", "char"}

Callee == Get(functions, Top.chain, Top.node.id)

CallStart ==
    /\ At_("call", "start")
    /\ \E ok \in BOOLEAN :
        /\ Malloc(ok)
        /\ failed' = (failed \/ ~ok)
        /\ IF ok
           THEN /\ mem' = Put(mem, Block(0, NULL))
                /\ stack' = SetTop([Top EXCEPT !.pc = "arguments", !.blk = New(mem)])
                /\ UNCHANGED result
           ELSE Return(NULL) /\ UNCHANGED mem
    /\ UNCHANGED <<driver, variables>>

CallArgument ==
    /\ At_("call", "arguments")
    /\ ~failed
    /\ Len(Top.got) < Len(Top.node.kids)
    /\ Evaluate(Top, Child(Len(Top.got) + 1), Top.chain)
    /\ UNCHANGED <<driver, variables, mem, failed, failures, result>>

\* An argument failed: cwr_func_call_context_destroy of the earlier ones.
CallFailed ==
    /\ At_("call", "arguments")
    /\ failed
    /\ IF Top.i < Len(Top.got) - 1
       THEN /\ mem' = RuntimeDestroy(mem, Got(Top.i + 1))
            /\ stack' = SetTop([Top EXCEPT !.i = @ + 1])
            /\ UNCHANGED result
       ELSE /\ mem' = IF Top.i > 0 THEN Free(mem, Top.blk) ELSE mem
            /\ Return(NULL)
    /\ UNCHANGED <<driver, variables, failed, failures>>

\* cwr_intepreter_evaluate_func: a user function gets a new body.
CallEnter ==
    /\ At_("call", "arguments")
    /\ ~failed
    /\ Len(Top.got) = Len(Top.node.kids)
    /\ IF Callee = 0
       THEN mem' = Touch(mem, NULL) /\ UNCHANGED stack
       ELSE LET f == functions.insts[Callee].val
            IN  /\ \E b \in IF IsBind(f) THEN {GlobalScope} ELSE Body \ OwnedBodies :
                    stack' = Append(SetTop([Top EXCEPT !.pc = "await", !.got = <<>>,
                                                       !.blk = NULL]),
                                    [NewFrame(f, <<>>, b) EXCEPT !.got = Top.got,
                                                                 !.blk = Top.blk])
                /\ UNCHANGED mem
    /\ UNCHANGED <<driver, variables, failed, failures, result>>

CallReturn ==
    /\ At_("call", "await")
    /\ Return(Got(1))
    /\ UNCHANGED <<driver, variables, mem, failed, failures>>

(***************************************************************************)
(* A bound printf reads its first argument and destroys all of them.       *)
(***************************************************************************)
BindPrint ==
    /\ At_("func", "start")
    /\ IsBind(Top.node)
    /\ mem' = LET content == Got(1)
                  read == Touch(mem, content)
              IN  IF Top.node.type = "pointer" THEN Touch(read, At(mem, content).buf)
                  ELSE read
    /\ stack' = SetTop([Top EXCEPT !.pc = "drop"])
    /\ UNCHANGED <<driver, variables, failed, failures, result>>

BindDrop ==
    /\ At_("func", "drop")
    /\ Top.i < Len(Top.got)
    /\ mem' = RuntimeDestroy(mem, Got(Top.i + 1))
    /\ stack' = SetTop([Top EXCEPT !.i = @ + 1])
    /\ UNCHANGED <<driver, variables, failed, failures, result>>

\* It returns a void value; a failed allocation of it is not reported.
BindReturn ==
    /\ At_("func", "drop")
    /\ Top.i = Len(Top.got)
    /\ \E ok \in BOOLEAN :
        LET freed == IF Top.i > 0 THEN Free(mem, Top.blk) ELSE mem
        IN  /\ Malloc(ok)
            /\ mem' = IF ok THEN Put(freed, Scalar("void", 0)) ELSE freed
            /\ Return(IF ok THEN New(freed) ELSE NULL)
    /\ UNCHANGED <<driver, variables, failed>>

(***************************************************************************)
(* A user function: the arguments become variables of its body.            *)
(***************************************************************************)
Instance(root, id, v) == [root |-> root, id |-> id, val |-> v]

\* cwr_scope_add: whether the array grows, and whether growing it fails.
AddVariable(ok, inst) ==
    IF ok THEN variables' = Add(variables, inst) /\ UNCHANGED failures
    ELSE /\ MustGrow(variables)
         /\ failures < MaxFailures
         /\ failures' = failures + 1
         /\ UNCHANGED variables

\* Where cwr_scope_root_destroy starts: at the top of the array.
\* Mutated: the top entry is missed; nothing is destroyed after an error.
RootStart_OffByOne == Len(variables.insts) - 1
RootStart_SkippedOnError == IF failed THEN 0 ELSE Len(variables.insts)
RootStart == Len(variables.insts)

FunctionArgument ==
    /\ At_("func", "start")
    /\ ~IsBind(Top.node)
    /\ Top.i < Len(Top.got)
    /\ LET v == Got(Top.i + 1)
           held == AddReference(mem, v)
       IN  IF Top.i + 1 \notin DOMAIN Top.node.params \/ v = NULL
           THEN /\ mem' = Raise(held, "wild_pointer")
                /\ UNCHANGED <<stack, variables, failures>>
           ELSE \E ok \in BOOLEAN :
                /\ AddVariable(ok, Instance(Top.own, Top.node.params[Top.i + 1], v))
                /\ mem' = IF ok THEN held ELSE InstanceDestroy(held, v)
                /\ stack' = SetTop(IF ok THEN [Top EXCEPT !.i = @ + 1]
                                   ELSE [Top EXCEPT !.pc = "unwind",
                                                    !.i = RootStart])
    /\ UNCHANGED <<driver, failed, result>>

FunctionBody ==
    /\ At_("func", "start")
    /\ ~IsBind(Top.node)
    /\ Top.i = Len(Top.got)
    /\ mem' = Free(mem, Top.blk)
    /\ Evaluate([Top EXCEPT !.pc = "body", !.got = <<>>, !.blk = NULL], Child(1), Chain)
    /\ UNCHANGED <<driver, variables, failed, failures, result>>

FunctionLeave ==
    /\ At_("func", "body")
    /\ stack' = SetTop([Top EXCEPT !.pc = "leave", !.i = RootStart])
    /\ UNCHANGED <<driver, variables, mem, failed, failures, result>>

\* Mutated: an entry of another root is looked at again and again.
RootDestroy_StuckOnOther ==
    /\ \E kind \in {"func", "for"}, pc \in {"leave", "unwind"} : At_(kind, pc)
    /\ Top.i > 0
    /\ IF RootMatches(variables, Top.i, Top.own)
       THEN /\ mem' = RemoveReference(mem, variables.insts[Top.i].val)
            /\ variables' = DropLast(variables)
            /\ stack' = SetTop([Top EXCEPT !.i = @ - 1])
       ELSE UNCHANGED <<mem, variables, stack>>
    /\ UNCHANGED <<driver, failed, failures, result>>

\* Mutated: the loop goes on below the first entry.
RootDestroy_PastStart ==
    /\ \E kind \in {"func", "for"}, pc \in {"leave", "unwind"} : At_(kind, pc)
    /\ Top.i >= 0
    /\ IF RootMatches(variables, Top.i, Top.own)
       THEN /\ mem' = RemoveReference(mem, variables.insts[Top.i].val)
            /\ variables' = DropLast(variables)
       ELSE UNCHANGED <<mem, variables>>
    /\ stack' = SetTop([Top EXCEPT !.i = @ - 1])
    /\ UNCHANGED <<driver, failed, failures, result>>

\* One iteration of cwr_scope_root_destroy for the body of the running frame.
RootDestroy ==
    /\ \E kind \in {"func", "for"}, pc \in {"leave", "unwind"} : At_(kind, pc)
    /\ Top.i > 0
    /\ IF RootMatches(variables, Top.i, Top.own)
       THEN /\ mem' = RemoveReference(mem, variables.insts[Top.i].val)
            /\ variables' = DropLast(variables)
       ELSE UNCHANGED <<mem, variables>>
    /\ stack' = SetTop([Top EXCEPT !.i = @ - 1])
    /\ UNCHANGED <<driver, failed, failures, result>>

FunctionReturn ==
    /\ At_("func", "leave")
    /\ Top.i = 0
    /\ Return(Got(1))
    /\ UNCHANGED <<driver, variables, mem, failed, failures>>

\* An argument could not be added: the error is raised and a void value returned.
FunctionOutOfMemory ==
    /\ At_("func", "unwind")
    /\ Top.i = 0
    /\ \E ok \in BOOLEAN :
        /\ Malloc(ok)
        /\ mem' = IF ok THEN Put(mem, Scalar("void", 0)) ELSE mem
        /\ Return(IF ok THEN New(mem) ELSE NULL)
    /\ failed' = TRUE
    /\ UNCHANGED <<driver, variables>>

(***************************************************************************)
(* Statement lists: cwr_intepreter_evaluate_expr_body.                     *)
(***************************************************************************)
BodyStatement ==
    /\ At_("body", "start")
    /\ Top.i < Len(Top.node.kids)
    /\ Evaluate([Top EXCEPT !.pc = "result", !.i = @ + 1], Child(Top.i + 1), Top.chain)
    /\ UNCHANGED <<driver, variables, mem, failed, failures, result>>

IsBlock(n) == n.kind \in {"if", "for"}

\* When the list ends early.
\* Mutated: an error does not end it.
EndsEarly_IgnoresError(n) == n.kind = "return" \/ (IsBlock(n) /\ Got(1) # NULL)
EndsEarly(n) == failed \/ n.kind = "return" \/ (IsBlock(n) /\ Got(1) # NULL)

BodyResult ==
    /\ At_("body", "result")
    /\ IF EndsEarly(Child(Top.i))
       THEN Return(Got(1)) /\ UNCHANGED mem
       ELSE /\ mem' = IF Got(1) # NULL THEN RuntimeDestroy(mem, Got(1)) ELSE mem
            /\ stack' = SetTop([Top EXCEPT !.pc = "start", !.got = <<>>])
            /\ UNCHANGED result
    /\ UNCHANGED <<driver, variables, failed, failures>>

BodyEnd ==
    /\ At_("body", "start")
    /\ Top.i = Len(Top.node.kids)
    /\ Return(NULL)
    /\ UNCHANGED <<driver, variables, mem, failed, failures>>

(***************************************************************************)
(* if                                                                      *)
(***************************************************************************)
IfStart ==
    /\ At_("if", "start")
    /\ Evaluate([Top EXCEPT !.pc = "condition"], Child(1), Top.chain)
    /\ UNCHANGED <<driver, variables, mem, failed, failures, result>>

IfCondition ==
    /\ At_("if", "condition")
    /\ LET v == Got(1)
       IN  IF failed THEN Return(v) /\ UNCHANGED mem
           ELSE /\ mem' = RuntimeDestroy(mem, v)
                /\ \E g \in Garbage :
                    IF AsInteger(At(mem, v), g) # 0
                    THEN /\ Evaluate([Top EXCEPT !.pc = "body", !.got = <<>>],
                                     Child(2), Top.chain)
                         /\ UNCHANGED result
                    ELSE Return(NULL)
    /\ UNCHANGED <<driver, variables, failed, failures>>

IfReturn ==
    /\ At_("if", "body")
    /\ Return(Got(1))
    /\ UNCHANGED <<driver, variables, mem, failed, failures>>

(***************************************************************************)
(* for: the loop owns a body.  The step runs before the body of each       *)
(* iteration; only the condition's end of the loop destroys the body.      *)
(***************************************************************************)
ForInit ==
    /\ At_("for", "start")
    /\ IF Child(1).kind = "none"
       THEN stack' = SetTop([Top EXCEPT !.pc = "test"])
       ELSE Evaluate([Top EXCEPT !.pc = "variable"], Child(1), Top.chain)
    /\ UNCHANGED <<driver, variables, mem, failed, failures, result>>

\* Any error inside the loop leaves it at once.
ForFailed ==
    /\ \E pc \in {"variable", "condition", "step", "body"} : At_("for", pc)
    /\ failed
    /\ Return(Got(1))
    /\ UNCHANGED <<driver, variables, mem, failed, failures>>

ForVariable ==
    /\ At_("for", "variable")
    /\ ~failed
    /\ LET v == Got(1)
           held == AddReference(mem, v)
       IN  IF v = NULL
           THEN mem' = held /\ UNCHANGED <<stack, variables, failed, failures, result>>
           ELSE \E ok \in BOOLEAN :
                /\ AddVariable(ok, Instance(Top.own, Top.node.id, v))
                /\ failed' = ~ok
                /\ IF ok
                   THEN /\ mem' = held
                        /\ stack' = SetTop([Top EXCEPT !.pc = "test", !.got = <<>>])
                        /\ UNCHANGED result
                   ELSE mem' = InstanceDestroy(held, v) /\ Return(v)
    /\ UNCHANGED driver

ForTest ==
    /\ At_("for", "test")
    /\ IF Child(2).kind = "none"
       THEN stack' = SetTop([Top EXCEPT !.pc = "iterate"])
       ELSE Evaluate([Top EXCEPT !.pc = "condition"], Child(2), Chain)
    /\ UNCHANGED <<driver, variables, mem, failed, failures, result>>

ForCondition ==
    /\ At_("for", "condition")
    /\ ~failed
    /\ mem' = RuntimeDestroy(mem, Got(1))
    /\ \E g \in Garbage :
        stack' = SetTop(IF AsInteger(At(mem, Got(1)), g) # 0
                        THEN [Top EXCEPT !.pc = "iterate", !.got = <<>>]
                        ELSE [Top EXCEPT !.pc = "leave", !.got = <<>>,
                                         !.i = RootStart])
    /\ UNCHANGED <<driver, variables, failed, failures, result>>

ForStep ==
    /\ At_("for", "iterate")
    /\ IF Child(3).kind = "none"
       THEN Evaluate([Top EXCEPT !.pc = "body"], Child(4), Chain)
       ELSE Evaluate([Top EXCEPT !.pc = "step"], Child(3), Chain)
    /\ UNCHANGED <<driver, variables, mem, failed, failures, result>>

\* The result of the step is destroyed whether there is one or not.
ForBody ==
    /\ At_("for", "step")
    /\ ~failed
    /\ mem' = RuntimeDestroy(mem, Got(1))
    /\ Evaluate([Top EXCEPT !.pc = "body", !.got = <<>>], Child(4), Chain)
    /\ UNCHANGED <<driver, variables, failed, failures, result>>

\* A result of the body is returned as it is, without destroying the root.
ForIterated ==
    /\ At_("for", "body")
    /\ ~failed
    /\ IF Got(1) # NULL
       THEN Return(Got(1))
       ELSE stack' = SetTop([Top EXCEPT !.pc = "test", !.got = <<>>]) /\ UNCHANGED result
    /\ UNCHANGED <<driver, variables, mem, failed, failures>>

ForEnd ==
    /\ At_("for", "leave")
    /\ Top.i = 0
    /\ Return(NULL)
    /\ UNCHANGED <<driver, variables, mem, failed, failures>>

(***************************************************************************)
(* Declarations and assignments.                                           *)
(***************************************************************************)
\* decl and assign, and return below, first evaluate their value.
StatementValue ==
    /\ \E kind \in {"decl", "assign", "return"} : At_(kind, "start")
    /\ Evaluate([Top EXCEPT !.pc = "value"], Child(1), Top.chain)
    /\ UNCHANGED <<driver, variables, mem, failed, failures, result>>

StatementFailed ==
    /\ \E kind \in {"decl", "assign", "return"} : At_(kind, "value")
    /\ failed
    /\ Return(IF Top.node.kind = "return" THEN Got(1) ELSE NULL)
    /\ UNCHANGED <<driver, variables, mem, failed, failures>>

Declare ==
    /\ At_("decl", "value")
    /\ ~failed
    /\ LET v == Got(1)
           held == AddReference(mem, v)
           root == IF Top.chain = <<>> THEN GlobalScope ELSE Top.chain[1]
       IN  IF v = NULL
           THEN mem' = held /\ UNCHANGED <<stack, variables, failed, failures, result>>
           ELSE \E ok \in BOOLEAN :
                /\ AddVariable(ok, Instance(root, Top.node.id, v))
                /\ mem' = IF ok THEN held ELSE InstanceDestroy(held, v)
                /\ Return(IF ok THEN NULL ELSE v)
                /\ failed' = ~ok
    /\ UNCHANGED driver

\* x = v: the variable drops its value and takes the new one.
Assign ==
    /\ At_("assign", "value")
    /\ ~failed
    /\ Top.node.op = "="
    /\ LET v == Got(1)
           held == AddReference(mem, v)
           i == Get(variables, Top.chain, Top.node.id)
       IN  IF i = 0 \/ v = NULL
           THEN mem' = Touch(held, NULL) /\ UNCHANGED <<stack, variables, result>>
           ELSE /\ mem' = RemoveReference(held, variables.insts[i].val)
                /\ variables' = [variables EXCEPT !.insts[i].val = v]
                /\ Return(v)
    /\ UNCHANGED <<driver, failed, failures>>

\* *p = v: the target is evaluated after the value.
AssignTarget ==
    /\ At_("assign", "value")
    /\ ~failed
    /\ Top.node.op = "*="
    /\ mem' = AddReference(mem, Got(1))
    /\ Evaluate([Top EXCEPT !.pc = "target"], Child(2), Top.chain)
    /\ UNCHANGED <<driver, variables, failed, failures, result>>

\* The target takes the value's content and the value's block is freed.
\* Mutated: the content is freed with it.
SetThrough_FreesContent(m, target, v, g) == InstanceDestroy(Set(m, target, v, g), v)
SetThrough(m, target, v, g) == Free(Set(m, target, v, g), v)

AssignThrough ==
    /\ At_("assign", "target")
    /\ LET v == Got(1)
           target == Got(2)
       IN  IF failed
           THEN mem' = RuntimeDestroy(mem, v) /\ Return(NULL)
           ELSE /\ \E g \in Garbage : mem' = SetThrough(mem, target, v, g)
                /\ Return(target)
    /\ UNCHANGED <<driver, variables, failed, failures>>

(***************************************************************************)
(* return, with the optional body that runs after the value is computed.   *)
(***************************************************************************)
ReturnValue ==
    /\ At_("return", "value")
    /\ ~failed
    /\ IF Len(Top.node.kids) = 1
       THEN Return(Got(1))
       ELSE /\ Evaluate([Top EXCEPT !.pc = "body"], Child(2), Top.chain)
            /\ UNCHANGED result
    /\ UNCHANGED <<driver, variables, mem, failed, failures>>

ReturnAfterBody ==
    /\ At_("return", "body")
    /\ mem' = IF failed THEN RuntimeDestroy(mem, Got(1))
              ELSE IF Got(2) # NULL THEN RuntimeDestroy(mem, Got(2)) ELSE mem
    /\ Return(Got(1))
    /\ UNCHANGED <<driver, variables, failed, failures>>

(***************************************************************************)
(* The driver.  cwr_intepreter_interpret registers the functions; a failed *)
(* one ends the loop.                                                      *)
(***************************************************************************)
Calm == mem.fault = "none"

Register ==
    /\ phase = "interpret" /\ Calm
    /\ next <= Len(program)
    /\ LET f == program[next]
       IN  IF f.op = "printf" /\ f.params = <<>>
           THEN /\ mem' = Touch(mem, NULL)          \* arguments[0] of none
                /\ UNCHANGED <<phase, next, functions, failed, failures>>
           ELSE \E ok \in BOOLEAN :
                /\ IF ok
                   THEN /\ functions' = Add(functions, Instance(GlobalScope, f.id, f))
                        /\ next' = next + 1
                        /\ UNCHANGED <<phase, failures>>
                   ELSE /\ MustGrow(functions)
                        /\ failures < MaxFailures
                        /\ failures' = failures + 1
                        /\ phase' = "destroy" /\ next' = 1
                        /\ UNCHANGED functions
                /\ failed' = ~ok
                /\ UNCHANGED mem
    /\ UNCHANGED <<program, variables, stack, result>>

Registered ==
    /\ phase = "interpret" /\ Calm
    /\ next > Len(program)
    /\ phase' = "entry"
    /\ UNCHANGED <<program, next, functions, variables, stack, mem, failed,
                   failures, result>>

\* cwr_interpreter_evaluate_entry_point: main is called without arguments.
EntryPoint ==
    /\ phase = "entry" /\ Calm
    /\ LET main == GetByName(functions, <<>>, "main")
       IN  IF main = 0
           THEN failed' = TRUE /\ UNCHANGED stack
           ELSE /\ \E b \in Body :
                    stack' = <<NewFrame(functions.insts[main].val, <<>>, b)>>
                /\ UNCHANGED failed
    /\ phase' = "run"
    /\ UNCHANGED <<program, next, functions, variables, mem, failures, result>>

\* The driver destroys what the entry point returned, unless it failed.
EntryReturned ==
    /\ phase = "run" /\ Calm
    /\ stack = <<>>
    /\ mem' = IF failed THEN mem ELSE InstanceDestroy(mem, result)
    /\ phase' = "destroy" /\ next' = 1
    /\ UNCHANGED <<program, functions, variables, stack, failed, failures, result>>

\* One iteration of cwr_scope_destroy for the variables; the functions own nothing.
ScopeDestroy ==
    /\ phase = "destroy" /\ Calm
    /\ IF next <= Len(variables.insts)
       THEN /\ mem' = InstanceDestroy(mem, variables.insts[next].val)
            /\ next' = next + 1
            /\ UNCHANGED phase
       ELSE phase' = "done" /\ UNCHANGED <<mem, next>>
    /\ UNCHANGED <<program, functions, variables, stack, failed, failures, result>>

(***************************************************************************)
(* The specification.                                                      *)
(***************************************************************************)
Init ==
    /\ phase = "interpret" /\ next = 1
    /\ program \in Program
    /\ functions = EmptyScope /\ variables = EmptyScope
    /\ stack = <<>> /\ result = NULL
    /\ mem = EmptyMemory
    /\ failed = FALSE /\ failures = 0

Expression ==
    \/ Literal \/ StringBlock \/ StringValue \/ Variable
    \/ UnaryStart \/ UnaryFailed \/ UnaryNew \/ UnaryFollow \/ ReferenceValue
    \/ ReferenceSlot \/ UnaryOther
    \/ LeftOperand \/ RightOperand \/ OperandFailed \/ Binary \/ ArrayElement

Call ==
    \/ CallStart \/ CallArgument \/ CallFailed \/ CallEnter \/ CallReturn
    \/ BindPrint \/ BindDrop \/ BindReturn
    \/ FunctionArgument \/ FunctionBody \/ FunctionLeave \/ RootDestroy
    \/ FunctionReturn \/ FunctionOutOfMemory

Statement ==
    \/ BodyStatement \/ BodyResult \/ BodyEnd
    \/ IfStart \/ IfCondition \/ IfReturn
    \/ ForInit \/ ForFailed \/ ForVariable \/ ForTest \/ ForCondition \/ ForStep
    \/ ForBody \/ ForIterated \/ ForEnd
    \/ StatementValue \/ StatementFailed \/ Declare \/ Assign \/ AssignTarget
    \/ AssignThrough \/ ReturnValue \/ ReturnAfterBody

Driver == Register \/ Registered \/ EntryPoint \/ EntryReturned \/ ScopeDestroy

\* The program has ended, or has done something undefined.
Stopped == (phase = "done" \/ mem.fault # "none") /\ UNCHANGED vars

Next == Expression \/ Call \/ Statement \/ Driver \/ Stopped

Spec == Init /\ [][Next]_vars

\* The evaluator is one sequential program: it always takes its next step.
FairSpec == Spec /\ WF_vars(Next)
=============================================================================
