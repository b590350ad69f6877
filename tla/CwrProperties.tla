--------------------------- MODULE CwrProperties ---------------------------
(***************************************************************************)
(* What the interpreter should do, over the state of CwrInterpreter.       *)
(***************************************************************************)
EXTENDS CwrInterpreter, Selection

Evaluating == phase = "run" /\ ~failed /\ mem.fault = "none"

(***************************************************************************)
(* Types.                                                                  *)
(***************************************************************************)
VariableInstance == [root : Body \cup {GlobalScope}, id : Id, val : Addr]
FunctionInstance == [root : {GlobalScope}, id : Id,
                     val : {n \in Node : n.kind = "func"}]

\* The types of the variables, and that a counter indexes what it should.
TypeOK ==
    /\ phase \in Phase
    /\ program \in Seq({n \in Node : n.kind = "func"})
    /\ next \in Nat \ {0}
    /\ functions \in [insts : Seq(FunctionInstance), size : Nat]
    /\ variables \in [insts : Seq(VariableInstance), size : Nat]
    /\ stack \in Seq(Frame)
    /\ mem \in Memory
    /\ failed \in BOOLEAN
    /\ failures \in 0 .. MaxFailures
    /\ result \in Pointers

(***************************************************************************)
(* Memory.                                                                 *)
(***************************************************************************)
\* The results a frame still holds: a bound printf has destroyed the first i.
Held(f) == {f.got[k] : k \in IF f.pc = "drop" THEN f.i + 1 .. Len(f.got)
                              ELSE DOMAIN f.got} \ {NULL}

HeldByFrames == UNION {Held(stack[j]) \cup ({stack[j].blk} \ {NULL}) : j \in DOMAIN stack}

\* Nothing undefined happens: no access through a null or a freed pointer and
\* no block freed twice, up to and including the driver's destruction of the
\* returned value (tests/main.c:100) and of the scopes (tests/main.c:104).
NoFault == mem.fault = "none"

\* No variable, and no intermediate result an activation still holds, is a
\* freed block: in particular what a function returns outlives the
\* destruction of its variables, and the left operand outlives the right one.
NoDangling ==
    Evaluating =>
        /\ \A i \in DOMAIN variables.insts : Live(mem, variables.insts[i].val)
        /\ \A j \in DOMAIN stack : \A a \in Held(stack[j]) : Live(mem, a)

\* The assignments through a pointer that hold a reference to their value
\* while the target is evaluated.
Pinned(a) == {j \in DOMAIN stack : /\ stack[j].node.kind = "assign"
                                   /\ stack[j].pc = "target"
                                   /\ stack[j].got[1] = a}

\* references_count is the number of holders of a value, through calls,
\* assignments, aliases and the destruction of roots.
RefCountExact ==
    Evaluating =>
        \A a \in Addr : Live(mem, a) =>
            mem.cells[a].refs =
                Cardinality({i \in DOMAIN variables.insts : variables.insts[i].val = a})
                + Cardinality(Pinned(a))

\* The block an array value frees with itself.
Owns(c) == c.type \in {"array", "pointer"} /\ (c.isref \/ c.cap > 0)

\* Every array value has a live block that no other value frees.
SoleOwner ==
    Evaluating =>
        \A a \in Addr : Live(mem, a) /\ Owns(mem.cells[a]) /\ mem.cells[a].buf # NULL =>
            /\ Live(mem, mem.cells[a].buf)
            /\ \A b \in Addr \ {a} :
                Live(mem, b) /\ Owns(mem.cells[b]) => mem.cells[b].buf # mem.cells[a].buf

\* The roots of the memory: the variables still to be destroyed, the frames,
\* the value on its way to the driver.
Roots ==
    {variables.insts[i].val : i \in {k \in DOMAIN variables.insts :
                                        phase \in {"destroy", "done"} => k >= next}}
    \cup HeldByFrames
    \cup (IF phase = "run" /\ stack = <<>> THEN {result} ELSE {})

Reachable == Roots \cup {mem.cells[a].buf : a \in {x \in Roots \cap Addr : Owns(mem.cells[x])}}

\* No block is lost: while a program runs without an error every allocated
\* block is owned by somebody; torn down, it has left none.
NoLeak ==
    ~failed /\ mem.fault = "none" =>
        \A a \in Addr : Live(mem, a) => a \in Reachable

(***************************************************************************)
(* Scopes.                                                                 *)
(***************************************************************************)
\* Where on the call stack the activations are that own a body.
OwnerIndex(b) == {k \in DOMAIN stack : stack[k].own = b /\ b # GlobalScope}

\* The flat array is the stack of the scopes laid end to end: an entry belongs
\* to a running body, and never lies below an entry of an outer body.
\* cwr_scope_root_destroy depends on it: it drops the top entry for each match.
ScopesNested ==
    Evaluating =>
        /\ \A i \in DOMAIN variables.insts : OwnerIndex(variables.insts[i].root) # {}
        /\ \A i, j \in DOMAIN variables.insts : i <= j =>
            \E k \in OwnerIndex(variables.insts[i].root),
               l \in OwnerIndex(variables.insts[j].root) : k <= l

\* An activation with a scope.  A body that is being destroyed is already closed.
IsOpen(f) == f.own # GlobalScope /\ f.pc \notin {"leave", "unwind"}
OpenFrames(s) == {k \in DOMAIN s : IsOpen(s[k])}

\* The scopes of the activations s and the variables vs, as LexicalScopes sees
\* them: what is bound under a body, outermost body first.
Binding(v) == [id |-> v.id, val |-> v.val]
BoundIn(own, vs) ==
    Selected([i \in DOMAIN vs |-> Binding(vs[i])],
             {i \in DOMAIN vs : vs[i].root = own})[Len(vs)]

ScopeOf(f, vs) == [sees |-> f.node.kind = "for", vars |-> BoundIn(f.own, vs)]
ScopesOf(s, vs) ==
    Selected([k \in DOMAIN s |-> ScopeOf(s[k], vs)], OpenFrames(s))[Len(s)]

Scopes == ScopesOf(stack, variables.insts)

Lexical == INSTANCE LexicalScopes WITH scopes <- Scopes, Value <- Addr

\* The flat array, its lookups and the destruction of roots implement a stack
\* of lexical scopes.
ImplementsLexicalScopes == Lexical!Spec

(***************************************************************************)
(* Errors and progress.                                                    *)
(***************************************************************************)
\* A frame that waits for a callee, or has just got its result.
Waiting(f) == /\ f.pc \notin {"start", "slot", "test", "iterate", "drop", "leave", "unwind"}
              /\ f.node.kind # "string"

\* Every caller waits, nothing fails before the entry point runs, and after an
\* error the running activation is one that has a result to look at or a root
\* to destroy: wherever a callee can fail, its caller is at a check of is_failed.
ErrorSeen ==
    /\ \A j \in DOMAIN stack : j < Len(stack) => Waiting(stack[j])
    /\ phase \in {"interpret", "entry"} => ~failed /\ stack = <<>>
    /\ failed /\ stack # <<>> => Waiting(Top) \/ Top.pc \in {"leave", "unwind"}

\* After an error the evaluator only returns: it calls nothing, declares no
\* variable, and allocates nothing but the void value of an aborted call.
FailStop ==
    [][failed =>
        /\ Len(stack') <= Len(stack)
        /\ Len(variables'.insts) <= Len(variables.insts)
        /\ \A a \in Addr : ~Live(mem, a) /\ Live(mem', a) =>
                mem'.cells[a].type = "void"]_vars

\* A program stopped by an error has destroyed its variables on the way out:
\* the driver finds none left (programs that raise no error in a loop).
ErrorUnwinds == failed /\ phase = "destroy" => variables.insts = <<>>

\* What the entry point returned is there for the driver to destroy
\* (tests/main.c:100).
EntryValueLive ==
    phase = "run" /\ stack = <<>> /\ ~failed /\ mem.fault = "none" => Live(mem, result)

\* The driver destroys the scopes after an error too (tests/main.c:104).
TeardownSafe == phase = "destroy" => mem.fault = "none"

\* "In 'identifier' we already have data from 'value', so we need free the
\* block of memory" (source/cwr_interpreter.c:300): after *p = v, what p
\* evaluated to holds the content that v had.
DataMoved ==
    [][At_("assign", "target") /\ ~failed =>
        LET value == At(mem, Got(1))
            target == At(mem', Got(2))
        IN  /\ target.num = value.num /\ target.elem = value.elem
            /\ target.cap = value.cap /\ target.buf = value.buf]_vars

\* The programs that end do end, torn down.
Terminates == <>(phase = "done")
=============================================================================
