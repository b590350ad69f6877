--------------------------- MODULE MCInterpreter ---------------------------
(***************************************************************************)
(* Small programs for the model checker, as the parser hands them to the   *)
(* interpreter: identifiers are the positions the parser gives variables   *)
(* (a for variable takes two), operators are right associative.            *)
(***************************************************************************)
EXTENDS CwrProperties

N(kind, op, id, num, type, params, kids) ==
    [kind |-> kind, op |-> op, id |-> id, num |-> num, type |-> type,
     params |-> params, kids |-> kids]

None == N("none", "", 0, 0, "void", <<>>, <<>>)
Int_(n) == N("literal", "", 0, n, "int", <<>>, <<>>)
Half == N("literal", "", 0, FloatUnit \div 2, "float", <<>>, <<>>)
Str(len) == N("string", "", 0, len + 1, "char", <<>>, <<>>)
Var(id) == N("var", "", id, 0, "void", <<>>, <<>>)
Un(op, e) == N("unary", op, 0, 0, "void", <<>>, <<e>>)
Bin(l, op, r) == N("binary", op, 0, 0, "void", <<>>, <<l, r>>)
El(e, i) == N("element", "", 0, 0, "void", <<>>, <<e, i>>)
Call_(id, args) == N("call", "", id, 0, "void", <<>>, args)
Decl(id, e) == N("decl", "", id, 0, "void", <<>>, <<e>>)
Asg(id, e) == N("assign", "=", id, 0, "void", <<>>, <<e, None>>)
AsgTo(target, e) == N("assign", "*=", 0, 0, "void", <<>>, <<e, target>>)
Stats(ss) == N("body", "", 0, 0, "void", <<>>, ss)
If(c, ss) == N("if", "", 0, 0, "void", <<>>, <<c, Stats(ss)>>)
For(id, init, c, step, ss) == N("for", "", id, 0, "void", <<>>, <<init, c, step, Stats(ss)>>)
Ret(e) == N("return", "", 0, 0, "void", <<>>, <<e>>)
RetThen(e, ss) == N("return", "", 0, 0, "void", <<>>, <<e, Stats(ss)>>)
Func(name, id, type, params, ss) == N("func", name, id, 0, type, params, <<Stats(ss)>>)
Main(id, ss) == Func("main", id, "void", <<>>, ss)
PrintString == Func("printf", 0, "pointer", <<0>>, <<>>)
PrintFloat == Func("printf", 0, "float", <<0>>, <<>>)

(***************************************************************************)
(* Programs without errors.                                                *)
(***************************************************************************)
\* int add(int a, int b) { return a + b; }
\* int main() { int x = add(1, 2); int y = x; x = add(x, y); return x + 0; }
Calls == <<
    Func("add", 0, "int", <<0, 1>>, <<Ret(Bin(Var(0), "+", Var(1)))>>),
    Main(1, <<Decl(0, Call_(0, <<Int_(1), Int_(2)>>)), Decl(1, Var(0)),
              Asg(0, Call_(0, <<Var(0), Var(1)>>)), Ret(Bin(Var(0), "+", Int_(0)))>>)>>

\* int fact(int n) { if (n < 2) { return 1; } int m = n - 1; return n * fact(m); }
\* int main() { return fact(3); }
Recursion == <<
    Func("fact", 0, "int", <<0>>,
        <<If(Bin(Var(0), "<", Int_(2)), <<Ret(Int_(1))>>),
          Decl(1, Bin(Var(0), "-", Int_(1))),
          Ret(Bin(Var(0), "*", Call_(0, <<Var(1)>>)))>>),
    Main(1, <<Ret(Call_(0, <<Int_(3)>>))>>)>>

\* int main() { int s = 0;
\*   for (int i = 0; i < 2; i = i + 1) { int d = i; s = s + d; } return s + 0; }
Loop == <<
    Main(0, <<Decl(0, Int_(0)),
              For(1, Int_(0), Bin(Var(1), "<", Int_(2)), Asg(1, Bin(Var(1), "+", Int_(1))),
                  <<Decl(3, Var(1)), Asg(0, Bin(Var(0), "+", Var(3)))>>),
              Ret(Bin(Var(0), "+", Int_(0)))>>)>>

\* int twice(int n) { n = n + n; return n + 0 : { int z = 3; n = z; } }
\* int main() { int s = 1;
\*   for (int i = twice(0); i < 2; i = i + 1) {
\*     for (int j = i; j < 2; j = j + 1) { s = twice(s); } }
\*   return s - 1; }
NestedLoops == <<
    Func("twice", 0, "int", <<0>>,
        <<Asg(0, Bin(Var(0), "+", Var(0))),
          RetThen(Bin(Var(0), "+", Int_(0)), <<Decl(1, Int_(3)), Asg(0, Var(1))>>)>>),
    Main(1, <<Decl(0, Int_(1)),
              For(1, Call_(0, <<Int_(0)>>), Bin(Var(1), "<", Int_(2)),
                  Asg(1, Bin(Var(1), "+", Int_(1))),
                  <<For(3, Var(1), Bin(Var(3), "<", Int_(2)),
                        Asg(3, Bin(Var(3), "+", Int_(1))),
                        <<Asg(0, Call_(0, <<Var(0)>>))>>)>>),
              Ret(Bin(Var(0), "-", Int_(1)))>>)>>

\* int printf(char *s);
\* int main() { char *s = "ab"; printf(s); printf("c"); *s = "xyz";
\*   char c = s[1]; char d = *s; char *t = &s; char e = *t; printf(t); t = s; return 0; }
Strings == <<
    PrintString,
    Main(1, <<Decl(0, Str(2)), Call_(0, <<Var(0)>>), Call_(0, <<Str(1)>>),
              AsgTo(Var(0), Str(3)), Decl(1, El(Var(0), Int_(1))),
              Decl(2, Un("*", Var(0))), Decl(3, Un("&", Var(0))),
              Decl(4, Un("*", Var(3))), Call_(0, <<Var(3)>>), Asg(3, Var(0)),
              Ret(Int_(0))>>)>>

\* int printf(float f); int bump(int a) { a = a + 1; }
\* int main() { int n = -2; float f = 0.5; bump(n); printf(f * 3);
\*   for (; n < 0; n = n + 1) { if (!n) { n = 4; } } return !f; }
Numbers == <<
    PrintFloat, Func("bump", 1, "int", <<0>>, <<Asg(0, Bin(Var(0), "+", Int_(1)))>>),
    Main(2, <<Decl(0, Un("-", Int_(2))), Decl(1, Half), Call_(1, <<Var(0)>>),
              Call_(0, <<Bin(Var(1), "*", Int_(3))>>),
              For(0, None, Bin(Var(0), "<", Int_(0)), Asg(0, Bin(Var(0), "+", Int_(1))),
                  <<If(Un("!", Var(0)), <<Asg(0, Int_(4))>>)>>),
              Ret(Un("!", Var(1)))>>)>>

SafePrograms == {Calls, Recursion, Loop, NestedLoops, Strings, Numbers}

(***************************************************************************)
(* Programs that end with an error.                                        *)
(***************************************************************************)
Crash == Bin(Int_(1), "/", Int_(0))

\* int f(int x) { int y = x; return 8 / y; }
\* int main() { int a = 4; int b = f(a - 4) + a; return b + 0; }
DivisionInCall == <<
    Func("f", 0, "int", <<0>>, <<Decl(1, Var(0)), Ret(Bin(Int_(8), "/", Var(1)))>>),
    Main(1, <<Decl(0, Int_(4)),
              Decl(1, Bin(Call_(0, <<Bin(Var(0), "-", Int_(4))>>), "+", Var(0))),
              Ret(Bin(Var(1), "+", Int_(0)))>>)>>

\* char pick(char *s, int i) { return s[i]; }
\* int main() { char *s = "a"; char c = pick(s, 1); char d = pick(s, i); return 0; }
Index(i) == <<
    Func("pick", 0, "pointer", <<0, 1>>, <<Ret(El(Var(0), Var(1)))>>),
    Main(1, <<Decl(0, Str(1)), Decl(1, Call_(0, <<Var(0), Int_(1)>>)),
              Decl(2, Call_(0, <<Var(0), i>>)), Ret(Int_(0))>>)>>

\* int add(int a, int b) { return a + b; }
\* int main() { int a = 1; int b = a; a = add(a + 1, a + -add(b, 1 / 0)); return 0; }
ErrorInArgument == <<
    Func("add", 0, "int", <<0, 1>>, <<Ret(Bin(Var(0), "+", Var(1)))>>),
    Main(1, <<Decl(0, Int_(1)), Decl(1, Var(0)),
              Asg(0, Call_(0, <<Bin(Var(0), "+", Int_(1)),
                                Bin(Var(0), "+", Un("-", Call_(0, <<Var(1), Crash>>)))>>)),
              Ret(Int_(0))>>)>>

\* int f(int a) { return a + 1 : { int z = a; if (1 / 0) { a = 2; } } }
\* int main() { char *s = "a"; if (f(1)) { s = "b"; } return 0; }
ErrorInReturnBody == <<
    Func("f", 0, "int", <<0>>,
        <<RetThen(Bin(Var(0), "+", Int_(1)),
                  <<Decl(1, Var(0)), If(Crash, <<Asg(0, Int_(2))>>)>>)>>),
    Main(1, <<Decl(0, Str(1)), If(Call_(0, <<Int_(1)>>), <<Asg(0, Str(1))>>),
              Ret(Int_(0))>>)>>

\* int main() { char *s = "a"; char *t = s; *s[1 / 0] = s[0]; return 0; }
ErrorInTarget == <<
    Main(0, <<Decl(0, Str(1)), Decl(1, Var(0)),
              AsgTo(El(Var(0), Crash), El(Var(0), Int_(0))), Ret(Int_(0))>>)>>

\* int f() { return 0; }
NoEntryPoint == <<Func("f", 0, "void", <<>>, <<Ret(Int_(0))>>)>>

FailingPrograms ==
    {DivisionInCall, Index(Int_(5)), Index(Un("-", Int_(1))), ErrorInArgument,
     ErrorInReturnBody, ErrorInTarget, NoEntryPoint}

(***************************************************************************)
(* Programs the parser accepts and the interpreter does not survive.       *)
(***************************************************************************)
\* int main() { int a = 1; return a; }
ReturnLocal == <<Main(0, <<Decl(0, Int_(1)), Ret(Var(0))>>)>>

\* int main() { int a = 5; for (int i = 0; i < 2; i = i + 1) { a = a / i; } return 0; }
ErrorInLoop == <<
    Main(0, <<Decl(0, Int_(5)),
              For(1, Int_(0), Bin(Var(1), "<", Int_(2)), Asg(1, Bin(Var(1), "+", Int_(1))),
                  <<Asg(0, Bin(Var(0), "/", Bin(Var(1), "-", Int_(1))))>>),
              Ret(Int_(0))>>)>>

\* int find(int n) { for (int i = 0; i < n; i = i + 1) { if (i == 2) { return i + 0; } } }
\* int main() { int a = find(3); int b = find(3); return a - b; }
ReturnInLoop == <<
    Func("find", 0, "int", <<0>>,
        <<For(1, Int_(0), Bin(Var(1), "<", Var(0)), Asg(1, Bin(Var(1), "+", Int_(1))),
              <<If(Bin(Var(1), "==", Int_(2)), <<Ret(Bin(Var(1), "+", Int_(0)))>>)>>)>>),
    Main(1, <<Decl(0, Call_(0, <<Int_(3)>>)), Decl(1, Call_(0, <<Int_(3)>>)),
              Ret(Bin(Var(0), "-", Var(1)))>>)>>

\* int main() { char *s = "a"; char *t = &s; *t = s; return 0; }
SetPointer == <<
    Main(0, <<Decl(0, Str(1)), Decl(1, Un("&", Var(0))), AsgTo(Var(1), Var(0)),
              Ret(Int_(0))>>)>>

\* int main() { int a = +1; return 0; }
UnaryPlus == <<Main(0, <<Decl(0, Un("+", Int_(1))), Ret(Int_(0))>>)>>

\* int main() { for (int i = 0; i < 1; i = i + 1) { } return i + 0; }
LoopVariableAfter == <<
    Main(0, <<For(0, Int_(0), Bin(Var(0), "<", Int_(1)),
                  Asg(0, Bin(Var(0), "+", Int_(1))), <<>>),
              Ret(Bin(Var(0), "+", Int_(0)))>>)>>

\* void printf(); int main() { return 0; }
PrintNothing == <<Func("printf", 0, "void", <<>>, <<>>), Main(1, <<Ret(Int_(0))>>)>>

HostilePrograms == {ReturnLocal, ErrorInLoop, ReturnInLoop, SetPointer, UnaryPlus,
                    LoopVariableAfter, PrintNothing}

ReturnLocalOnly == {ReturnLocal}
ErrorInLoopOnly == {ErrorInLoop}
SetPointerOnly == {SetPointer}
AllPrograms == SafePrograms \cup FailingPrograms \cup HostilePrograms

RECURSIVE Nodes(_)
Nodes(n) == {n} \cup UNION {Nodes(n.kids[i]) : i \in DOMAIN n.kids}
NodesOf(programs) == UNION {UNION {Nodes(p[i]) : i \in DOMAIN p} : p \in programs}

MCNode == NodesOf(AllPrograms)
MCName == {n.op : n \in MCNode}

\* The nodes with no return in or below them.
RECURSIVE Returns(_)
Returns(n) == n.kind = "return" \/ \E i \in DOMAIN n.kids : Returns(n.kids[i])
QuietOf(nodes) == {n \in nodes : ~Returns(n)}
=============================================================================
