------------------------------ MODULE MCPlain -------------------------------
(***************************************************************************)
(* Programs without references, stores through a pointer, unary plus and   *)
(* returns of a variable, most of which end with an error, and the         *)
(* assumptions of the theorems about memory, which they meet.              *)
(***************************************************************************)
EXTENDS MCInterpreter, CwrPlain

\* int f(int a) { int b = a; a = 3; if (b < 2) { int c = a; return a + b; } b = a; return -b; }
\* int main() { int x = f(1); int y = x + f(x); f(f(y)); return f(x); }
CallsInCalls == <<
    Func("f", 0, "int", <<0>>,
        <<Decl(1, Var(0)), Asg(0, Int_(3)),
          If(Bin(Var(1), "<", Int_(2)), <<Decl(2, Var(0)), Ret(Bin(Var(0), "+", Var(1)))>>),
          Asg(1, Var(0)), Ret(Un("-", Var(1)))>>),
    Main(1, <<Decl(0, Call_(0, <<Int_(1)>>)),
              Decl(1, Bin(Var(0), "+", Call_(0, <<Var(0)>>))),
              Call_(0, <<Call_(0, <<Var(1)>>)>>), Ret(Call_(0, <<Var(0)>>))>>)>>

\* int printf(char *s);
\* char *g(char *s, char *t) { char *u = s; s = t; return "ab" : { t = u; int i = 1; if (1) { i = 2; } } }
\* int main() { char *s = "a"; char *t = g(s, s); g(0, t);
\*   for (int i = 0; i < 2; i = i + 1) { char *u = "a"; t = u; for (; i < 0; i = 3) { } g(u, s[0]); }
\*   return t[0]; }
StringsInLoops == <<
    PrintString,
    Func("g", 1, "pointer", <<0, 1>>,
        <<Decl(2, Var(0)), Asg(0, Var(1)),
          RetThen(Str(2), <<Asg(1, Var(2)), Decl(3, Int_(1)),
                            If(Int_(1), <<Asg(3, Int_(2))>>)>>)>>),
    Main(2, <<Decl(0, Str(1)), Decl(1, Call_(1, <<Var(0), Var(0)>>)),
              Call_(1, <<Int_(0), Var(1)>>),
              For(2, Int_(0), Bin(Var(2), "<", Int_(2)), Asg(2, Bin(Var(2), "+", Int_(1))),
                  <<Decl(4, Str(1)), Asg(1, Var(4)),
                    For(0, None, Bin(Var(2), "<", Int_(0)), Asg(2, Int_(3)), <<>>),
                    Call_(1, <<Var(4), El(Var(0), Int_(0))>>)>>),
              Ret(El(Var(1), Int_(0)))>>)>>

\* int printf(char *s);
\* int main() { char *s = "ab"; printf(s); printf("c"); char c = s[1]; char d = *s;
\*   char *t = s; printf(t); t = s; s = "a"; return 0; }
Aliases == <<
    PrintString,
    Main(1, <<Decl(0, Str(2)), Call_(0, <<Var(0)>>), Call_(0, <<Str(1)>>),
              Decl(1, El(Var(0), Int_(1))), Decl(2, Un("*", Var(0))), Decl(3, Var(0)),
              Call_(0, <<Var(3)>>), Asg(3, Var(0)), Asg(0, Str(1)), Ret(Int_(0))>>)>>

PlainPrograms == (FailingPrograms \ {ErrorInTarget})
                     \cup {CallsInCalls, StringsInLoops, Aliases, NestedLoops}

PlainNodes == NodesOf(PlainPrograms)
PlainName == {n.op : n \in PlainNodes}
PlainQuiet == QuietOf(PlainNodes)

ASSUME PlainAssumption == Plain(PlainQuiet) /\ Terminated
=============================================================================
