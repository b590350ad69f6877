--------------------------- MODULE MacroExpansion ---------------------------
(***************************************************************************)
(* What the preprocessor promises: a rewriting from left to right.  `out'  *)
(* is what it has passed, `rest' what it has not; the first definition of  *)
(* a name holds; a body or a module takes the place of its name and is     *)
(* looked at again; a string is appended to the string before it.  An      *)
(* error stops it and leaves both parts as they are.                       *)
(***************************************************************************)
EXTENDS Integers, Sequences

CONSTANTS Source, Module

VARIABLES out, rest, defs, seen, stopped

vars == <<out, rest, defs, seen, stopped>>

Going == ~stopped /\ rest # <<>>
First == Head(rest)
After(n) == SubSeq(rest, n + 1, Len(rest))

IsString(s, i) == i \in DOMAIN s /\ s[i].type = "string"
IsMacro == First.type = "word" /\ First.text \in DOMAIN defs /\ defs[First.text] # <<>>
IsDirective(name) == First.type = "prefix" /\ Len(rest) > 1 /\ rest[2].text = <<name>>

Emit ==
    /\ Going
    /\ First.type # "prefix" /\ ~IsMacro /\ ~(IsString(rest, 1) /\ IsString(out, Len(out)))
    /\ out' = Append(out, First) /\ rest' = After(1)
    /\ UNCHANGED <<defs, seen, stopped>>

Substitute ==
    /\ Going /\ IsMacro
    /\ rest' = defs[First.text] \o After(1)
    /\ UNCHANGED <<out, defs, seen, stopped>>

Concatenate ==
    /\ Going
    /\ IsString(rest, 1) /\ IsString(out, Len(out))
    /\ out' = [out EXCEPT ![Len(out)].text = @ \o First.text]
    /\ rest' = After(1)
    /\ UNCHANGED <<defs, seen, stopped>>

\* A definition is a name and the rest of its line.
Define ==
    /\ Going /\ IsDirective("define") /\ rest[3].type = "word"
    /\ \E n \in 4 .. Len(rest) :
        /\ rest[n].type = "new_line"
        /\ \A i \in 4 .. n - 1 : rest[i].type # "new_line"
        /\ defs' = [name \in DOMAIN defs \cup {rest[3].text} |->
                        IF name \in DOMAIN defs THEN defs[name] ELSE SubSeq(rest, 4, n - 1)]
        /\ rest' = After(n)
    /\ UNCHANGED <<out, seen, stopped>>

\* A module is included once.
Include ==
    /\ Going /\ IsDirective("include")
    /\ rest[3].type = "less" /\ rest[4].type = "word" /\ rest[5].type = "greater"
    /\ \E m \in DOMAIN Module :
        /\ rest[4].text = <<m>>
        /\ seen' = seen \cup {m}
        /\ rest' = (IF m \in seen THEN <<>> ELSE Module[m]) \o After(5)
    /\ UNCHANGED <<out, defs, stopped>>

\* Other directives pass.
PassDirective ==
    /\ Going /\ First.type = "prefix"
    /\ ~IsDirective("define") /\ ~IsDirective("include")
    /\ out' = out \o SubSeq(rest, 1, 2) /\ rest' = After(2)
    /\ UNCHANGED <<defs, seen, stopped>>

Fail ==
    /\ ~stopped /\ stopped'
    /\ UNCHANGED <<out, rest, defs>>
    /\ seen' \in SUBSET DOMAIN Module /\ seen \subseteq seen'

Init == /\ out = <<>> /\ rest \in Source
        /\ defs = <<>> /\ seen = {} /\ stopped = FALSE

Next == Emit \/ Substitute \/ Concatenate \/ Define \/ Include \/ PassDirective \/ Fail

Spec == Init /\ [][Next]_vars
=============================================================================
