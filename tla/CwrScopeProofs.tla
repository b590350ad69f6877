--------------------------- MODULE CwrScopeProofs ---------------------------
(***************************************************************************)
(* The flat array of variables is the stack of the running bodies' scopes, *)
(* for every plain program.  Scoped is inductive relative to TypeOK and    *)
(* ErrorSeen: the call stack is what the tree of the program allows, and   *)
(* the variables lie in the order of the bodies that own them.  The last   *)
(* part shows that the array then implements a stack of lexical scopes.    *)
(***************************************************************************)
EXTENDS CwrTypeProofs, CwrPlain, SelectionProofs

(***************************************************************************)
(* The three ways a step changes the call stack.                           *)
(***************************************************************************)
\* The same activation, at another point.
Same(f, g) == f.node = g.node /\ f.chain = g.chain /\ f.own = g.own

LEMMA SetTopShape ==
    ASSUME TypeOK, stack # <<>>, NEW f
    PROVE  /\ DOMAIN SetTop(f) = 1 .. Len(stack) /\ Len(SetTop(f)) = Len(stack)
           /\ \A j \in 1 .. Len(stack) : SetTop(f)[j] = IF j = Len(stack) THEN f ELSE stack[j]
<1>1. stack \in Seq(Frame)
  BY DEF TypeOK
<1> QED
  BY <1>1 DEF SetTop

LEMMA PushShape ==
    ASSUME TypeOK, stack # <<>>, NEW f, NEW g, NEW s, s = Append(SetTop(f), g)
    PROVE  /\ DOMAIN s = 1 .. Len(stack) + 1 /\ Len(s) = Len(stack) + 1
           /\ \A j \in 1 .. Len(stack) : s[j] = IF j = Len(stack) THEN f ELSE stack[j]
           /\ s[Len(stack) + 1] = g
<1> DEFINE S == Frame \cup {f, g}
<1>1. stack \in Seq(S) /\ f \in S /\ g \in S /\ Len(stack) \in Nat
  BY DEF TypeOK
<1>2. SetTop(f) \in Seq(S) /\ Len(SetTop(f)) = Len(stack)
      /\ \A j \in 1 .. Len(stack) : SetTop(f)[j] = IF j = Len(stack) THEN f ELSE stack[j]
  BY <1>1 DEF SetTop
<1> HIDE DEF S
<1> QED
  BY <1>1, <1>2

\* A frame with one more result.
Given(f, v) == [f EXCEPT !.got = Append(@, v)]

LEMMA PopShape ==
    ASSUME NEW s \in Seq(Frame), Len(s) # 0, Len(s) # 1, NEW v, NEW p, p = Popped(s, v)
    PROVE  /\ Len(p) = Len(s) - 1 /\ DOMAIN p = 1 .. Len(s) - 1
           /\ \A j \in 1 .. Len(s) - 1 :
                p[j] = IF j = Len(s) - 1 THEN Given(s[j], v) ELSE s[j]
<1>1. PICK k \in Nat : k = Len(s)
  OBVIOUS
<1>2. k > 1
  BY <1>1
<1> DEFINE n == k - 1
           t == SubSeq(s, 1, n)
<1>3. n \in Nat /\ n >= 1 /\ n <= k
  BY <1>2
<1>4. t \in Seq(Frame) /\ Len(t) = n /\ \A j \in 1 .. n : t[j] = s[j]
  BY <1>1, <1>3
<1>5. SubSeq(s, 1, Len(s) - 1) = t /\ Len(s) - 1 = n
  BY <1>1
<1> HIDE DEF n, t
<1> DEFINE f == [t[n] EXCEPT !.got = Append(@, v)]
<1>6. p = [t EXCEPT ![n] = f]
  BY <1>5 DEF Popped
<1>7. t[n] = s[n]
  BY <1>3, <1>4
<1>8. f = [s[n] EXCEPT !.got = Append(@, v)]
  BY <1>7
<1> HIDE DEF f
<1>9. /\ Len(p) = n /\ DOMAIN p = 1 .. n
      /\ \A j \in 1 .. n : p[j] = IF j = n THEN f ELSE t[j]
  BY <1>3, <1>4, <1>6
<1>10. \A j \in 1 .. n : p[j] = IF j = n THEN Given(s[j], v) ELSE s[j]
  BY <1>4, <1>8, <1>9 DEF Given
<1> QED
  BY <1>5, <1>9, <1>10

\* The stack after a return into the frame below.
LEMMA PopNext ==
    ASSUME stack \in Seq(Frame), Len(stack) # 0, Len(stack) # 1, NEW v, stack' = Popped(stack, v)
    PROVE  /\ Len(stack') = Len(stack) - 1 /\ DOMAIN stack' = 1 .. Len(stack) - 1
           /\ \A j \in 1 .. Len(stack) - 1 :
                stack'[j] = IF j = Len(stack) - 1 THEN Given(stack[j], v) ELSE stack[j]
BY PopShape

\* What depends on the nodes, the chains and the bodies of the frames only.
LEMMA SameStacked ==
    ASSUME NEW n \in Nat, n <= Len(stack), stack \in Seq(Frame),
           Len(stack') = n, DOMAIN stack' = 1 .. n,
           \A j \in 1 .. n : Same(stack'[j], stack[j]),
           Distinct, Enclosed, Innermost, Shielded
    PROVE  Distinct' /\ Enclosed' /\ Innermost' /\ Shielded'
<1>1. DOMAIN stack' = 1 .. n /\ \A j \in 1 .. n : j \in DOMAIN stack
  OBVIOUS
<1>2. \A g, h \in 1 .. n : NoEntry(g, h)' <=> NoEntry(g, h)
  BY DEF NoEntry, Same
<1>3. Distinct'
  BY <1>1 DEF Distinct, Same
<1>4. Enclosed'
  <2> SUFFICES ASSUME NEW m \in 1 .. n, NEW c \in DOMAIN stack'[m].chain
               PROVE  \E g \in 1 .. n : /\ g < m /\ stack'[g].own = stack'[m].chain[c]
                                        /\ NoEntry(g, m)'
    BY <1>1 DEF Enclosed
  <2>1. c \in DOMAIN stack[m].chain /\ m \in DOMAIN stack
    BY <1>1 DEF Same
  <2>2. PICK g \in DOMAIN stack : g < m /\ stack[g].own = stack[m].chain[c] /\ NoEntry(g, m)
    BY <2>1 DEF Enclosed
  <2>3. g \in 1 .. n
    BY <2>2
  <2> QED
    BY <1>2, <2>2, <2>3 DEF Same
<1>5. Innermost'
  <2> SUFFICES ASSUME NEW m \in 1 .. n,
                      stack'[m].node.kind \notin Expressions \cup {"func", "none"}
               PROVE  \E g \in 1 .. n : /\ g < m /\ stack'[g].own = stack'[m].chain[1]
                                        /\ \A h \in g + 1 .. m - 1 : stack'[h].own = GlobalScope
    BY <1>1 DEF Innermost
  <2>1. stack[m].node.kind \notin Expressions \cup {"func", "none"} /\ m \in DOMAIN stack
    BY <1>1 DEF Same
  <2>2. PICK g \in DOMAIN stack : /\ g < m /\ stack[g].own = stack[m].chain[1]
                                  /\ \A h \in g + 1 .. m - 1 : stack[h].own = GlobalScope
    BY <2>1 DEF Innermost
  <2>3. g \in 1 .. n /\ \A h \in g + 1 .. m - 1 : h \in 1 .. n
    BY <2>2
  <2> QED
    BY <2>2, <2>3 DEF Same
<1>6. Shielded'
  BY <1>1, <1>2 DEF Shielded, Same
<1> QED
  BY <1>3, <1>4, <1>5, <1>6

\* A step within the running activation.
LEMMA MoveStacked ==
    ASSUME TypeOK, stack # <<>>, NEW quiet, Stacked(quiet), NEW f, Same(f, Top),
           Ready(f, quiet), stack' = SetTop(f)
    PROVE  Stacked(quiet)'
<1>1. PICK n \in Nat : n = Len(stack) /\ n >= 1
  BY DEF TypeOK
<1>2. stack \in Seq(Frame) /\ Top = stack[n]
  BY <1>1 DEF TypeOK, Top
<1>3. /\ DOMAIN stack' = 1 .. n /\ Len(stack') = n
      /\ \A j \in 1 .. n : stack'[j] = IF j = n THEN f ELSE stack[j]
  BY <1>1, SetTopShape
<1>4. \A j \in 1 .. n : Same(stack'[j], stack[j])
  BY <1>2, <1>3 DEF Same
<1>5. Distinct' /\ Enclosed' /\ Innermost' /\ Shielded'
  BY <1>1, <1>2, <1>3, <1>4, SameStacked DEF Stacked
<1>6. Frames(quiet)'
  <2>1. \A m \in 1 .. n : OwnOK(stack'[m]) /\ ChainOK(stack'[m])
    BY <1>1, <1>2, <1>4 DEF Stacked, Frames, OwnOK, ChainOK, Same
  <2>2. \A m \in 1 .. n : m + 1 \in 1 .. n => WaitsFor(stack'[m], stack'[m + 1])
    <3> SUFFICES ASSUME NEW m \in 1 .. n, m + 1 \in 1 .. n
                 PROVE  WaitsFor(stack'[m], stack'[m + 1])
      OBVIOUS
    <3>1. m \in DOMAIN stack /\ m + 1 \in DOMAIN stack /\ m # n
      BY <1>1, <1>2
    <3>2. WaitsFor(stack[m], stack[m + 1])
      BY <3>1 DEF Stacked, Frames
    <3>3. stack'[m] = stack[m] /\ Same(stack'[m + 1], stack[m + 1])
      BY <1>3, <1>4, <3>1
    <3> QED
      BY <3>2, <3>3 DEF WaitsFor, Same
  <2>3. stack'[1].node.kind = "func" /\ stack'[n] = f
    BY <1>1, <1>2, <1>3, <1>4 DEF Stacked, Frames, Same
  <2> QED
    BY <1>1, <1>3, <2>1, <2>2, <2>3 DEF Frames, Top
<1> QED
  BY <1>5, <1>6 DEF Stacked

\* A call: the running frame waits at f for the new frame g.
Called(f, g) ==
    /\ Same(f, Top) /\ WaitsFor(f, g)
    /\ f.node.kind = "func" => f.own # GlobalScope
    /\ g.pc = "start" /\ g.node \in Node /\ OwnOK(g)
    /\ g.node.kind # "func" => g.got = <<>>
    /\ g.own \in (Body \ OwnedBodies) \cup {GlobalScope}

\* What a frame waits for is a node of a kind that fits.
LEMMA ChildKinds ==
    ASSUME NEW quiet, Tame(quiet), NEW f, f.node \in Node, NEW g, g.node \in Node, WaitsFor(f, g)
    PROVE  /\ f.node.kind \in Operators =>
                g.node.kind \in Expressions \/ (g.node.kind = "func" /\ g.chain = <<>>)
           /\ f.node.kind \notin {"literal", "string", "var", "none"}
           /\ f.pc = "variable" => g.node.kind \in Expressions \cup {"none"}
           /\ g.node.kind = "func" <=> InAt(f, {"call"}, "await")
           /\ g.node.kind = "func" => g.chain = <<>>
           /\ g.node.kind # "func" => g.chain = Seen(f)
<1>1. Parsed(f.node)
  BY DEF Tame
<1>2. /\ f.node.kind \in {"unary", "decl", "func"} => Len(f.node.kids) = 1
      /\ f.node.kind \in {"binary", "element", "assign", "if"} => Len(f.node.kids) = 2
      /\ f.node.kind = "return" => Len(f.node.kids) \in {1, 2}
      /\ f.node.kind = "for" => Len(f.node.kids) = 4
      /\ f.node.kind \in {"none", "literal", "string", "var"} => f.node.kids = <<>>
      /\ f.node.kids \in Seq(Node) /\ f.node.kind \in Kind
  BY NodeAssumption, ShapeAssumption
<1>3. CASE InAt(f, {"call"}, "await") /\ g.node.kind = "func" /\ g.chain = <<>>
  BY <1>3 DEF InAt, Operators
<1>4. ASSUME NEW k \in DOMAIN f.node.kids, Waits(f, k), g.node = f.node.kids[k],
             g.chain = Seen(f)
      PROVE  /\ f.node.kind \in Operators => g.node.kind \in Expressions
             /\ f.node.kind \notin {"literal", "string", "var", "none"}
             /\ f.pc = "variable" => g.node.kind \in Expressions \cup {"none"}
             /\ g.node.kind # "func" /\ ~InAt(f, {"call"}, "await")
  <2>1. f.node.kind \in Operators => g.node.kind \in Expressions
    BY <1>1, <1>4 DEF Parsed
  <2>2. f.node.kind \notin {"literal", "string", "var", "none"}
    BY <1>2, <1>4
  <2>3. f.pc = "variable" => g.node.kind \in Expressions \cup {"none"}
    BY <1>1, <1>4 DEF Parsed, Waits, InAt, Pair
  <2>4. g.node.kind # "func"
    <3>1. CASE f.node.kind \in Operators
      BY <2>1, <3>1 DEF Expressions, Operators
    <3>2. CASE f.node.kind \in {"decl", "assign", "return", "if"}
      <4>1. k \in {1, 2} /\ f.node.kids[1].kind \in Expressions
        BY <1>1, <1>2, <3>2 DEF Parsed
      <4>2. k = 2 => f.node.kids[2].kind \in Expressions \cup {"none", "body"}
        BY <1>1, <1>2, <3>2 DEF Parsed
      <4> QED
        BY <1>4, <4>1, <4>2 DEF Expressions, Operators
    <3>3. CASE f.node.kind = "for"
      <4>1. /\ k \in {1, 2, 3, 4}
            /\ {f.node.kids[1].kind, f.node.kids[2].kind} \subseteq Expressions \cup {"none"}
            /\ f.node.kids[3].kind \in Statements /\ f.node.kids[4].kind = "body"
        BY <1>1, <1>2, <3>3 DEF Parsed
      <4> QED
        BY <1>4, <4>1 DEF Expressions, Operators, Statements
    <3>4. CASE f.node.kind = "func"
      <4>1. k = 1 /\ f.node.kids[1].kind = "body"
        BY <1>1, <1>2, <3>4 DEF Parsed
      <4> QED
        BY <1>4, <4>1
    <3>5. CASE f.node.kind = "body"
      <4>1. f.node.kids[k].kind \in Statements
        BY <1>1, <3>5 DEF Parsed
      <4> QED
        BY <1>4, <4>1 DEF Statements
    <3> QED
      BY <1>2, <2>2, <3>1, <3>2, <3>3, <3>4, <3>5 DEF Kind, Operators
  <2>5. ~InAt(f, {"call"}, "await")
    BY <1>4 DEF Waits, InAt, Pair
  <2> QED
    BY <2>1, <2>2, <2>3, <2>4, <2>5
<1> QED
  BY <1>3, <1>4 DEF WaitsFor

\* The chain a callee gets: its first body is the caller's own, if it has one.
LEMMA SeenShape ==
    ASSUME NEW f \in Frame
    PROVE  /\ Seen(f) \in Seq(Body \cup {GlobalScope})
           /\ f.own = GlobalScope \/ f.pc = "variable" => Seen(f) = f.chain
           /\ f.own # GlobalScope /\ f.pc # "variable" =>
                /\ Seen(f) # <<>> /\ Seen(f)[1] = f.own
                /\ \A c \in DOMAIN Seen(f) : c = 1 \/ \E d \in DOMAIN f.chain : Seen(f)[c] = f.chain[d]
<1>1. f.own \in Body \cup {GlobalScope} /\ f.chain \in Seq(Body)
  BY DEF Frame
<1>2. f.chain \in Seq(Body \cup {GlobalScope}) /\ <<f.own>> \in Seq(Body \cup {GlobalScope})
  BY <1>1
<1> DEFINE s == <<f.own>> \o f.chain
<1>3. s \in Seq(Body \cup {GlobalScope}) /\ Len(s) = Len(f.chain) + 1 /\ s[1] = f.own
      /\ \A c \in 2 .. Len(s) : s[c] = f.chain[c - 1] /\ c - 1 \in DOMAIN f.chain
  BY <1>1, <1>2
<1>4. \A c \in DOMAIN s : c = 1 \/ \E d \in DOMAIN f.chain : s[c] = f.chain[d]
  <2> SUFFICES ASSUME NEW c \in DOMAIN s, c # 1
               PROVE  \E d \in DOMAIN f.chain : s[c] = f.chain[d]
    OBVIOUS
  <2>1. c \in 2 .. Len(s)
    BY <1>3
  <2> QED
    BY <1>3, <2>1
<1>5. s # <<>>
  BY <1>3, <1>1
<1> QED
  BY <1>2, <1>3, <1>4, <1>5 DEF Seen

LEMMA PushStacked ==
    ASSUME TypeOK, stack # <<>>, NEW quiet, Tame(quiet), Stacked(quiet),
           NEW f, NEW g, Called(f, g), f \in Frame, stack' = Append(SetTop(f), g)
    PROVE  Stacked(quiet)'
<1>1. PICK n \in Nat : n = Len(stack) /\ n >= 1
  BY DEF TypeOK
<1>2. stack \in Seq(Frame) /\ Top = stack[n] /\ DOMAIN stack = 1 .. n
  BY <1>1 DEF TypeOK, Top
<1>3. /\ DOMAIN stack' = 1 .. n + 1 /\ Len(stack') = n + 1 /\ stack'[n + 1] = g
      /\ \A j \in 1 .. n : stack'[j] = IF j = n THEN f ELSE stack[j]
  <2>1. /\ DOMAIN stack' = 1 .. Len(stack) + 1 /\ Len(stack') = Len(stack) + 1
        /\ \A j \in 1 .. Len(stack) : stack'[j] = IF j = Len(stack) THEN f ELSE stack[j]
        /\ stack'[Len(stack) + 1] = g
    BY PushShape
  <2> QED
    BY <1>1, <2>1
<1>4. \A j \in 1 .. n : Same(stack'[j], stack[j])
  BY <1>2, <1>3 DEF Same, Called
<1>5. /\ \A a, b \in 1 .. n : NoEntry(a, b)' <=> NoEntry(a, b)
      /\ \A a \in 1 .. n : NoEntry(a, n + 1)' <=> NoEntry(a, n) /\ g.node.kind # "func"
  <2>1. ASSUME NEW a \in 1 .. n, NEW b \in 1 .. n
        PROVE  NoEntry(a, b)' <=> NoEntry(a, b)
    <3>1. \A h \in a + 1 .. b : h \in 1 .. n
      BY <1>1
    <3>2. \A h \in a + 1 .. b : stack'[h].node = stack[h].node
      BY <1>4, <3>1 DEF Same
    <3> QED
      BY <3>2 DEF NoEntry
  <2>2. ASSUME NEW a \in 1 .. n
        PROVE  NoEntry(a, n + 1)' <=> NoEntry(a, n)' /\ g.node.kind # "func"
    <3>1. a + 1 .. n + 1 = (a + 1 .. n) \cup {n + 1}
      BY <1>1
    <3> QED
      BY <1>3, <3>1 DEF NoEntry
  <2> QED
    BY <1>1, <2>1, <2>2
<1>6. /\ f.node.kind \in Operators =>
            g.node.kind \in Expressions \/ (g.node.kind = "func" /\ g.chain = <<>>)
      /\ f.node.kind \notin {"literal", "string", "var", "none"}
      /\ f.pc = "variable" => g.node.kind \in Expressions \cup {"none"}
      /\ g.node.kind = "func" => g.chain = <<>>
      /\ g.node.kind # "func" => g.chain = Seen(f)
  <2>1. f.node \in Node /\ g.node \in Node
    BY DEF Frame, Called
  <2> QED
    BY <2>1, ChildKinds DEF Called
<1>7. /\ f.own = GlobalScope \/ f.pc = "variable" => Seen(f) = f.chain
      /\ f.own # GlobalScope /\ f.pc # "variable" =>
            /\ Seen(f) # <<>> /\ Seen(f)[1] = f.own
            /\ \A c \in DOMAIN Seen(f) :
                    c = 1 \/ \E d \in DOMAIN f.chain : Seen(f)[c] = f.chain[d]
  BY SeenShape
<1>8. f.node = stack[n].node /\ f.chain = stack[n].chain /\ f.own = stack[n].own /\ stack'[n] = f
  BY <1>1, <1>2, <1>3 DEF Called, Same
<1>9. Frames(quiet)'
  <2>1. \A m \in 1 .. n : OwnOK(stack'[m]) /\ ChainOK(stack'[m])
    BY <1>2, <1>4 DEF Stacked, Frames, OwnOK, ChainOK, Same
  <2>2. f.node.kind = "func" <=> f.chain = <<>>
    BY <1>1, <1>2, <1>8 DEF Stacked, Frames, ChainOK
  <2>3. OwnOK(g) /\ ChainOK(g)
    <3>1. g.node.kind # "func" => g.chain # <<>>
      <4>1. CASE f.node.kind = "func"
        <5>1. f.own # GlobalScope
          BY <4>1 DEF Called
        <5>2. f.pc # "variable"
          BY <4>1 DEF Called, WaitsFor, Waits, InAt, Pair
        <5> QED
          BY <1>6, <1>7, <5>1, <5>2
      <4>2. CASE f.node.kind # "func"
        BY <1>6, <1>7, <2>2, <4>2
      <4> QED
        BY <4>1, <4>2
    <3> QED
      BY <1>6, <3>1 DEF Called, ChainOK
  <2>4. \A m \in 1 .. n + 1 : m + 1 \in 1 .. n + 1 => WaitsFor(stack'[m], stack'[m + 1])
    <3> SUFFICES ASSUME NEW m \in 1 .. n + 1, m + 1 \in 1 .. n + 1
                 PROVE  WaitsFor(stack'[m], stack'[m + 1])
      OBVIOUS
    <3>a. m \in 1 .. n
      BY <1>1
    <3>1. CASE m = n
      BY <1>3, <1>8, <3>1 DEF Called
    <3>2. CASE m # n
      <4>1. m \in DOMAIN stack /\ m + 1 \in DOMAIN stack
        BY <1>1, <1>2, <3>2, <3>a
      <4>2. WaitsFor(stack[m], stack[m + 1])
        BY <4>1 DEF Stacked, Frames
      <4>3. stack'[m] = stack[m] /\ Same(stack'[m + 1], stack[m + 1])
        BY <1>2, <1>3, <1>4, <3>2, <4>1
      <4> QED
        BY <4>2, <4>3 DEF WaitsFor, Same
    <3> QED
      BY <3>1, <3>2
  <2>5. stack'[1].node.kind = "func" /\ Ready(g, quiet)
    <3>1. stack'[1].node.kind = "func"
      BY <1>1, <1>2, <1>4 DEF Stacked, Frames, Same
    <3>2. Ready(g, quiet)
      BY DEF Called, Ready, One, Nothing, InAt, Pair
    <3> QED
      BY <3>1, <3>2
  <2>6. \A m \in 1 .. n + 1 : OwnOK(stack'[m]) /\ ChainOK(stack'[m])
    BY <1>1, <1>3, <2>1, <2>3
  <2> QED
    BY <1>1, <1>3, <2>4, <2>5, <2>6 DEF Frames, Top
<1>10. Distinct'
  <2>1. \A m \in 1 .. n : stack'[m].own = g.own => g.own = GlobalScope
    <3> SUFFICES ASSUME NEW m \in 1 .. n, stack'[m].own = g.own, g.own # GlobalScope
                 PROVE  FALSE
      OBVIOUS
    <3>1. stack[m].own = g.own /\ m \in DOMAIN stack
      BY <1>2, <1>4 DEF Same
    <3> QED
      BY <3>1 DEF Called, OwnedBodies
  <2>2. \A a, b \in 1 .. n : stack'[a].own = stack'[b].own /\ stack'[a].own # GlobalScope => a = b
    BY <1>2, <1>4 DEF Stacked, Distinct, Same
  <2>3. \A m \in 1 .. n + 1 : m = n + 1 \/ m \in 1 .. n
    BY <1>1
  <2> QED
    BY <1>3, <2>1, <2>2, <2>3 DEF Distinct
<1>11. Enclosed'
  <2> SUFFICES ASSUME NEW m \in 1 .. n + 1, NEW c \in DOMAIN stack'[m].chain
               PROVE  \E k \in 1 .. n + 1 : /\ k < m /\ stack'[k].own = stack'[m].chain[c]
                                            /\ NoEntry(k, m)'
    BY <1>3 DEF Enclosed
  <2>1. CASE m \in 1 .. n
    <3>1. c \in DOMAIN stack[m].chain /\ m \in DOMAIN stack
      BY <1>2, <1>4, <2>1 DEF Same
    <3>2. PICK k \in DOMAIN stack : k < m /\ stack[k].own = stack[m].chain[c] /\ NoEntry(k, m)
      BY <3>1 DEF Stacked, Enclosed
    <3>3. k \in 1 .. n /\ k \in 1 .. n + 1
      BY <1>1, <1>2
    <3>4. NoEntry(k, m)' /\ stack'[k].own = stack[k].own
          /\ stack'[m].chain = stack[m].chain
      BY <1>4, <1>5, <2>1, <3>2, <3>3 DEF Same
    <3> QED
      BY <3>2, <3>3, <3>4
  <2>2. CASE m = n + 1
    <3>1. c \in DOMAIN g.chain
      BY <1>3, <2>2
    <3>2. g.node.kind # "func" /\ c \in DOMAIN Seen(f) /\ g.chain = Seen(f)
      BY <1>6, <3>1
    <3>3. CASE f.own # GlobalScope /\ f.pc # "variable" /\ c = 1
      <4>1. n \in 1 .. n + 1 /\ n < m /\ stack'[n].own = stack'[m].chain[c]
        BY <1>1, <1>3, <1>7, <1>8, <2>2, <3>2, <3>3
      <4>2. NoEntry(n, m)'
        <5>1. n + 1 .. m = {n + 1}
          BY <1>1, <2>2
        <5> QED
          BY <1>3, <3>2, <5>1 DEF NoEntry
      <4> QED
        BY <4>1, <4>2
    <3>4. CASE f.own = GlobalScope \/ f.pc = "variable" \/ c # 1
      <4>1. PICK d \in DOMAIN stack[n].chain : g.chain[c] = stack[n].chain[d]
        BY <1>7, <1>8, <3>2, <3>4
      <4>2. PICK k \in DOMAIN stack : k < n /\ stack[k].own = stack[n].chain[d] /\ NoEntry(k, n)
        BY <1>1, <1>2, <4>1 DEF Stacked, Enclosed
      <4>3. k \in 1 .. n /\ k \in 1 .. n + 1 /\ k < m
        BY <1>1, <1>2, <2>2, <4>2
      <4> QED
        BY <1>3, <1>4, <1>5, <2>2, <3>2, <4>1, <4>2, <4>3 DEF Same
    <3> QED
      BY <3>3, <3>4
  <2>3. m \in 1 .. n \/ m = n + 1
    BY <1>1
  <2> QED
    BY <2>1, <2>2, <2>3
<1>12. Innermost'
  <2> SUFFICES ASSUME NEW m \in 1 .. n + 1,
                      stack'[m].node.kind \notin Expressions \cup {"func", "none"}
               PROVE  \E k \in 1 .. n + 1 : /\ k < m /\ stack'[k].own = stack'[m].chain[1]
                                            /\ \A h \in k + 1 .. m - 1 : stack'[h].own = GlobalScope
    BY <1>3 DEF Innermost
  <2>1. CASE m \in 1 .. n
    <3>1. stack[m].node.kind \notin Expressions \cup {"func", "none"} /\ m \in DOMAIN stack
      BY <1>2, <1>4, <2>1 DEF Same
    <3>2. PICK k \in DOMAIN stack : /\ k < m /\ stack[k].own = stack[m].chain[1]
                                    /\ \A h \in k + 1 .. m - 1 : stack[h].own = GlobalScope
      BY <3>1 DEF Stacked, Innermost
    <3>3. k \in 1 .. n /\ k \in 1 .. n + 1 /\ \A h \in k + 1 .. m - 1 : h \in 1 .. n
      BY <1>1, <1>2, <2>1
    <3>4. /\ stack'[k].own = stack[k].own /\ stack'[m].chain = stack[m].chain
          /\ \A h \in k + 1 .. m - 1 : stack'[h].own = stack[h].own
      BY <1>4, <2>1, <3>3 DEF Same
    <3> QED
      BY <3>2, <3>3, <3>4
  <2>2. CASE m = n + 1
    <3>1. g.node.kind \notin Expressions \cup {"func", "none"}
      BY <1>3, <2>2
    <3>2. f.pc # "variable" /\ g.chain = Seen(f) /\ f.node.kind \notin Expressions \cup {"none"}
      BY <1>6, <3>1 DEF Expressions
    <3>3. CASE f.own # GlobalScope
      <4>1. n \in 1 .. n + 1 /\ n < m /\ stack'[n].own = stack'[m].chain[1]
        BY <1>1, <1>3, <1>7, <1>8, <2>2, <3>2, <3>3
      <4>2. \A h \in n + 1 .. m - 1 : FALSE
        BY <1>1, <2>2
      <4> QED
        BY <4>1, <4>2
    <3>4. CASE f.own = GlobalScope
      <4>1. f.node.kind # "func" /\ n \in DOMAIN stack
        BY <1>1, <1>2, <3>4 DEF Called
      <4>2. stack[n].node.kind \notin Expressions \cup {"func", "none"}
        BY <1>8, <3>2, <4>1
      <4>3. PICK k \in DOMAIN stack : /\ k < n /\ stack[k].own = stack[n].chain[1]
                                      /\ \A h \in k + 1 .. n - 1 : stack[h].own = GlobalScope
        BY <4>1, <4>2 DEF Stacked, Innermost
      <4>4. k \in 1 .. n /\ k \in 1 .. n + 1 /\ k < m
        BY <1>1, <1>2, <2>2, <4>3
      <4>5. ASSUME NEW h \in k + 1 .. m - 1 PROVE stack'[h].own = GlobalScope
        <5>1. h \in 1 .. n /\ (h = n \/ h \in k + 1 .. n - 1)
          BY <1>1, <2>2, <4>4
        <5> QED
          BY <1>4, <1>8, <3>4, <4>3, <5>1 DEF Same
      <4>6. stack'[k].own = stack'[m].chain[1]
        BY <1>3, <1>4, <1>7, <1>8, <2>2, <3>2, <3>4, <4>3, <4>4 DEF Same
      <4> QED
        BY <4>4, <4>5, <4>6
    <3> QED
      BY <3>3, <3>4
  <2>3. m \in 1 .. n \/ m = n + 1
    BY <1>1
  <2> QED
    BY <2>1, <2>2, <2>3
<1>13. Shielded'
  <2> SUFFICES ASSUME NEW a \in 1 .. n + 1, NEW b \in 1 .. n + 1, a < b,
                      stack'[a].node.kind \in Operators, stack'[b].node.kind \notin Expressions
               PROVE  ~NoEntry(a, b)'
    BY <1>3 DEF Shielded
  <2>1. a \in 1 .. n /\ stack[a].node.kind \in Operators /\ a \in DOMAIN stack
    <3>1. a \in 1 .. n
      BY <1>1
    <3> QED
      BY <1>2, <1>4, <3>1 DEF Same
  <2>2. CASE b \in 1 .. n
    BY <1>2, <1>4, <1>5, <2>1, <2>2 DEF Stacked, Shielded, Same
  <2>3. CASE b = n + 1
    <3> SUFFICES ASSUME g.node.kind # "func" PROVE ~NoEntry(a, n)
      BY <1>5, <2>1, <2>3
    <3>1. g.node.kind \notin Expressions
      BY <1>3, <2>3
    <3>2. f.node.kind \notin Operators /\ f.node.kind \notin Expressions
      BY <1>6, <3>1 DEF Expressions
    <3>3. a # n /\ a < n
      BY <1>1, <1>8, <2>1, <3>2
    <3> QED
      BY <1>1, <1>2, <1>8, <2>1, <3>2, <3>3 DEF Stacked, Shielded
  <2> QED
    BY <1>1, <2>2, <2>3
<1> QED
  BY <1>9, <1>10, <1>11, <1>12, <1>13 DEF Stacked

\* What waits for the running frame is ready when it gets its result.
LEMMA AnsweredReady ==
    ASSUME NEW quiet, Tame(quiet), NEW f \in Frame, NEW g \in Frame, WaitsFor(f, g),
           NEW v, g.node \in quiet /\ g.node.kind \in {"body", "if", "for"} => v = NULL,
           NEW h, h = Given(f, v)
    PROVE  Same(h, f) /\ Ready(h, quiet)
<1>1. /\ h.node = f.node /\ h.pc = f.pc /\ h.i = f.i /\ h.chain = f.chain /\ h.own = f.own
      /\ h.got = Append(f.got, v)
  BY DEF Frame, Given
<1>2. f.got \in Seq(Pointers) /\ f.node \in Node /\ f.i \in Nat /\ f.pc \in Point
  BY DEF Frame
<1>3. PICK m \in Nat : m = Len(f.got)
  BY <1>2
<1>4. Len(h.got) = m + 1 /\ (m = 0 => h.got[1] = v) /\ h.got # <<>> /\ (f.got = <<>> <=> m = 0)
  <2> DEFINE S == Pointers \cup {v}
  <2>1. f.got \in Seq(S) /\ v \in S
    BY <1>2
  <2> HIDE DEF S
  <2> QED
    BY <1>1, <1>3, <2>1
<1>5. Parsed(f.node) /\ Len(f.node.kids) \in Nat /\ f.node.kids \in Seq(Node)
      /\ (f.node.kind = "for" => Len(f.node.kids) = 4)
  BY <1>2, NodeAssumption, ShapeAssumption DEF Tame
<1>6. CASE InAt(f, {"call"}, "await") /\ f.got = <<>>
  BY <1>1, <1>3, <1>4, <1>6 DEF Same, Ready, One, Nothing, InAt, Pair
<1>7. ASSUME NEW k \in DOMAIN f.node.kids, Waits(f, k), g.node = f.node.kids[k]
      PROVE  Ready(h, quiet)
  <2>1. h.pc \notin {"slot", "unwind", "drop"} /\ ~Nothing(h)
    BY <1>1, <1>7 DEF Waits, InAt, Nothing, Pair
  <2>2. One(h) => Len(h.got) = 1
    BY <1>1, <1>3, <1>4, <1>7 DEF Waits, InAt, One, Pair
  <2>3. InAt(h, Pair, "right") \/ InAt(h, {"return"}, "body") \/ InAt(h, {"assign"}, "target")
        => Len(h.got) = 2
    <3>1. InAt(f, Pair, "right") \/ InAt(f, {"return"}, "body") \/ InAt(f, {"assign"}, "target")
          => m = 1
      BY <1>3, <1>7 DEF Waits, InAt, Pair
    <3> QED
      BY <1>1, <1>4, <3>1 DEF InAt
  <2>4. InAt(h, {"body"}, "result") => h.i \in DOMAIN h.node.kids
    BY <1>1, <1>7 DEF Waits, InAt, Pair
  <2>5. InAt(h, {"for"}, "body") => h.got[1] = NULL
    <3>1. SUFFICES ASSUME InAt(f, {"for"}, "body") PROVE v = NULL
      BY <1>1, <1>3, <1>4, <1>7 DEF Waits, InAt, Pair
    <3>2. k = 4
      BY <1>7, <3>1 DEF Waits, InAt, Pair
    <3>3. g.node \in quiet /\ g.node.kind = "body"
      BY <1>2, <1>5, <1>7, <3>1, <3>2 DEF Tame, Quiet, Parsed, InAt
    <3> QED
      BY <3>3
  <2>6. ASSUME f.node \in quiet, InAt(f, {"if"}, "body") PROVE h.got[1] = NULL
    <3>1. k = 2 /\ f.got = <<>>
      BY <1>7, <2>6 DEF Waits, InAt, Pair
    <3>2. g.node \in quiet /\ g.node.kind = "body"
      BY <1>2, <1>5, <1>7, <2>6, <3>1 DEF Tame, Quiet, Parsed, InAt
    <3> QED
      BY <1>4, <3>1, <3>2
  <2>7. ASSUME f.node \in quiet, InAt(f, {"body"}, "result"), IsBlock(f.node.kids[f.i])
        PROVE  h.got[1] = NULL
    <3>1. k = f.i /\ f.got = <<>>
      BY <1>7, <2>7 DEF Waits, InAt, Pair
    <3>2. g.node \in quiet /\ g.node.kind \in {"if", "for"}
      BY <1>7, <2>7, <3>1 DEF Tame, Quiet, IsBlock
    <3> QED
      BY <1>4, <3>1, <3>2
  <2> QED
    BY <1>1, <2>1, <2>2, <2>3, <2>4, <2>5, <2>6, <2>7 DEF Ready, InAt
<1> QED
  BY <1>1, <1>6, <1>7 DEF WaitsFor, Same

\* A return.
LEMMA PopStacked ==
    ASSUME TypeOK, stack # <<>>, NEW quiet, Tame(quiet), Stacked(quiet), NEW v, Return(v),
           Top.node \in quiet /\ Top.node.kind \in {"body", "if", "for"} => v = NULL
    PROVE  Stacked(quiet)'
<1>1. PICK n \in Nat : n = Len(stack) /\ n >= 1
  BY DEF TypeOK
<1>2. stack \in Seq(Frame) /\ Top = stack[n] /\ DOMAIN stack = 1 .. n
  BY <1>1 DEF TypeOK, Top
<1>3. CASE n = 1
  <2>1. stack' = <<>>
    BY <1>1, <1>3 DEF Return
  <2>2. DOMAIN stack' = {}
    BY <2>1
  <2> QED
    BY <2>1, <2>2 DEF Stacked, Frames, Distinct, Enclosed, Innermost, Shielded
<1>4. CASE n # 1
  <2>0. Len(stack) # 0 /\ Len(stack) # 1
    BY <1>1, <1>4
  <2>1. stack' = Popped(stack, v)
    BY <1>1, <1>4 DEF Return, Popped
  <2>2. PICK m \in Nat : m = n - 1 /\ m >= 1
    BY <1>1, <1>4
  <2>3. /\ Len(stack') = m /\ DOMAIN stack' = 1 .. m
        /\ \A j \in 1 .. m : stack'[j] = IF j = m THEN Given(stack[j], v)
                                         ELSE stack[j]
    <3>1. m = Len(stack) - 1
      BY <1>1, <2>2
    <3>2. /\ Len(stack') = Len(stack) - 1 /\ DOMAIN stack' = 1 .. Len(stack) - 1
          /\ \A j \in 1 .. Len(stack) - 1 :
                stack'[j] = IF j = Len(stack) - 1 THEN Given(stack[j], v)
                            ELSE stack[j]
      BY <1>2, <2>0, <2>1, PopNext
    <3> QED
      BY <3>1, <3>2
  <2>4. m \in DOMAIN stack /\ n \in DOMAIN stack /\ n = m + 1
        /\ stack[m] \in Frame /\ stack[n] \in Frame
    BY <1>1, <1>2, <2>2
  <2>5. WaitsFor(stack[m], stack[n])
    BY <2>4 DEF Stacked, Frames
  <2>6. Same(stack'[m], stack[m]) /\ Ready(stack'[m], quiet)
    <3>1. stack'[m] = Given(stack[m], v)
      BY <2>2, <2>3
    <3>2. stack[n].node \in quiet /\ stack[n].node.kind \in {"body", "if", "for"} => v = NULL
      BY <1>2
    <3> QED
      BY <2>4, <2>5, <3>1, <3>2, AnsweredReady
  <2>7. \A j \in 1 .. m : Same(stack'[j], stack[j])
    BY <2>3, <2>6 DEF Same
  <2>8. Distinct' /\ Enclosed' /\ Innermost' /\ Shielded'
    BY <1>1, <1>2, <2>2, <2>3, <2>7, SameStacked DEF Stacked
  <2>9. Frames(quiet)'
    <3>1. \A j \in 1 .. m : OwnOK(stack'[j]) /\ ChainOK(stack'[j])
      <4> SUFFICES ASSUME NEW j \in 1 .. m PROVE OwnOK(stack'[j]) /\ ChainOK(stack'[j])
        OBVIOUS
      <4>1. j \in DOMAIN stack /\ Same(stack'[j], stack[j])
        BY <1>2, <2>2, <2>7
      <4> QED
        BY <4>1 DEF Stacked, Frames, OwnOK, ChainOK, Same
    <3>2. ASSUME NEW j \in 1 .. m, j + 1 \in 1 .. m
          PROVE  WaitsFor(stack'[j], stack'[j + 1])
      <4>1. j \in DOMAIN stack /\ j + 1 \in DOMAIN stack /\ j # m
        BY <1>2, <2>2, <3>2
      <4>2. WaitsFor(stack[j], stack[j + 1])
        BY <4>1 DEF Stacked, Frames
      <4>3. stack'[j] = stack[j] /\ Same(stack'[j + 1], stack[j + 1])
        BY <2>3, <2>7, <3>2, <4>1
      <4> QED
        BY <4>2, <4>3 DEF WaitsFor, Same
    <3>3. stack'[1].node.kind = "func"
      BY <2>2, <2>7 DEF Stacked, Frames, Same
    <3> QED
      BY <2>3, <2>6, <3>1, <3>2, <3>3 DEF Frames, Top
  <2> QED
    BY <2>8, <2>9 DEF Stacked
<1> QED
  BY <1>3, <1>4

(***************************************************************************)
(* What happens to the variables meanwhile.                                *)
(***************************************************************************)
\* The variables belong to the bodies they did before.
SameRoots ==
    /\ DOMAIN variables'.insts = DOMAIN variables.insts
    /\ Len(variables'.insts) = Len(variables.insts)
    /\ \A i \in DOMAIN variables.insts : variables'.insts[i].root = variables.insts[i].root

\* The first m frames stay the activations they are, and no other is left.
Remain(m) ==
    /\ m \in 0 .. Len(stack) /\ DOMAIN stack' = 1 .. m
    /\ \A j \in 1 .. m : Same(stack'[j], stack[j])

\* No variable of a frame above the m-th one.
Below(m) == \A i \in DOMAIN variables.insts : \E g \in 1 .. m : Level(g, i)

LEMMA VariablesIndexed ==
    ASSUME TypeOK
    PROVE  /\ Len(variables.insts) \in Nat /\ DOMAIN variables.insts = 1 .. Len(variables.insts)
           /\ Len(stack) \in Nat /\ DOMAIN stack = 1 .. Len(stack)
BY DEF TypeOK

\* Variables stay, the frames they belong to as well.
LEMMA KeepLayered ==
    ASSUME TypeOK, Layered, NEW m, Remain(m), Below(m), SameRoots
    PROVE  Layered'
<1>1. \A g \in 1 .. m : g \in DOMAIN stack
  BY VariablesIndexed DEF Remain
<1>2. \A i \in DOMAIN variables.insts, g \in 1 .. m : Level(g, i)' <=> Level(g, i)
  BY DEF Level, SameRoots, Remain, Same
<1>3. \A i \in DOMAIN variables'.insts : \E g \in DOMAIN stack' : Level(g, i)'
  BY <1>2 DEF Below, SameRoots, Remain
<1>4. \A i \in DOMAIN variables'.insts : variables'.insts[i].root # GlobalScope
  BY DEF Layered, SameRoots
<1>5. ASSUME NEW i \in DOMAIN variables'.insts, NEW j \in DOMAIN variables'.insts, i <= j,
             NEW g \in DOMAIN stack', NEW h \in DOMAIN stack', Level(g, i)', Level(h, j)'
      PROVE  g <= h
  <2>1. g \in 1 .. m /\ h \in 1 .. m /\ g \in DOMAIN stack /\ h \in DOMAIN stack
    BY <1>1 DEF Remain
  <2>2. i \in DOMAIN variables.insts /\ j \in DOMAIN variables.insts
    BY DEF SameRoots
  <2>3. Level(g, i) /\ Level(h, j)
    BY <1>2, <1>5, <2>1, <2>2
  <2> QED
    BY <1>5, <2>1, <2>2, <2>3 DEF Layered
<1> QED
  BY <1>3, <1>4, <1>5 DEF Layered

\* A new variable, of the innermost body that stays.
LEMMA AddLayered ==
    ASSUME TypeOK, Layered, Distinct, NEW m, Remain(m), Below(m), NEW inst \in VariableInstance,
           variables' = Add(variables, inst),
           NEW k \in 1 .. m, stack[k].own = inst.root, inst.root # GlobalScope,
           \A h \in k + 1 .. m : stack[h].own = GlobalScope
    PROVE  Layered'
<1>1. PICK n \in Nat : n = Len(variables.insts) /\ DOMAIN variables.insts = 1 .. n
  BY VariablesIndexed
<1>2. /\ DOMAIN variables'.insts = 1 .. n + 1 /\ variables'.insts[n + 1] = inst
      /\ \A i \in 1 .. n : variables'.insts[i] = variables.insts[i]
  <2>1. variables'.insts = Append(variables.insts, inst)
    BY DEF Add
  <2>2. variables.insts \in Seq(VariableInstance)
    BY Typed DEF VariableScope
  <2> QED
    BY <1>1, <2>1, <2>2
<1>3. m \in Nat /\ k \in Nat /\ k <= m /\ \A g \in 1 .. m : g \in DOMAIN stack
  BY VariablesIndexed DEF Remain
<1>4. \A i \in 1 .. n, g \in 1 .. m : Level(g, i)' <=> Level(g, i)
  BY <1>2 DEF Level, Remain, Same
<1>5. \A g \in 1 .. m : Level(g, n + 1)' <=> stack[g].own = inst.root
  BY <1>2 DEF Level, Remain, Same
<1>6. \A i \in 1 .. n + 1 : i \in 1 .. n \/ i = n + 1
  BY <1>1
<1>7. \A g \in 1 .. m : stack[g].own = inst.root => g = k
  BY <1>3 DEF Distinct
<1>8. \A i \in 1 .. n, g \in 1 .. m : Level(g, i) => g <= k
  <2> SUFFICES ASSUME NEW i \in 1 .. n, NEW g \in 1 .. m, Level(g, i), ~(g <= k) PROVE FALSE
    OBVIOUS
  <2>1. g \in k + 1 .. m
    BY <1>3
  <2> QED
    BY <1>1, <2>1 DEF Layered, Level
<1>9. ASSUME NEW i \in 1 .. n + 1
      PROVE  variables'.insts[i].root # GlobalScope /\ \E g \in 1 .. m : Level(g, i)'
  <2>1. CASE i \in 1 .. n
    BY <1>1, <1>2, <1>4, <2>1 DEF Layered, Below
  <2>2. CASE i = n + 1
    BY <1>2, <1>5, <2>2
  <2> QED
    BY <1>6, <2>1, <2>2
<1>10. ASSUME NEW i \in 1 .. n + 1, NEW j \in 1 .. n + 1, i <= j,
              NEW g \in 1 .. m, NEW h \in 1 .. m, Level(g, i)', Level(h, j)'
       PROVE  g <= h
  <2>1. CASE j \in 1 .. n
    <3>1. i \in 1 .. n
      BY <1>1, <1>10, <2>1
    <3> QED
      BY <1>1, <1>3, <1>4, <1>10, <2>1, <3>1 DEF Layered
  <2>2. CASE j = n + 1
    <3>1. h = k
      BY <1>5, <1>7, <1>10, <2>2
    <3>2. CASE i \in 1 .. n
      BY <1>4, <1>8, <1>10, <3>1, <3>2
    <3>3. CASE i = n + 1
      BY <1>3, <1>5, <1>7, <1>10, <3>1, <3>3
    <3> QED
      BY <1>6, <3>2, <3>3
  <2> QED
    BY <1>6, <2>1, <2>2
<1> QED
  BY <1>2, <1>9, <1>10 DEF Layered, Remain

\* The last variable goes.
LEMMA DropLayered ==
    ASSUME TypeOK, Layered, Remain(Len(stack)), variables' = DropLast(variables),
           variables.insts # <<>>
    PROVE  Layered' /\ Len(variables'.insts) = Len(variables.insts) - 1
           /\ DOMAIN variables'.insts = 1 .. Len(variables.insts) - 1
           /\ \A i \in DOMAIN variables'.insts :
                i \in DOMAIN variables.insts /\ variables'.insts[i] = variables.insts[i]
<1>1. PICK n \in Nat : n = Len(variables.insts) /\ n # 0 /\ DOMAIN variables.insts = 1 .. n
  BY Typed DEF VariableScope
<1>2. PICK m \in Nat : m = n - 1
  BY <1>1
<1>3. /\ DOMAIN variables'.insts = 1 .. m /\ Len(variables'.insts) = m
      /\ \A i \in 1 .. m : variables'.insts[i] = variables.insts[i] /\ i \in 1 .. n
  <2>1. variables'.insts = SubSeq(variables.insts, 1, m)
    BY <1>1, <1>2, Typed DEF DropLast, VariableScope
  <2>2. variables.insts \in Seq(VariableInstance)
    BY Typed DEF VariableScope
  <2> QED
    BY <1>1, <1>2, <2>1, <2>2
<1>4. DOMAIN stack' = DOMAIN stack /\ \A g \in DOMAIN stack, i \in 1 .. m : Level(g, i)' <=> Level(g, i)
  BY <1>3, VariablesIndexed DEF Level, Remain, Same
<1>5. Layered'
  <2>1. \A i \in 1 .. m : \E g \in DOMAIN stack' : Level(g, i)'
    BY <1>1, <1>3, <1>4 DEF Layered
  <2>2. \A i \in 1 .. m : variables'.insts[i].root # GlobalScope
    BY <1>1, <1>3 DEF Layered
  <2>3. \A i, j \in 1 .. m : i <= j =>
            \A g, h \in DOMAIN stack' : Level(g, i)' /\ Level(h, j)' => g <= h
    BY <1>1, <1>3, <1>4 DEF Layered
  <2> QED
    BY <1>3, <2>1, <2>2, <2>3 DEF Layered
<1> QED
  BY <1>1, <1>2, <1>3, <1>5

(***************************************************************************)
(* The kinds of steps.                                                     *)
(***************************************************************************)
Core(quiet) == Stacked(quiet) /\ Layered /\ Leaving

\* A change of the running frame leaves every activation where it is.
LEMMA MoveRemains ==
    ASSUME TypeOK, stack # <<>>, NEW f, Same(f, Top), stack' = SetTop(f)
    PROVE  Remain(Len(stack)) /\ Top' = f /\ stack' # <<>>
<1>1. PICK n \in Nat : n = Len(stack) /\ n >= 1
  BY DEF TypeOK
<1>2. /\ DOMAIN stack' = 1 .. n /\ Len(stack') = n
      /\ \A j \in 1 .. n : stack'[j] = IF j = n THEN f ELSE stack[j]
  BY <1>1, SetTopShape
<1>3. \A j \in 1 .. n : Same(stack'[j], stack[j])
  BY <1>1, <1>2 DEF Same, Top
<1> QED
  BY <1>1, <1>2, <1>3 DEF Remain, Top

\* A return leaves the other activations where they are, waiting.
LEMMA ReturnRemains ==
    ASSUME TypeOK, stack # <<>>, NEW v, Return(v)
    PROVE  Remain(Len(stack) - 1) /\ Len(stack) - 1 \in Nat /\ Len(stack') = Len(stack) - 1
           /\ \A j \in 1 .. Len(stack) - 1 : stack'[j].pc = stack[j].pc
<1>1. PICK n \in Nat : n = Len(stack) /\ n >= 1
  BY DEF TypeOK
<1>2. stack \in Seq(Frame)
  BY DEF TypeOK
<1>3. CASE n = 1
  <2>1. stack' = <<>>
    BY <1>1, <1>3 DEF Return
  <2> QED
    BY <1>1, <1>3, <2>1 DEF Remain
<1>4. CASE n # 1
  <2>0. Len(stack) # 0 /\ Len(stack) # 1
    BY <1>1, <1>4
  <2>1. stack' = Popped(stack, v)
    BY <2>0 DEF Return, Popped
  <2>2. /\ Len(stack') = Len(stack) - 1 /\ DOMAIN stack' = 1 .. Len(stack) - 1
        /\ \A j \in 1 .. Len(stack) - 1 :
              stack'[j] = IF j = Len(stack) - 1 THEN Given(stack[j], v) ELSE stack[j]
    BY <1>2, <2>0, <2>1, PopNext
  <2>3. \A j \in 1 .. Len(stack) - 1 : stack[j] \in Frame
    BY <1>1, <1>2
  <2>4. \A j \in 1 .. Len(stack) - 1 : Same(stack'[j], stack[j]) /\ stack'[j].pc = stack[j].pc
    BY <2>2, <2>3 DEF Same, Given, Frame
  <2> QED
    BY <1>1, <2>2, <2>4 DEF Remain
<1> QED
  BY <1>3, <1>4

\* Nothing that waits is being left.
LEMMA WaitingStays ==
    ASSUME NEW f, NEW g, WaitsFor(f, g)
    PROVE  f.pc \notin {"leave", "unwind"}
BY DEF WaitsFor, Waits, InAt, Pair

\* The running frame goes on.
LEMMA MoveCore ==
    ASSUME TypeOK, stack # <<>>, NEW quiet, Core(quiet), NEW f, Same(f, Top), Ready(f, quiet),
           stack' = SetTop(f), UNCHANGED variables,
           f.pc \in {"leave", "unwind"} => f.i = Len(variables.insts)
    PROVE  Core(quiet)'
<1>1. Stacked(quiet)'
  BY MoveStacked DEF Core
<1>2. Remain(Len(stack)) /\ Top' = f /\ stack' # <<>>
  BY MoveRemains
<1>3. SameRoots
  BY DEF SameRoots
<1>4. Below(Len(stack))
  BY VariablesIndexed DEF Core, Layered, Below
<1>5. Layered'
  BY <1>2, <1>3, <1>4, KeepLayered DEF Core
<1>6. Leaving'
  <2> SUFFICES ASSUME f.pc \in {"leave", "unwind"}
               PROVE  f.i <= Len(variables.insts) /\ ~\E i \in DOMAIN variables.insts : i > f.i
    BY <1>2 DEF Leaving
  <2> QED
    BY VariablesIndexed
<1> QED
  BY <1>1, <1>5, <1>6 DEF Core

\* A new activation.
LEMMA PushCore ==
    ASSUME TypeOK, stack # <<>>, NEW quiet, Tame(quiet), Core(quiet), NEW f \in Frame, NEW g,
           Called(f, g), stack' = Append(SetTop(f), g), UNCHANGED variables
    PROVE  Core(quiet)'
<1>1. Stacked(quiet)'
  BY PushStacked DEF Core
<1>2. PICK n \in Nat : n = Len(stack) /\ n >= 1 /\ DOMAIN stack = 1 .. n
  BY DEF TypeOK
<1>3. /\ DOMAIN stack' = 1 .. n + 1 /\ Len(stack') = n + 1 /\ stack'[n + 1] = g
      /\ \A j \in 1 .. n : stack'[j].own = stack[j].own
  <2>1. /\ DOMAIN stack' = 1 .. Len(stack) + 1 /\ Len(stack') = Len(stack) + 1
        /\ \A j \in 1 .. Len(stack) : stack'[j] = IF j = Len(stack) THEN f ELSE stack[j]
        /\ stack'[Len(stack) + 1] = g
    BY PushShape
  <2> QED
    BY <1>2, <2>1 DEF Called, Same, Top
<1>4. \A i \in DOMAIN variables.insts, j \in 1 .. n : Level(j, i)' <=> Level(j, i)
  BY <1>3 DEF Level
<1>5. \A i \in DOMAIN variables.insts : ~Level(n + 1, i)'
  <2> SUFFICES ASSUME NEW i \in DOMAIN variables.insts, g.own = variables.insts[i].root PROVE FALSE
    BY <1>3 DEF Level
  <2>1. g.own # GlobalScope /\ \E j \in DOMAIN stack : stack[j].own = g.own
    BY DEF Core, Layered, Level
  <2> QED
    BY <2>1 DEF Called, OwnedBodies
<1>6. Layered'
  <2>1. ASSUME NEW i \in DOMAIN variables.insts PROVE \E j \in DOMAIN stack' : Level(j, i)'
    <3>1. PICK j \in 1 .. n : Level(j, i)
      BY <1>2 DEF Core, Layered
    <3>2. j \in 1 .. n + 1
      BY <1>2
    <3> QED
      BY <1>3, <1>4, <3>1, <3>2
  <2>2. \A j \in DOMAIN stack' : j \in 1 .. n \/ j = n + 1
    BY <1>2, <1>3
  <2>3. \A i, j \in DOMAIN variables.insts : i <= j =>
            \A k, h \in DOMAIN stack' : Level(k, i)' /\ Level(h, j)' => k <= h
    BY <1>2, <1>4, <1>5, <2>2 DEF Core, Layered
  <2> QED
    BY <2>1, <2>3 DEF Core, Layered
<1>7. Leaving'
  BY <1>3 DEF Leaving, Top, Called
<1> QED
  BY <1>1, <1>6, <1>7 DEF Core

\* The evaluation of a child.
LEMMA EvaluateCore ==
    ASSUME TypeOK, stack # <<>>, NEW quiet, Tame(quiet), Core(quiet), NEW f \in Frame,
           Same(f, Top), f.node.kind = "func" => f.own # GlobalScope,
           NEW k \in DOMAIN f.node.kids, Waits(f, k),
           Evaluate(f, f.node.kids[k], Seen(f)), UNCHANGED variables
    PROVE  Core(quiet)'
<1> DEFINE n == f.node.kids[k]
<1>1. n \in Node
  <2>1. f.node \in Node
    BY DEF Frame
  <2> QED
    BY <2>1, NodeAssumption
<1>2. PICK b : /\ stack' = Append(SetTop(f), NewFrame(n, Seen(f), b))
               /\ IF n.kind = "for" THEN b \in Body \ OwnedBodies ELSE b = GlobalScope
  BY DEF Evaluate
<1> DEFINE g == NewFrame(n, Seen(f), b)
<1>3. g.node = n /\ g.pc = "start" /\ g.own = b /\ g.chain = Seen(f) /\ g.got = <<>>
  BY DEF NewFrame
<1>4. WaitsFor(f, g)
  BY <1>3 DEF WaitsFor
<1>5. n.kind # "func"
  <2>1. f.node \in Node /\ g.node \in Node
    BY <1>1, <1>3 DEF Frame
  <2>2. g.node.kind = "func" <=> InAt(f, {"call"}, "await")
    BY <1>4, <2>1, ChildKinds
  <2>3. ~InAt(f, {"call"}, "await")
    BY DEF Waits, InAt, Pair
  <2> QED
    BY <1>3, <2>2, <2>3
<1>6. OwnOK(g)
  BY <1>2, <1>3, <1>5 DEF OwnOK, OwnsBody
<1>7. Called(f, g)
  BY <1>1, <1>2, <1>3, <1>4, <1>6 DEF Called
<1> HIDE DEF g
<1>8. stack' = Append(SetTop(f), g)
  BY <1>2 DEF g
<1> QED
  BY <1>7, <1>8, PushCore

\* The frame that returns has no variable left: those that stay have theirs.
LEMMA BelowReturn ==
    ASSUME TypeOK, stack # <<>>, Layered,
           \A i \in DOMAIN variables.insts : variables.insts[i].root # Top.own
    PROVE  Below(Len(stack) - 1)
<1>1. PICK n \in Nat : n = Len(stack) /\ n >= 1 /\ DOMAIN stack = 1 .. n
  BY DEF TypeOK
<1> SUFFICES ASSUME NEW i \in DOMAIN variables.insts PROVE \E g \in 1 .. n - 1 : Level(g, i)
  BY <1>1 DEF Below
<1>2. PICK g \in 1 .. n : Level(g, i)
  BY <1>1 DEF Layered
<1>3. g # n
  BY <1>1, <1>2 DEF Level, Top
<1>4. g \in 1 .. n - 1
  BY <1>1, <1>3
<1> QED
  BY <1>2, <1>4

\* A frame that waited is not one that is being left.
LEMMA ReturnLeaving ==
    ASSUME TypeOK, stack # <<>>, NEW quiet, Stacked(quiet), NEW v, Return(v)
    PROVE  Leaving'
<1>1. PICK n \in Nat : n = Len(stack) /\ n >= 1 /\ DOMAIN stack = 1 .. n
  BY DEF TypeOK
<1>2. /\ Len(stack') = n - 1 /\ \A j \in 1 .. n - 1 : stack'[j].pc = stack[j].pc
  BY <1>1, ReturnRemains
<1>3. CASE n = 1
  BY <1>1, <1>3 DEF Return, Leaving
<1>4. CASE n # 1
  <2>1. n - 1 \in 1 .. n - 1 /\ n - 1 \in DOMAIN stack /\ (n - 1) + 1 \in DOMAIN stack
    BY <1>1, <1>4
  <2>2. stack[n - 1].pc \notin {"leave", "unwind"}
    BY <2>1, WaitingStays DEF Stacked, Frames
  <2> QED
    BY <1>2, <2>1, <2>2 DEF Leaving, Top
<1> QED
  BY <1>3, <1>4

\* A return.
LEMMA PopCore ==
    ASSUME TypeOK, stack # <<>>, NEW quiet, Tame(quiet), Core(quiet), NEW v, Return(v),
           Top.node \in quiet /\ Top.node.kind \in {"body", "if", "for"} => v = NULL,
           SameRoots,
           \A i \in DOMAIN variables.insts : variables.insts[i].root # Top.own
    PROVE  Core(quiet)'
<1>1. Stacked(quiet)' /\ Leaving'
  BY PopStacked, ReturnLeaving DEF Core
<1>2. Layered'
  BY ReturnRemains, BelowReturn, KeepLayered DEF Core
<1> QED
  BY <1>1, <1>2 DEF Core

\* Most activations own no variable.
LEMMA OwnsNone ==
    ASSUME Layered, Top.own = GlobalScope
    PROVE  \A i \in DOMAIN variables.insts : variables.insts[i].root # Top.own
BY DEF Layered

\* The running frame adds a variable to its own body.
LEMMA AddCore ==
    ASSUME TypeOK, stack # <<>>, NEW quiet, Core(quiet), NEW f, Same(f, Top), Ready(f, quiet),
           stack' = SetTop(f), f.pc \notin {"leave", "unwind"},
           NEW id, NEW v, Instance(Top.own, id, v) \in VariableInstance,
           variables' = Add(variables, Instance(Top.own, id, v)), Top.own # GlobalScope
    PROVE  Core(quiet)'
<1>1. Stacked(quiet)'
  BY MoveStacked DEF Core
<1>2. Remain(Len(stack)) /\ Top' = f /\ stack' # <<>>
  BY MoveRemains
<1>3. Below(Len(stack))
  BY VariablesIndexed DEF Core, Layered, Below
<1>4. PICK n \in Nat : n = Len(stack) /\ n >= 1
  BY DEF TypeOK
<1>5. n \in 1 .. Len(stack) /\ stack[n].own = Instance(Top.own, id, v).root
      /\ \A h \in n + 1 .. Len(stack) : FALSE
  BY <1>4 DEF Top, Instance
<1>6. Distinct /\ Layered /\ Instance(Top.own, id, v).root # GlobalScope
  BY DEF Core, Stacked, Instance
<1>7. Layered'
  BY <1>2, <1>3, <1>5, <1>6, AddLayered
<1>8. Leaving'
  BY <1>2 DEF Leaving
<1> QED
  BY <1>1, <1>7, <1>8 DEF Core

\* A declaration returns, having added a variable to the innermost body.
LEMMA DeclareCore ==
    ASSUME TypeOK, stack # <<>>, NEW quiet, Tame(quiet), Core(quiet), NEW v, Return(v),
           Top.node.kind = "decl",
           NEW id, NEW w, Instance(Top.chain[1], id, w) \in VariableInstance,
           variables' = Add(variables, Instance(Top.chain[1], id, w))
    PROVE  Core(quiet)'
<1>1. PICK n \in Nat : n = Len(stack) /\ n >= 1 /\ DOMAIN stack = 1 .. n /\ Top = stack[n]
  BY DEF TypeOK, Top
<1>2. Stacked(quiet)' /\ Leaving'
  BY PopStacked, ReturnLeaving DEF Core
<1>3. Top.own = GlobalScope
  BY <1>1 DEF Core, Stacked, Frames, OwnOK, OwnsBody
<1>4. PICK g \in DOMAIN stack : /\ g < n /\ stack[g].own = Top.chain[1]
                                /\ \A h \in g + 1 .. n - 1 : stack[h].own = GlobalScope
  BY <1>1 DEF Core, Stacked, Innermost, Expressions, Operators
<1>5. Remain(n - 1) /\ Below(n - 1)
  BY <1>1, <1>3, OwnsNone, ReturnRemains, BelowReturn DEF Core
<1>6. g \in 1 .. n - 1
  BY <1>1, <1>4
<1>7. Top.chain[1] # GlobalScope
  <2>1. Top.chain \in Seq(Body) /\ stack \in Seq(Frame)
    BY TopType, Typed DEF Frame
  <2>2. Top.chain # <<>>
    BY <1>1 DEF Core, Stacked, Frames, ChainOK
  <2> QED
    BY <2>1, <2>2, BodyAssumption
<1>8. Instance(Top.chain[1], id, w).root = Top.chain[1]
  BY DEF Instance
<1>9. Layered'
  BY <1>4, <1>5, <1>6, <1>7, <1>8, AddLayered DEF Core, Stacked
<1> QED
  BY <1>2, <1>9 DEF Core

\* The variable that is destroyed is the last one.
LEMMA MatchesLast ==
    ASSUME TypeOK, Layered, Leaving, RootDestroy, RootMatches(variables, Top.i, Top.own)
    PROVE  Top.i = Len(variables.insts) /\ variables.insts[Top.i].root = Top.own
<1>1. /\ stack # <<>> /\ Running /\ Top \in Frame /\ Top.i \in Nat /\ Top.i > 0
      /\ Top.pc \in {"leave", "unwind"}
  <2>1. Running /\ Top.i > 0 /\ Top.pc \in {"leave", "unwind"}
    BY DEF RootDestroy, At_
  <2> QED
    BY <2>1, RunningType
<1>2. PICK n \in Nat : n = Len(variables.insts) /\ DOMAIN variables.insts = 1 .. n
  BY VariablesIndexed
<1>3. Top.i <= n /\ \A j \in 1 .. n : j > Top.i => variables.insts[j].root # Top.own
  BY <1>1, <1>2 DEF Leaving
<1>4. variables.insts[Top.i].root = Top.own
  BY DEF RootMatches
<1>5. SUFFICES ASSUME Top.i # n PROVE FALSE
  BY <1>2, <1>4
<1>6. n \in DOMAIN variables.insts /\ Top.i \in DOMAIN variables.insts /\ Top.i <= n
  BY <1>1, <1>2, <1>3
<1>7. PICK p \in Nat : p = Len(stack) /\ p \in DOMAIN stack /\ DOMAIN stack = 1 .. p
  <2>1. Len(stack) >= 1
    BY <1>1, TopType
  <2>2. Len(stack) \in Nat /\ DOMAIN stack = 1 .. Len(stack)
    BY VariablesIndexed
  <2>3. Len(stack) \in DOMAIN stack
    BY <2>1, <2>2
  <2> QED
    BY <2>2, <2>3
<1>8. Level(p, Top.i)
  BY <1>4, <1>7 DEF Level, Top
<1>9. PICK g \in DOMAIN stack : Level(g, n)
  BY <1>6 DEF Layered
<1>10. p <= g
  BY <1>6, <1>7, <1>8, <1>9 DEF Layered
<1>11. g = p
  BY <1>7, <1>10
<1>12. variables.insts[n].root = Top.own
  BY <1>7, <1>9, <1>11 DEF Level, Top
<1> QED
  BY <1>1, <1>2, <1>3, <1>5, <1>6, <1>12

\* One iteration of cwr_scope_root_destroy: an entry of the body that is being
\* left is the last of the array, so what is dropped is the entry that matches.
LEMMA DropLeaving ==
    ASSUME TypeOK, Layered, Leaving, RootDestroy
    PROVE  Remain(Len(stack)) /\ Layered' /\ Leaving'
<1>1. /\ stack # <<>> /\ Running /\ Top \in Frame /\ Top.i \in Nat /\ Top.i > 0
      /\ Top.pc \in {"leave", "unwind"}
  <2>1. Running /\ Top.i > 0 /\ Top.pc \in {"leave", "unwind"}
    BY DEF RootDestroy, At_
  <2> QED
    BY <2>1, RunningType
<1> DEFINE k == Top.i - 1
           f == [Top EXCEPT !.i = k]
<1>3. Same(f, Top) /\ f.pc = Top.pc /\ f.own = Top.own /\ f.i = k
  BY <1>1 DEF Frame, Same
<1>4. stack' = SetTop(f)
  BY DEF RootDestroy
<1>5. k \in Nat
  BY <1>1
<1> HIDE DEF f
<1>7. Remain(Len(stack)) /\ Top' = f /\ stack' # <<>>
  BY <1>1, <1>3, <1>4, MoveRemains
<1>8. PICK n \in Nat : n = Len(variables.insts) /\ DOMAIN variables.insts = 1 .. n
  BY VariablesIndexed
<1>9. Top.i <= n /\ \A j \in 1 .. n : j > Top.i => variables.insts[j].root # Top.own
  BY <1>1, <1>8 DEF Leaving
<1>10. CASE RootMatches(variables, Top.i, Top.own)
  <2>1. variables' = DropLast(variables) /\ variables.insts[Top.i].root = Top.own
    BY <1>10 DEF RootDestroy, RootMatches
  <2>2. Top.i = n
    BY <1>8, <1>10, MatchesLast
  <2>3. variables.insts # <<>>
    BY <1>1, <1>8, <2>2
  <2>4. /\ Layered' /\ Len(variables'.insts) = Len(variables.insts) - 1
        /\ DOMAIN variables'.insts = 1 .. Len(variables.insts) - 1
    BY <1>7, <2>1, <2>3, DropLayered
  <2>5. Leaving'
    <3>1. Len(variables'.insts) = k /\ DOMAIN variables'.insts = 1 .. k
      BY <1>8, <2>2, <2>4
    <3>2. ~\E j \in 1 .. k : j > k
      BY <1>5
    <3> QED
      BY <1>3, <1>5, <1>7, <3>1, <3>2 DEF Leaving
  <2> QED
    BY <1>7, <2>4, <2>5
<1>11. CASE ~RootMatches(variables, Top.i, Top.own)
  <2>1. variables' = variables
    BY <1>11 DEF RootDestroy
  <2>2. Layered'
    <3>1. SameRoots /\ Below(Len(stack))
      BY <2>1, VariablesIndexed DEF SameRoots, Layered, Below
    <3> QED
      BY <1>7, <3>1, KeepLayered
  <2>3. variables.insts[Top.i].root # Top.own
    BY <1>1, <1>8, <1>9, <1>11 DEF RootMatches
  <2>4. \A j \in 1 .. n : j > k => variables.insts[j].root # Top.own
    <3> SUFFICES ASSUME NEW j \in 1 .. n, j > k PROVE variables.insts[j].root # Top.own
      OBVIOUS
    <3>1. j = Top.i \/ j > Top.i
      BY <1>1
    <3> QED
      BY <1>9, <2>3, <3>1
  <2>5. k <= n
    BY <1>1, <1>8, <1>9
  <2>6. Leaving'
    BY <1>3, <1>7, <1>8, <2>1, <2>4, <2>5 DEF Leaving
  <2> QED
    BY <1>7, <2>2, <2>6
<1> QED
  BY <1>10, <1>11

LEMMA DropsLast ==
    ASSUME TypeOK, NEW quiet, Core(quiet), RootDestroy, RootMatches(variables, Top.i, Top.own)
    PROVE  Top.i = Len(variables.insts) /\ variables.insts[Top.i].root = Top.own
BY MatchesLast DEF Core

LEMMA DropCore ==
    ASSUME TypeOK, NEW quiet, Core(quiet), RootDestroy
    PROVE  Core(quiet)'
<1>1. Running /\ Top.pc \in {"leave", "unwind"} /\ Top.node.kind \in {"func", "for"}
  BY DEF RootDestroy, At_
<1>2. stack # <<>> /\ Top \in Frame /\ Top.i \in Nat
  BY <1>1, RunningType
<1>3. Ready(Top, quiet)
  BY <1>2 DEF Core, Stacked, Frames
<1> DEFINE f == [Top EXCEPT !.i = @ - 1]
<1>4. /\ f.node = Top.node /\ f.chain = Top.chain /\ f.own = Top.own /\ f.pc = Top.pc
      /\ f.got = Top.got
  BY <1>2 DEF Frame
<1>5. stack' = SetTop(f)
  BY DEF RootDestroy
<1> HIDE DEF f
<1>6. Same(f, Top) /\ Ready(f, quiet)
  BY <1>1, <1>3, <1>4 DEF Same, Ready, One, Nothing, InAt, Pair
<1>7. Stacked(quiet)'
  BY <1>2, <1>5, <1>6, MoveStacked DEF Core
<1> QED
  BY <1>7, DropLeaving DEF Core

(***************************************************************************)
(* Each action, while nothing goes wrong.                                  *)
(***************************************************************************)
\* What is known of the running frame.
LEMMA TopFacts ==
    ASSUME TypeOK, Running, NEW quiet, Tame(quiet), Core(quiet)
    PROVE  /\ stack # <<>> /\ Top \in Frame /\ Top.node \in Node /\ Ready(Top, quiet)
           /\ OwnOK(Top) /\ ChainOK(Top) /\ Parsed(Top.node)
<1>1. stack # <<>> /\ Top \in Frame /\ Top.node \in Node
  BY RunningType
<1>2. Len(stack) \in DOMAIN stack
  BY <1>1 DEF TypeOK
<1>3. Ready(Top, quiet) /\ OwnOK(Top) /\ ChainOK(Top)
  BY <1>1, <1>2 DEF Core, Stacked, Frames, Top
<1>4. Parsed(Top.node)
  BY <1>1 DEF Tame
<1> QED
  BY <1>1, <1>3, <1>4

\* Nothing happens to the activations and the variables.
LEMMA StayCore ==
    ASSUME NEW quiet, Core(quiet), UNCHANGED <<stack, variables>>
    PROVE  Core(quiet)'
BY DEF Core, Stacked, Frames, Distinct, Enclosed, Innermost, Shielded, NoEntry, Layered,
       Level, Leaving, Top

\* The return of an activation that owns no body, and answers for no body.
LEMMA LeafCore ==
    ASSUME TypeOK, Running, NEW quiet, Tame(quiet), Core(quiet), NEW v, Return(v), SameRoots,
           Top.node.kind \notin {"body", "if", "for", "func"}
    PROVE  Core(quiet)'
<1>1. Top.own = GlobalScope /\ stack # <<>>
  BY TopFacts DEF OwnOK, OwnsBody
<1> QED
  BY <1>1, OwnsNone, PopCore DEF Core

\* A child of an activation that owns no body.
LEMMA ChildCore ==
    ASSUME TypeOK, Running, NEW quiet, Tame(quiet), Core(quiet), NEW f \in Frame, Same(f, Top),
           Top.node.kind \notin {"for", "func"},
           NEW k \in DOMAIN Top.node.kids, Waits(f, k),
           Evaluate(f, Child(k), Top.chain), UNCHANGED variables
    PROVE  Core(quiet)'
<1>1. Top.own = GlobalScope /\ stack # <<>>
  BY TopFacts DEF OwnOK, OwnsBody
<1>2. /\ f.node = Top.node /\ Seen(f) = Top.chain /\ Child(k) = f.node.kids[k]
      /\ k \in DOMAIN f.node.kids
  BY <1>1 DEF Same, Seen, Child
<1>3. Evaluate(f, f.node.kids[k], Seen(f))
  BY <1>2
<1> QED
  BY <1>1, <1>2, <1>3, EvaluateCore

\* A running frame that has only been moved on.
LEMMA GoOnCore ==
    ASSUME TypeOK, Running, NEW quiet, Core(quiet), NEW f, Same(f, Top), Ready(f, quiet),
           stack' = SetTop(f), f.pc \notin {"leave", "unwind"}, UNCHANGED variables
    PROVE  Core(quiet)'
BY MoveCore DEF Running

\* Nothing has gone wrong, and does not now.
Fine == Sane /\ Sane'

LEMMA LiteralCore ==
    ASSUME TypeOK, NEW quiet, Tame(quiet), Core(quiet), Fine,
           Literal \/ StringBlock \/ StringValue \/ Variable
    PROVE  Core(quiet)'
<1>1. Running /\ UNCHANGED variables /\ Top.node.kind \in {"literal", "string", "var"}
  BY DEF Literal, StringBlock, StringValue, Variable, At_
<1>2. SameRoots
  BY <1>1 DEF SameRoots
<1>3. CASE Literal
  <2>1. PICK v : Return(v)
    BY <1>3 DEF Literal
  <2> QED
    BY <1>1, <1>2, <2>1, LeafCore
<1>4. CASE StringBlock
  <2>1. stack' = SetTop([Top EXCEPT !.pc = "value", !.blk = New(mem)])
    BY <1>4 DEF StringBlock, Fine, Sane
  <2> DEFINE f == [Top EXCEPT !.pc = "value", !.blk = New(mem)]
  <2>2. f.pc = "value" /\ f.node = Top.node /\ f.chain = Top.chain /\ f.own = Top.own
        /\ f.got = Top.got
    BY <1>1, TopFacts DEF Frame
  <2> HIDE DEF f
  <2>3. Same(f, Top) /\ Ready(f, quiet)
    BY <1>1, <1>4, <2>2 DEF Same, Ready, One, Nothing, InAt, Pair, StringBlock, At_
  <2> QED
    BY <1>1, <2>1, <2>2, <2>3, GoOnCore DEF f
<1>5. CASE StringValue
  <2>1. PICK v : Return(v)
    BY <1>5 DEF StringValue
  <2> QED
    BY <1>1, <1>2, <2>1, LeafCore
<1>6. CASE Variable
  <2>1. (UNCHANGED stack) \/ \E v : Return(v)
    BY <1>6 DEF Variable
  <2> QED
    BY <1>1, <1>2, <2>1, LeafCore, StayCore
<1> QED
  BY <1>3, <1>4, <1>5, <1>6

LEMMA UnaryCore ==
    ASSUME TypeOK, NEW quiet, Tame(quiet), Core(quiet), Fine,
           UnaryStart \/ UnaryFailed \/ UnaryNew \/ UnaryFollow \/ ReferenceValue
           \/ ReferenceSlot \/ UnaryOther
    PROVE  Core(quiet)'
<1>1. Running /\ UNCHANGED variables /\ Top.node.kind = "unary"
  BY DEF UnaryStart, UnaryFailed, UnaryNew, UnaryFollow, ReferenceValue, ReferenceSlot,
         UnaryOther, At_
<1>2. SameRoots
  BY <1>1 DEF SameRoots
<1>3. Top \in Frame /\ Top.node \in Node /\ Ready(Top, quiet)
  BY <1>1, TopFacts
<1>4. ~failed
  BY DEF Fine, Sane
<1>5. CASE UnaryStart
  <2> DEFINE f == [Top EXCEPT !.pc = "operand"]
  <2>1. f \in Frame /\ f.pc = "operand" /\ f.got = Top.got /\ Same(f, Top)
        /\ f.node = Top.node
    BY <1>3, PointType DEF Frame, Same
  <2>2. Evaluate(f, Child(1), Top.chain) /\ Top.pc = "start"
    BY <1>5 DEF UnaryStart, At_
  <2> HIDE DEF f
  <2>3. Waits(f, 1)
    BY <1>1, <1>3, <2>1, <2>2 DEF Waits, InAt, Ready, Nothing
  <2>4. 1 \in DOMAIN Top.node.kids
    BY <1>1, <1>3, ArityType, NodeType
  <2> QED
    BY <1>1, <2>1, <2>2, <2>3, <2>4, ChildCore
<1>6. CASE UnaryFailed
  BY <1>4, <1>6 DEF UnaryFailed
<1>7. CASE UnaryNew
  <2>1. PICK v : Return(v)
    BY <1>7 DEF UnaryNew
  <2> QED
    BY <1>1, <1>2, <2>1, LeafCore
<1>8. CASE UnaryFollow
  <2>1. PICK v : Return(v)
    BY <1>8 DEF UnaryFollow
  <2> QED
    BY <1>1, <1>2, <2>1, LeafCore
<1>9. CASE ReferenceValue
  <2> DEFINE f == [Top EXCEPT !.pc = "slot", !.blk = New(mem)]
  <2>1. stack' = SetTop(f) /\ Top.pc = "operand"
    BY <1>9 DEF ReferenceValue, At_, Fine, Sane
  <2>2. f.pc = "slot" /\ f.node = Top.node /\ f.got = Top.got /\ Same(f, Top)
    BY <1>3 DEF Frame, Same
  <2> HIDE DEF f
  <2>3. Ready(f, quiet)
    BY <1>1, <1>3, <2>1, <2>2 DEF Ready, One, Nothing, InAt, Pair
  <2> QED
    BY <1>1, <2>1, <2>2, <2>3, GoOnCore
<1>10. CASE ReferenceSlot
  <2>1. PICK v : Return(v)
    BY <1>10 DEF ReferenceSlot
  <2> QED
    BY <1>1, <1>2, <2>1, LeafCore
<1>11. CASE UnaryOther
  <2>1. Return(Got(1))
    BY <1>11 DEF UnaryOther
  <2> QED
    BY <1>1, <1>2, <2>1, LeafCore
<1> QED
  BY ONLY UnaryStart \/ UnaryFailed \/ UnaryNew \/ UnaryFollow \/ ReferenceValue
          \/ ReferenceSlot \/ UnaryOther, <1>5, <1>6, <1>7, <1>8, <1>9, <1>10, <1>11

LEMMA PairCore ==
    ASSUME TypeOK, NEW quiet, Tame(quiet), Core(quiet), Fine,
           LeftOperand \/ RightOperand \/ OperandFailed \/ Binary \/ ArrayElement
    PROVE  Core(quiet)'
<1>1. Running /\ UNCHANGED variables /\ Top.node.kind \in {"binary", "element"}
  BY DEF LeftOperand, RightOperand, OperandFailed, Binary, ArrayElement, At_, Pair
<1>2. SameRoots
  BY <1>1 DEF SameRoots
<1>3. Top \in Frame /\ Top.node \in Node /\ Ready(Top, quiet)
  BY <1>1, TopFacts
<1>4. ~failed
  BY DEF Fine, Sane
<1>5. 1 \in DOMAIN Top.node.kids /\ 2 \in DOMAIN Top.node.kids
  BY <1>1, <1>3, ArityType, NodeType
<1>6. CASE LeftOperand
  <2> DEFINE f == [Top EXCEPT !.pc = "left"]
  <2>1. f \in Frame /\ f.pc = "left" /\ f.got = Top.got /\ Same(f, Top) /\ f.node = Top.node
    BY <1>3, PointType DEF Frame, Same
  <2>2. Evaluate(f, Child(1), Top.chain) /\ Top.pc = "start"
    BY <1>6 DEF LeftOperand, At_
  <2> HIDE DEF f
  <2>3. Waits(f, 1)
    BY <1>1, <1>3, <2>1, <2>2 DEF Waits, InAt, Ready, Nothing, Pair
  <2> QED
    BY <1>1, <1>5, <2>1, <2>2, <2>3, ChildCore
<1>7. CASE RightOperand
  <2> DEFINE f == [Top EXCEPT !.pc = "right"]
  <2>1. f \in Frame /\ f.pc = "right" /\ f.got = Top.got /\ Same(f, Top) /\ f.node = Top.node
    BY <1>3, PointType DEF Frame, Same
  <2>2. Evaluate(f, Child(2), Top.chain) /\ Top.pc = "left"
    BY <1>4, <1>7 DEF RightOperand, At_
  <2> HIDE DEF f
  <2>3. Waits(f, 2)
    BY <1>1, <1>3, <2>1, <2>2 DEF Waits, InAt, Ready, One, Pair
  <2> QED
    BY <1>1, <1>5, <2>1, <2>2, <2>3, ChildCore
<1>8. CASE OperandFailed
  BY <1>4, <1>8 DEF OperandFailed
<1>9. CASE Binary
  <2>1. PICK v : Return(v)
    BY <1>9 DEF Binary
  <2> QED
    BY <1>1, <1>2, <2>1, LeafCore
<1>10. CASE ArrayElement
  <2>1. PICK v : Return(v)
    BY <1>10 DEF ArrayElement
  <2> QED
    BY <1>1, <1>2, <2>1, LeafCore
<1> QED
  BY <1>6, <1>7, <1>8, <1>9, <1>10

LEMMA CallerCore ==
    ASSUME TypeOK, NEW quiet, Tame(quiet), Core(quiet), Fine,
           CallStart \/ CallArgument \/ CallFailed \/ CallEnter \/ CallReturn
    PROVE  Core(quiet)'
<1>1. Running /\ UNCHANGED variables /\ Top.node.kind = "call"
  BY DEF CallStart, CallArgument, CallFailed, CallEnter, CallReturn, At_
<1>2. SameRoots
  BY <1>1 DEF SameRoots
<1>3. /\ Top \in Frame /\ Top.node \in Node /\ Ready(Top, quiet) /\ Top.own = GlobalScope
      /\ stack # <<>> /\ Top.got \in Seq(Pointers)
  BY <1>1, TopFacts DEF OwnOK, OwnsBody, Frame
<1>4. ~failed
  BY DEF Fine, Sane
<1>5. CASE CallStart
  <2>1. stack' = SetTop([Top EXCEPT !.pc = "arguments", !.blk = New(mem)])
    BY <1>5 DEF CallStart, Fine, Sane
  <2> DEFINE f == [Top EXCEPT !.pc = "arguments", !.blk = New(mem)]
  <2>2. f.pc = "arguments" /\ f.node = Top.node /\ f.chain = Top.chain /\ f.own = Top.own
        /\ f.got = Top.got
    BY <1>3 DEF Frame
  <2> HIDE DEF f
  <2>3. Same(f, Top) /\ Ready(f, quiet)
    BY <1>1, <2>2 DEF Same, Ready, One, Nothing, InAt, Pair
  <2> QED
    BY <1>1, <2>1, <2>2, <2>3, GoOnCore DEF f
<1>6. CASE CallArgument
  <2> DEFINE k == Len(Top.got) + 1
  <2>1. Evaluate(Top, Child(k), Top.chain) /\ Top.pc = "arguments"
    BY <1>6 DEF CallArgument, At_
  <2>2. k \in DOMAIN Top.node.kids
    <3>1. Len(Top.got) < Len(Top.node.kids) /\ Len(Top.got) \in Nat
      BY <1>3, <1>6 DEF CallArgument
    <3>2. Top.node.kids \in Seq(Node)
      BY <1>3, NodeType
    <3> QED
      BY <3>1, <3>2
  <2>3. Waits(Top, k) /\ Same(Top, Top)
    BY <1>1, <2>1 DEF Waits, InAt, Same
  <2> HIDE DEF k
  <2> QED
    BY <1>1, <1>3, <2>1, <2>2, <2>3, ChildCore
<1>7. CASE CallFailed
  BY <1>4, <1>7 DEF CallFailed
<1>8. CASE CallEnter
  <2>1. CASE Callee = 0
    BY <1>1, <1>8, <2>1, StayCore DEF CallEnter
  <2>2. CASE Callee # 0
    <3> DEFINE n == functions.insts[Callee].val
               f == [Top EXCEPT !.pc = "await", !.got = <<>>, !.blk = NULL]
    <3>1. PICK b : /\ b \in IF IsBind(n) THEN {GlobalScope} ELSE Body \ OwnedBodies
                   /\ stack' = Append(SetTop(f), [NewFrame(n, <<>>, b) EXCEPT !.got = Top.got,
                                                                             !.blk = Top.blk])
      BY <1>8, <2>2 DEF CallEnter
    <3> DEFINE g == [NewFrame(n, <<>>, b) EXCEPT !.got = Top.got, !.blk = Top.blk]
    <3>2. g.node = n /\ g.own = b /\ g.pc = "start" /\ g.chain = <<>>
      BY DEF NewFrame
    <3>3. /\ f.node = Top.node /\ f.pc = "await" /\ f.got = <<>> /\ Same(f, Top)
          /\ f \in Frame
      <4>1. <<>> \in Seq(Pointers) /\ NULL \in Pointers
        BY DEF Pointers
      <4> QED
        BY <1>3, <4>1, PointType DEF Frame, Same
    <3>4. n \in Node /\ n.kind = "func"
      <4>1. Callee \in DOMAIN functions.insts
        BY <2>2, GetType DEF Callee
      <4>2. functions.insts \in Seq(FunctionInstance)
        BY DEF TypeOK
      <4>3. functions.insts[Callee] \in FunctionInstance
        BY <4>1, <4>2
      <4> QED
        BY <4>3 DEF FunctionInstance
    <3> HIDE DEF f, g, n
    <3>5. WaitsFor(f, g)
      BY <1>1, <3>2, <3>3, <3>4 DEF WaitsFor, InAt
    <3>6. OwnOK(g) /\ g.own \in (Body \ OwnedBodies) \cup {GlobalScope}
      BY <3>1, <3>2, <3>4 DEF OwnOK, OwnsBody
    <3>7. Called(f, g)
      BY <1>1, <3>2, <3>3, <3>4, <3>5, <3>6 DEF Called
    <3>8. stack' = Append(SetTop(f), g)
      BY <3>1 DEF f, g
    <3> QED
      BY <1>1, <1>3, <3>3, <3>7, <3>8, PushCore
  <2> QED
    BY <2>1, <2>2
<1>9. CASE CallReturn
  <2>1. PICK v : Return(v)
    BY <1>9 DEF CallReturn
  <2> QED
    BY <1>1, <1>2, <2>1, LeafCore
<1> QED
  BY <1>5, <1>6, <1>7, <1>8, <1>9

LEMMA BindCore ==
    ASSUME TypeOK, NEW quiet, Tame(quiet), Core(quiet), Fine,
           BindPrint \/ BindDrop \/ BindReturn
    PROVE  Core(quiet)'
<1>1. /\ Running /\ UNCHANGED variables /\ Top.node.kind = "func"
      /\ Top.pc \in {"start", "drop"}
  BY DEF BindPrint, BindDrop, BindReturn, At_
<1>2. /\ Top \in Frame /\ Top.node \in Node /\ Ready(Top, quiet) /\ stack # <<>>
  BY <1>1, TopFacts
<1>3. CASE BindPrint
  <2> DEFINE f == [Top EXCEPT !.pc = "drop"]
  <2>1. f.pc = "drop" /\ f.node = Top.node /\ f.got = Top.got /\ Same(f, Top)
    BY <1>2 DEF Frame, Same
  <2>2. stack' = SetTop(f)
    BY <1>3 DEF BindPrint
  <2> HIDE DEF f
  <2>3. Ready(f, quiet)
    <3>1. Top.own = GlobalScope
      BY <1>1, <1>3, TopFacts DEF OwnOK, OwnsBody, BindPrint
    <3> QED
      BY <1>1, <2>1, <3>1 DEF Ready, One, Nothing, InAt, Pair, Same
  <2> QED
    BY <1>1, <2>1, <2>2, <2>3, GoOnCore
<1>4. CASE BindDrop
  <2> DEFINE f == [Top EXCEPT !.i = @ + 1]
  <2>1. f.pc = Top.pc /\ f.node = Top.node /\ f.got = Top.got /\ Same(f, Top)
        /\ f.pc = "drop"
    BY <1>2, <1>4 DEF Frame, Same, BindDrop, At_
  <2>2. stack' = SetTop(f)
    BY <1>4 DEF BindDrop
  <2> HIDE DEF f
  <2>3. Ready(f, quiet)
    BY <1>1, <1>2, <2>1 DEF Ready, One, Nothing, InAt, Pair, Same
  <2> QED
    BY <1>1, <2>1, <2>2, <2>3, GoOnCore
<1>5. CASE BindReturn
  <2>1. PICK v : Return(v)
    BY <1>5 DEF BindReturn
  <2>2. Top.own = GlobalScope
    BY <1>2, <1>5 DEF BindReturn, At_, Ready
  <2>3. SameRoots
    BY <1>1 DEF SameRoots
  <2> QED
    BY <1>1, <1>2, <2>1, <2>2, <2>3, OwnsNone, PopCore DEF Core
<1> QED
  BY <1>3, <1>4, <1>5

LEMMA FunctionCore ==
    ASSUME TypeOK, NEW quiet, Tame(quiet), Core(quiet), Fine,
           FunctionArgument \/ FunctionBody \/ FunctionLeave \/ RootDestroy
           \/ FunctionReturn \/ FunctionOutOfMemory
    PROVE  Core(quiet)'
<1>1. CASE RootDestroy
  BY <1>1, DropCore
<1>2. CASE FunctionArgument \/ FunctionBody \/ FunctionLeave \/ FunctionReturn
           \/ FunctionOutOfMemory
  <2>1. Running /\ Top.node.kind = "func"
    BY <1>2 DEF FunctionArgument, FunctionBody, FunctionLeave, FunctionReturn,
                FunctionOutOfMemory, At_
  <2>2. /\ Top \in Frame /\ Top.node \in Node /\ Ready(Top, quiet) /\ stack # <<>>
        /\ OwnOK(Top) /\ ChainOK(Top) /\ Top.i \in Nat /\ Top.got \in Seq(Pointers)
    BY <2>1, TopFacts, RunningType
  <2>3. CASE FunctionArgument
    <3> DEFINE v == Got(Top.i + 1)
    <3>1. Top.own \in Body /\ Top.own # GlobalScope /\ Top.pc = "start"
      BY <2>1, <2>2, <2>3, BodyAssumption DEF OwnOK, OwnsBody, FunctionArgument, At_
    <3>2. CASE Top.i + 1 \notin DOMAIN Top.node.params \/ v = NULL
      BY <2>3, <3>2, StayCore DEF FunctionArgument
    <3>3. CASE ~(Top.i + 1 \notin DOMAIN Top.node.params \/ v = NULL)
      <4> DEFINE id == Top.node.params[Top.i + 1]
                 f == [Top EXCEPT !.i = @ + 1]
      <4>1. PICK ok \in BOOLEAN :
                /\ AddVariable(ok, Instance(Top.own, id, v))
                /\ stack' = SetTop(IF ok THEN f ELSE [Top EXCEPT !.pc = "unwind",
                                                                 !.i = RootStart])
        BY <2>3, <3>3 DEF FunctionArgument
      <4>2. CASE ~ok
        <5> DEFINE g == [Top EXCEPT !.pc = "unwind", !.i = RootStart]
        <5>1. stack' = SetTop(g) /\ UNCHANGED variables
          BY <4>1, <4>2 DEF AddVariable
        <5>2. g.pc = "unwind" /\ g.node = Top.node /\ g.got = Top.got /\ Same(g, Top)
              /\ g.i = Len(variables.insts)
          BY <2>2 DEF Frame, Same, RootStart
        <5> HIDE DEF g
        <5>3. Ready(g, quiet)
          BY <2>1, <5>2 DEF Ready, One, Nothing, InAt, Pair
        <5> QED
          BY <2>2, <5>1, <5>2, <5>3, MoveCore
      <4> SUFFICES ASSUME ok PROVE Core(quiet)'
        BY <4>2
      <4>3. variables' = Add(variables, Instance(Top.own, id, v)) /\ stack' = SetTop(f)
        BY <4>1 DEF AddVariable
      <4>4. f.pc = "start" /\ f.node = Top.node /\ f.got = Top.got /\ Same(f, Top)
        BY <2>2, <3>1 DEF Frame, Same
      <4>5. Ready(f, quiet)
        <5> HIDE DEF f
        <5> QED
          BY <2>1, <4>4 DEF Ready, One, Nothing, InAt, Pair
      <4>6. Instance(Top.own, id, v) \in VariableInstance
        <5>1. Top.node.params \in Seq(Id)
          BY <2>2, NodeType
        <5>2. id \in Id
          BY <3>3, <5>1
        <5>3. v \in Addr
          BY <2>2, <3>3, GotType DEF Pointers
        <5> HIDE DEF id, v
        <5> QED
          BY <3>1, <5>2, <5>3 DEF Instance, VariableInstance
      <4> HIDE DEF f, id, v
      <4> QED
        BY <2>2, <3>1, <4>3, <4>4, <4>5, <4>6, AddCore
    <3> QED
      BY <3>2, <3>3
  <2>4. CASE FunctionBody
    <3> DEFINE f == [Top EXCEPT !.pc = "body", !.got = <<>>, !.blk = NULL]
    <3>1. Top.own \in Body /\ Top.own # GlobalScope /\ UNCHANGED variables
      BY <2>1, <2>2, <2>4, BodyAssumption DEF OwnOK, OwnsBody, FunctionBody
    <3>2. /\ f \in Frame /\ f.pc = "body" /\ f.got = <<>> /\ f.node = Top.node
          /\ Same(f, Top)
      <4>1. <<>> \in Seq(Pointers) /\ NULL \in Pointers
        BY DEF Pointers
      <4> QED
        BY <2>2, <4>1, PointType DEF Frame, Same
    <3>3. Evaluate(f, Child(1), Chain)
      BY <2>4 DEF FunctionBody
    <3> HIDE DEF f
    <3>4. Waits(f, 1) /\ 1 \in DOMAIN f.node.kids
      <4>1. 1 \in DOMAIN Top.node.kids
        BY <2>1, <2>2, ArityType, NodeType
      <4> QED
        BY <2>1, <3>2, <4>1 DEF Waits, InAt
    <3>5. Child(1) = f.node.kids[1] /\ Chain = Seen(f) /\ f.own # GlobalScope
      BY <3>1, <3>2 DEF Child, Chain, Seen, Same
    <3> QED
      BY <2>2, <3>1, <3>2, <3>3, <3>4, <3>5, EvaluateCore
  <2>5. CASE FunctionLeave
    <3> DEFINE f == [Top EXCEPT !.pc = "leave", !.i = RootStart]
    <3>1. f.pc = "leave" /\ f.node = Top.node /\ f.got = Top.got /\ Same(f, Top)
          /\ f.i = Len(variables.insts)
      BY <2>2 DEF Frame, Same, RootStart
    <3>2. stack' = SetTop(f) /\ UNCHANGED variables /\ Top.pc = "body"
      BY <2>5 DEF FunctionLeave, At_
    <3> HIDE DEF f
    <3>3. Ready(f, quiet)
      BY <2>1, <2>2, <3>1, <3>2 DEF Ready, One, Nothing, InAt, Pair
    <3> QED
      BY <2>2, <3>1, <3>2, <3>3, MoveCore
  <2>6. CASE FunctionReturn
    <3>1. PICK v : Return(v)
      BY <2>6 DEF FunctionReturn
    <3>2. UNCHANGED variables /\ Top.pc = "leave" /\ Top.i = 0
      BY <2>6 DEF FunctionReturn, At_
    <3>3. SameRoots
      BY <3>2 DEF SameRoots
    <3>4. \A j \in DOMAIN variables.insts : variables.insts[j].root # Top.own
      BY <2>2, <3>2, VariablesIndexed DEF Core, Leaving
    <3> QED
      BY <2>1, <2>2, <3>1, <3>3, <3>4, PopCore
  <2>7. CASE FunctionOutOfMemory
    BY <2>7 DEF FunctionOutOfMemory, Fine, Sane
  <2> QED
    BY <1>2, <2>3, <2>4, <2>5, <2>6, <2>7
<1> QED
  BY <1>1, <1>2

LEMMA BodyCore ==
    ASSUME TypeOK, NEW quiet, Tame(quiet), Core(quiet), Fine,
           BodyStatement \/ BodyResult \/ BodyEnd
    PROVE  Core(quiet)'
<1>1. Running /\ UNCHANGED variables /\ Top.node.kind = "body"
  BY DEF BodyStatement, BodyResult, BodyEnd, At_
<1>2. SameRoots
  BY <1>1 DEF SameRoots
<1>3. /\ Top \in Frame /\ Top.node \in Node /\ Ready(Top, quiet) /\ stack # <<>>
      /\ Top.own = GlobalScope /\ Top.i \in Nat /\ Top.node.kids \in Seq(Node)
      /\ Top.got \in Seq(Pointers)
  BY <1>1, TopFacts, RunningType, NodeType DEF OwnOK, OwnsBody
<1>4. ~failed
  BY DEF Fine, Sane
<1>5. CASE BodyStatement
  <2> DEFINE k == Top.i + 1
             f == [Top EXCEPT !.pc = "result", !.i = k]
  <2>1. Evaluate(f, Child(k), Top.chain) /\ Top.pc = "start" /\ Top.i < Len(Top.node.kids)
    BY <1>5 DEF BodyStatement, At_
  <2>2. k \in DOMAIN Top.node.kids /\ k \in Nat
    BY <1>3, <2>1
  <2> HIDE DEF k
  <2>3. f \in Frame /\ f.pc = "result" /\ f.i = k /\ f.got = Top.got /\ Same(f, Top)
        /\ f.node = Top.node
    BY <1>3, <2>2, PointType DEF Frame, Same
  <2> HIDE DEF f
  <2>4. Waits(f, k)
    BY <1>1, <1>3, <2>1, <2>3 DEF Waits, InAt, Ready, Nothing
  <2> QED
    BY <1>1, <2>1, <2>2, <2>3, <2>4, ChildCore
<1>6. CASE BodyResult
  <2>1. Top.pc = "result" /\ Top.i \in DOMAIN Top.node.kids /\ Len(Top.got) = 1
    BY <1>1, <1>3, <1>6 DEF BodyResult, At_, Ready, One, InAt
  <2>2. Got(1) = Top.got[1]
    BY <1>3, <2>1 DEF Got
  <2>3. CASE EndsEarly(Child(Top.i))
    <3>1. Return(Got(1))
      BY <1>6, <2>3 DEF BodyResult
    <3>2. Top.node \in quiet => Got(1) = NULL
      <4> SUFFICES ASSUME Top.node \in quiet PROVE Got(1) = NULL
        OBVIOUS
      <4>1. Child(Top.i).kind # "return"
        BY <2>1 DEF Tame, Quiet, Child
      <4>2. IsBlock(Child(Top.i)) => Got(1) = NULL
        BY <1>1, <1>3, <2>1, <2>2 DEF Ready, InAt, Child
      <4> QED
        BY <1>4, <2>3, <4>1, <4>2 DEF EndsEarly
    <3> QED
      BY <1>1, <1>2, <1>3, <3>1, <3>2, OwnsNone, PopCore DEF Core
  <2>4. CASE ~EndsEarly(Child(Top.i))
    <3> DEFINE f == [Top EXCEPT !.pc = "start", !.got = <<>>]
    <3>1. f.pc = "start" /\ f.node = Top.node /\ f.got = <<>> /\ Same(f, Top)
      BY <1>3 DEF Frame, Same
    <3>2. stack' = SetTop(f)
      BY <1>6, <2>4 DEF BodyResult
    <3> HIDE DEF f
    <3>3. Ready(f, quiet)
      BY <1>1, <3>1 DEF Ready, One, Nothing, InAt, Pair
    <3> QED
      BY <1>1, <3>1, <3>2, <3>3, GoOnCore
  <2> QED
    BY <2>3, <2>4
<1>7. CASE BodyEnd
  <2>1. Return(NULL)
    BY <1>7 DEF BodyEnd
  <2> QED
    BY <1>1, <1>2, <1>3, <2>1, OwnsNone, PopCore DEF Core
<1> QED
  BY <1>5, <1>6, <1>7

LEMMA IfCore ==
    ASSUME TypeOK, NEW quiet, Tame(quiet), Core(quiet), Fine,
           IfStart \/ IfCondition \/ IfReturn
    PROVE  Core(quiet)'
<1>1. Running /\ UNCHANGED variables /\ Top.node.kind = "if"
  BY DEF IfStart, IfCondition, IfReturn, At_
<1>2. SameRoots
  BY <1>1 DEF SameRoots
<1>3. /\ Top \in Frame /\ Top.node \in Node /\ Ready(Top, quiet) /\ stack # <<>>
      /\ Top.own = GlobalScope /\ Top.got \in Seq(Pointers)
  BY <1>1, TopFacts, RunningType DEF OwnOK, OwnsBody
<1>4. 1 \in DOMAIN Top.node.kids /\ 2 \in DOMAIN Top.node.kids
  BY SMTT(30), <1>1, <1>3, ArityType, NodeType
<1>5. CASE IfStart
  <2> DEFINE f == [Top EXCEPT !.pc = "condition"]
  <2>1. f \in Frame /\ f.pc = "condition" /\ f.got = Top.got /\ Same(f, Top) /\ f.node = Top.node
    BY <1>3, PointType DEF Frame, Same
  <2>2. Evaluate(f, Child(1), Top.chain) /\ Top.pc = "start"
    BY <1>5 DEF IfStart, At_
  <2> HIDE DEF f
  <2>3. Waits(f, 1)
    BY <1>1, <1>3, <2>1, <2>2 DEF Waits, InAt, Ready, Nothing
  <2> QED
    BY <1>1, <1>4, <2>1, <2>2, <2>3, ChildCore
<1>6. CASE IfCondition
  <2> DEFINE f == [Top EXCEPT !.pc = "body", !.got = <<>>]
  <2>1. Evaluate(f, Child(2), Top.chain) \/ Return(NULL)
    BY <1>6 DEF IfCondition, Fine, Sane
  <2>2. f \in Frame /\ f.pc = "body" /\ f.got = <<>> /\ Same(f, Top) /\ f.node = Top.node
    <3>1. <<>> \in Seq(Pointers)
      OBVIOUS
    <3> QED
      BY <1>3, <3>1, PointType DEF Frame, Same
  <2> HIDE DEF f
  <2>3. Waits(f, 2)
    BY <1>1, <2>2 DEF Waits, InAt
  <2>4. CASE Evaluate(f, Child(2), Top.chain)
    BY <1>1, <1>4, <2>2, <2>3, <2>4, ChildCore
  <2>5. CASE Return(NULL)
    BY <1>1, <1>2, <1>3, <2>5, OwnsNone, PopCore DEF Core
  <2> QED
    BY <2>1, <2>4, <2>5
<1>7. CASE IfReturn
  <2>1. Return(Got(1)) /\ Top.pc = "body"
    BY <1>7 DEF IfReturn, At_
  <2>2. Top.node \in quiet => Got(1) = NULL
    <3>1. Len(Top.got) = 1 /\ (Top.node \in quiet => Top.got[1] = NULL)
      BY <1>1, <1>3, <2>1 DEF Ready, One, InAt
    <3> QED
      BY <1>3, <3>1 DEF Got
  <2> QED
    BY <1>1, <1>2, <1>3, <2>1, <2>2, OwnsNone, PopCore DEF Core
<1> QED
  BY <1>5, <1>6, <1>7

\* What is known of a running loop.
LEMMA LoopFacts ==
    ASSUME TypeOK, Running, NEW quiet, Tame(quiet), Core(quiet), Top.node.kind = "for"
    PROVE  /\ stack # <<>> /\ Top \in Frame /\ Top.node \in Node /\ Ready(Top, quiet)
           /\ Top.own \in Body /\ Top.own # GlobalScope /\ Top.got \in Seq(Pointers)
           /\ {1, 2, 3, 4} \subseteq DOMAIN Top.node.kids
           /\ Chain = <<Top.own>> \o Top.chain
<1>1. /\ stack # <<>> /\ Top \in Frame /\ Top.node \in Node /\ Ready(Top, quiet)
      /\ Top.own \in Body /\ Top.own # GlobalScope /\ Top.got \in Seq(Pointers)
  BY TopFacts, RunningType, BodyAssumption DEF OwnOK, OwnsBody
<1>2. Chain = <<Top.own>> \o Top.chain
  BY <1>1 DEF Chain
<1>3. Top.node.kids \in Seq(Node)
  BY <1>1, NodeType
<1>4. /\ 1 \in DOMAIN Top.node.kids /\ 2 \in DOMAIN Top.node.kids
      /\ 3 \in DOMAIN Top.node.kids /\ 4 \in DOMAIN Top.node.kids
  BY <1>1, <1>3, ArityType
<1> QED
  BY <1>1, <1>2, <1>4

\* A child of a running loop.
LEMMA LoopChildCore ==
    ASSUME TypeOK, Running, NEW quiet, Tame(quiet), Core(quiet), Top.node.kind = "for",
           NEW f \in Frame, Same(f, Top), NEW k \in DOMAIN Top.node.kids, Waits(f, k),
           Evaluate(f, Child(k), IF f.pc = "variable" THEN Top.chain ELSE Chain),
           UNCHANGED variables
    PROVE  Core(quiet)'
<1>1. /\ f.node = Top.node /\ Child(k) = f.node.kids[k] /\ k \in DOMAIN f.node.kids
      /\ Seen(f) = (IF f.pc = "variable" THEN Top.chain ELSE Chain)
      /\ f.node.kind # "func" /\ stack # <<>>
  BY LoopFacts DEF Same, Seen, Child
<1>2. Evaluate(f, f.node.kids[k], Seen(f))
  BY <1>1
<1> QED
  BY <1>1, <1>2, EvaluateCore

LEMMA LoopStartCore ==
    ASSUME TypeOK, NEW quiet, Tame(quiet), Core(quiet), Fine,
           ForInit \/ ForFailed \/ ForVariable \/ ForTest
    PROVE  Core(quiet)'
<1>1. Running /\ Top.node.kind = "for"
  BY DEF ForInit, ForFailed, ForVariable, ForTest, At_
<1>2. /\ stack # <<>> /\ Top \in Frame /\ Top.node \in Node /\ Ready(Top, quiet)
      /\ Top.own \in Body /\ Top.own # GlobalScope /\ Top.got \in Seq(Pointers)
      /\ {1, 2, 3, 4} \subseteq DOMAIN Top.node.kids
  BY <1>1, LoopFacts
<1>3. CASE ForInit
  <2> DEFINE f == [Top EXCEPT !.pc = "variable"]
             g == [Top EXCEPT !.pc = "test"]
  <2>1. /\ f \in Frame /\ f.pc = "variable" /\ f.got = Top.got /\ Same(f, Top)
        /\ f.node = Top.node
        /\ g.pc = "test" /\ g.node = Top.node /\ g.got = Top.got /\ Same(g, Top)
    BY <1>2, PointType DEF Frame, Same
  <2>2. stack' = SetTop(g) \/ Evaluate(f, Child(1), Top.chain)
    BY <1>3 DEF ForInit
  <2>3. Top.pc = "start" /\ UNCHANGED variables
    BY <1>3 DEF ForInit, At_
  <2> HIDE DEF f, g
  <2>4. Top.got = <<>>
    BY <1>1, <1>2, <2>3 DEF Ready, Nothing
  <2>5. Waits(f, 1) /\ Ready(g, quiet)
    BY <1>1, <2>1, <2>4 DEF Waits, InAt, Ready, One, Nothing, Pair
  <2>6. CASE stack' = SetTop(g)
    BY <1>1, <2>1, <2>3, <2>5, <2>6, GoOnCore
  <2>7. CASE Evaluate(f, Child(1), Top.chain)
    BY <1>1, <1>2, <2>1, <2>3, <2>5, <2>7, LoopChildCore
  <2> QED
    BY <2>2, <2>6, <2>7
<1>4. CASE ForFailed
  BY <1>4 DEF ForFailed, Fine, Sane
<1>5. CASE ForVariable
  <2> DEFINE v == Got(1)
             id == Top.node.id
             f == [Top EXCEPT !.pc = "test", !.got = <<>>]
  <2>1. CASE v = NULL
    BY <1>5, <2>1, StayCore DEF ForVariable
  <2>2. CASE v # NULL
    <3>1. PICK ok \in BOOLEAN :
            /\ AddVariable(ok, Instance(Top.own, id, v))
            /\ failed' = ~ok
            /\ ok => stack' = SetTop(f)
      BY <1>5, <2>2 DEF ForVariable
    <3>2. ok
      BY <3>1 DEF Fine, Sane
    <3>3. variables' = Add(variables, Instance(Top.own, id, v)) /\ stack' = SetTop(f)
      BY <3>1, <3>2 DEF AddVariable
    <3>4. f.pc = "test" /\ f.node = Top.node /\ f.got = <<>> /\ Same(f, Top)
      BY <1>2 DEF Frame, Same
    <3>5. Ready(f, quiet)
      <4> HIDE DEF f
      <4> QED
        BY <1>1, <3>4 DEF Ready, One, Nothing, InAt, Pair
    <3>6. Instance(Top.own, id, v) \in VariableInstance
      <4>1. id \in Id
        BY <1>2, NodeType
      <4>2. v \in Addr
        BY <1>2, <2>2, GotType DEF Pointers
      <4> HIDE DEF id, v
      <4> QED
        BY <1>2, <4>1, <4>2 DEF Instance, VariableInstance
    <3> HIDE DEF f, id, v
    <3> QED
      BY <1>2, <3>3, <3>4, <3>5, <3>6, AddCore
  <2> QED
    BY <2>1, <2>2
<1>6. CASE ForTest
  <2> DEFINE f == [Top EXCEPT !.pc = "condition"]
             g == [Top EXCEPT !.pc = "iterate"]
  <2>1. /\ f \in Frame /\ f.pc = "condition" /\ f.got = Top.got /\ Same(f, Top)
        /\ f.node = Top.node
        /\ g.pc = "iterate" /\ g.node = Top.node /\ g.got = Top.got /\ Same(g, Top)
    BY <1>2, PointType DEF Frame, Same
  <2>2. stack' = SetTop(g) \/ Evaluate(f, Child(2), Chain)
    BY <1>6 DEF ForTest
  <2>3. Top.pc = "test" /\ UNCHANGED variables
    BY <1>6 DEF ForTest, At_
  <2> HIDE DEF f, g
  <2>4. Top.got = <<>>
    BY <1>1, <1>2, <2>3 DEF Ready, Nothing
  <2>5. Waits(f, 2) /\ Ready(g, quiet)
    BY <1>1, <2>1, <2>4 DEF Waits, InAt, Ready, One, Nothing, Pair
  <2>6. CASE stack' = SetTop(g)
    BY <1>1, <2>1, <2>3, <2>5, <2>6, GoOnCore
  <2>7. CASE Evaluate(f, Child(2), Chain)
    BY <1>1, <1>2, <2>1, <2>3, <2>5, <2>7, LoopChildCore
  <2> QED
    BY <2>2, <2>6, <2>7
<1> QED
  BY <1>3, <1>4, <1>5, <1>6

LEMMA LoopCore ==
    ASSUME TypeOK, NEW quiet, Tame(quiet), Core(quiet), Fine,
           ForCondition \/ ForStep \/ ForBody \/ ForIterated \/ ForEnd
    PROVE  Core(quiet)'
<1>1. Running /\ Top.node.kind = "for" /\ UNCHANGED variables
  BY DEF ForCondition, ForStep, ForBody, ForIterated, ForEnd, At_
<1>2. /\ stack # <<>> /\ Top \in Frame /\ Top.node \in Node /\ Ready(Top, quiet)
      /\ Top.own \in Body /\ Top.own # GlobalScope /\ Top.got \in Seq(Pointers)
      /\ {1, 2, 3, 4} \subseteq DOMAIN Top.node.kids
  BY <1>1, LoopFacts
<1>3. SameRoots /\ <<>> \in Seq(Pointers)
  BY <1>1 DEF SameRoots
<1>4. CASE ForCondition
  <2> DEFINE f == [Top EXCEPT !.pc = "iterate", !.got = <<>>]
             g == [Top EXCEPT !.pc = "leave", !.got = <<>>, !.i = RootStart]
  <2>1. stack' = SetTop(f) \/ stack' = SetTop(g)
    BY <1>4 DEF ForCondition
  <2>2. /\ f.pc = "iterate" /\ f.node = Top.node /\ f.got = <<>> /\ Same(f, Top)
        /\ g.pc = "leave" /\ g.node = Top.node /\ g.got = <<>> /\ Same(g, Top)
        /\ g.i = Len(variables.insts)
    BY <1>2 DEF Frame, Same, RootStart
  <2> HIDE DEF f, g
  <2>3. Ready(f, quiet) /\ Ready(g, quiet)
    BY <1>1, <2>2 DEF Ready, One, Nothing, InAt, Pair
  <2> QED
    BY <1>1, <1>2, <2>1, <2>2, <2>3, MoveCore
<1>5. CASE ForStep
  <2> DEFINE f == [Top EXCEPT !.pc = "body"]
             g == [Top EXCEPT !.pc = "step"]
  <2>1. /\ f \in Frame /\ f.pc = "body" /\ f.got = Top.got /\ Same(f, Top) /\ f.node = Top.node
        /\ g \in Frame /\ g.pc = "step" /\ g.got = Top.got /\ Same(g, Top) /\ g.node = Top.node
    BY <1>2, PointType DEF Frame, Same
  <2>2. Evaluate(f, Child(4), Chain) \/ Evaluate(g, Child(3), Chain)
    BY <1>5 DEF ForStep
  <2>3. Top.got = <<>>
    BY <1>1, <1>2, <1>5 DEF Ready, Nothing, ForStep, At_
  <2> HIDE DEF f, g
  <2>4. Waits(f, 4) /\ Waits(g, 3)
    BY <1>1, <2>1, <2>3 DEF Waits, InAt
  <2>5. CASE Evaluate(f, Child(4), Chain)
    BY <1>1, <1>2, <2>1, <2>4, <2>5, LoopChildCore
  <2>6. CASE Evaluate(g, Child(3), Chain)
    BY <1>1, <1>2, <2>1, <2>4, <2>6, LoopChildCore
  <2> QED
    BY <2>2, <2>5, <2>6
<1>6. CASE ForBody
  <2> DEFINE f == [Top EXCEPT !.pc = "body", !.got = <<>>]
  <2>1. f \in Frame /\ f.pc = "body" /\ f.got = <<>> /\ Same(f, Top) /\ f.node = Top.node
    BY <1>2, <1>3, PointType DEF Frame, Same
  <2>2. Evaluate(f, Child(4), Chain)
    BY <1>6 DEF ForBody
  <2> HIDE DEF f
  <2>3. Waits(f, 4)
    BY <1>1, <2>1 DEF Waits, InAt
  <2> QED
    BY <1>1, <1>2, <2>1, <2>2, <2>3, LoopChildCore
<1>7. CASE ForIterated
  <2> DEFINE f == [Top EXCEPT !.pc = "test", !.got = <<>>]
  <2>1. Got(1) = NULL
    <3>1. Len(Top.got) = 1 /\ Top.got[1] = NULL
      BY <1>1, <1>2, <1>7 DEF Ready, One, InAt, ForIterated, At_
    <3> QED
      BY <1>2, <3>1 DEF Got
  <2>2. stack' = SetTop(f)
    BY <1>7, <2>1 DEF ForIterated
  <2>3. f.pc = "test" /\ f.node = Top.node /\ f.got = <<>> /\ Same(f, Top)
    BY <1>2 DEF Frame, Same
  <2> HIDE DEF f
  <2>4. Ready(f, quiet)
    BY <1>1, <2>3 DEF Ready, One, Nothing, InAt, Pair
  <2> QED
    BY <1>1, <2>2, <2>3, <2>4, GoOnCore
<1>8. CASE ForEnd
  <2>1. Return(NULL) /\ Top.pc = "leave" /\ Top.i = 0
    BY <1>8 DEF ForEnd, At_
  <2>2. \A j \in DOMAIN variables.insts : variables.insts[j].root # Top.own
    BY <1>2, <2>1, VariablesIndexed DEF Core, Leaving
  <2> QED
    BY <1>1, <1>2, <1>3, <2>1, <2>2, PopCore
<1> QED
  BY <1>4, <1>5, <1>6, <1>7, <1>8

\* A value stored in a variable changes no root.
LEMMA StoredRoots ==
    ASSUME TypeOK, NEW i, NEW v, variables' = [variables EXCEPT !.insts[i].val = v]
    PROVE  SameRoots
<1>1. variables.insts \in Seq(VariableInstance) /\ variables \in VariableScope
  BY Typed DEF VariableScope
<1>2. variables'.insts = [variables.insts EXCEPT ![i].val = v]
  BY <1>1 DEF VariableScope
<1>3. DOMAIN variables'.insts = DOMAIN variables.insts
  BY <1>2
<1>4. Len(variables'.insts) = Len(variables.insts)
  BY <1>1, <1>2
<1>5. \A j \in DOMAIN variables.insts : variables.insts[j] \in VariableInstance
  BY <1>1
<1>6. \A j \in DOMAIN variables.insts : variables'.insts[j].root = variables.insts[j].root
  BY <1>2, <1>5 DEF VariableInstance
<1> QED
  BY <1>3, <1>4, <1>6 DEF SameRoots

LEMMA ValueCore ==
    ASSUME TypeOK, NEW quiet, Tame(quiet), Core(quiet), Fine,
           StatementValue \/ StatementFailed \/ Declare \/ Assign \/ AssignTarget
           \/ AssignThrough \/ ReturnValue \/ ReturnAfterBody
    PROVE  Core(quiet)'
<1>1. Running /\ Top.node.kind \in {"decl", "assign", "return"}
  BY DEF StatementValue, StatementFailed, Declare, Assign, AssignTarget, AssignThrough,
         ReturnValue, ReturnAfterBody, At_
<1>2. /\ Top \in Frame /\ Top.node \in Node /\ Ready(Top, quiet) /\ stack # <<>>
      /\ Top.own = GlobalScope /\ Top.got \in Seq(Pointers)
      /\ ChainOK(Top) /\ Top.chain \in Seq(Body)
  BY <1>1, TopFacts, RunningType DEF OwnOK, OwnsBody
<1>3. ~failed
  BY DEF Fine, Sane
<1>4. CASE StatementValue
  <2> DEFINE f == [Top EXCEPT !.pc = "value"]
  <2>1. f \in Frame /\ f.pc = "value" /\ f.got = Top.got /\ Same(f, Top) /\ f.node = Top.node
    BY <1>2, PointType DEF Frame, Same
  <2>2. Evaluate(f, Child(1), Top.chain) /\ Top.pc = "start" /\ UNCHANGED variables
    BY <1>4 DEF StatementValue, At_
  <2> HIDE DEF f
  <2>3. Waits(f, 1)
    BY <1>1, <1>2, <2>1, <2>2 DEF Waits, InAt, Ready, Nothing
  <2>4. 1 \in DOMAIN Top.node.kids
    BY <1>1, <1>2, ArityType, NodeType
  <2> QED
    BY <1>1, <2>1, <2>2, <2>3, <2>4, ChildCore
<1>5. CASE StatementFailed
  BY <1>3, <1>5 DEF StatementFailed
<1>6. CASE Declare
  <2> DEFINE v == Got(1)
             id == Top.node.id
  <2>1. CASE v = NULL
    BY <1>6, <2>1, StayCore DEF Declare
  <2>2. CASE v # NULL
    <3>1. Top.node.kind = "decl" /\ Top.chain # <<>>
      BY <1>2, <1>6 DEF Declare, At_, ChainOK
    <3>2. PICK ok \in BOOLEAN :
            /\ AddVariable(ok, Instance(Top.chain[1], id, v))
            /\ Return(IF ok THEN NULL ELSE v)
            /\ failed' = ~ok
      BY <1>6, <2>2, <3>1 DEF Declare
    <3>3. ok
      BY <3>2 DEF Fine, Sane
    <3>4. variables' = Add(variables, Instance(Top.chain[1], id, v)) /\ Return(NULL)
      BY <3>2, <3>3 DEF AddVariable
    <3>5. Instance(Top.chain[1], id, v) \in VariableInstance
      <4>1. id \in Id
        BY <1>2, NodeType
      <4>2. v \in Addr
        BY <1>2, <2>2, GotType DEF Pointers
      <4>3. Top.chain[1] \in Body
        BY <1>2, <3>1
      <4> HIDE DEF id, v
      <4> QED
        BY <4>1, <4>2, <4>3 DEF Instance, VariableInstance
    <3> HIDE DEF id, v
    <3> QED
      BY <1>2, <3>1, <3>4, <3>5, DeclareCore
  <2> QED
    BY <2>1, <2>2
<1>7. CASE Assign
  <2> DEFINE v == Got(1)
             i == Get(variables, Top.chain, Top.node.id)
  <2>1. CASE i = 0 \/ v = NULL
    BY <1>7, <2>1, StayCore DEF Assign
  <2>2. CASE ~(i = 0 \/ v = NULL)
    <3>1. variables' = [variables EXCEPT !.insts[i].val = v] /\ Return(v)
      BY <1>7, <2>2 DEF Assign
    <3>2. SameRoots
      BY <3>1, StoredRoots
    <3> QED
      BY <1>1, <3>1, <3>2, LeafCore
  <2> QED
    BY <2>1, <2>2
<1>8. CASE AssignTarget
  <2> DEFINE f == [Top EXCEPT !.pc = "target"]
  <2>1. Evaluate(f, Child(2), Top.chain) /\ UNCHANGED variables
        /\ Top.node.kind = "assign" /\ Top.pc = "value"
    BY <1>8 DEF AssignTarget, At_
  <2>2. f \in Frame /\ f.pc = "target" /\ f.got = Top.got /\ Same(f, Top) /\ f.node = Top.node
    BY <1>2, PointType DEF Frame, Same
  <2> HIDE DEF f
  <2>3. Waits(f, 2)
    BY <1>2, <2>1, <2>2 DEF Waits, InAt, Ready, One
  <2>4. 2 \in DOMAIN Top.node.kids
    BY <1>2, <2>1, ArityType, NodeType
  <2> QED
    BY <1>1, <2>1, <2>2, <2>3, <2>4, ChildCore
<1>9. CASE AssignThrough
  <2>1. PICK v : Return(v)
    BY <1>9 DEF AssignThrough
  <2>2. UNCHANGED variables
    BY <1>9 DEF AssignThrough
  <2>3. SameRoots
    BY <2>2 DEF SameRoots
  <2> QED
    BY <1>1, <2>1, <2>3, LeafCore
<1>10. CASE ReturnValue
  <2>1. UNCHANGED variables /\ Top.node.kind = "return" /\ Top.pc = "value"
    BY <1>10 DEF ReturnValue, At_
  <2>2. CASE Len(Top.node.kids) = 1
    <3>1. Return(Got(1)) /\ SameRoots
      BY <1>10, <2>1, <2>2 DEF ReturnValue, SameRoots
    <3> QED
      BY <1>1, <3>1, LeafCore
  <2>3. CASE Len(Top.node.kids) # 1
    <3> DEFINE f == [Top EXCEPT !.pc = "body"]
    <3>1. Evaluate(f, Child(2), Top.chain)
      BY <1>10, <2>3 DEF ReturnValue
    <3>2. f \in Frame /\ f.pc = "body" /\ f.got = Top.got /\ Same(f, Top) /\ f.node = Top.node
      BY <1>2, PointType DEF Frame, Same
    <3> HIDE DEF f
    <3>3. Waits(f, 2)
      BY <1>2, <2>1, <3>2 DEF Waits, InAt, Ready, One
    <3>4. 2 \in DOMAIN Top.node.kids
      <4>1. Len(Top.node.kids) = 2 /\ Top.node.kids \in Seq(Node)
        BY <1>2, <2>1, <2>3, ShapeAssumption, NodeType
      <4> QED
        BY <4>1
    <3> QED
      BY <1>1, <2>1, <3>1, <3>2, <3>3, <3>4, ChildCore
  <2> QED
    BY <2>2, <2>3
<1>11. CASE ReturnAfterBody
  <2>1. Return(Got(1)) /\ UNCHANGED variables
    BY <1>11 DEF ReturnAfterBody
  <2>2. SameRoots
    BY <2>1 DEF SameRoots
  <2> QED
    BY <1>1, <2>1, <2>2, LeafCore
<1> QED
  BY <1>4, <1>5, <1>6, <1>7, <1>8, <1>9, <1>10, <1>11

(***************************************************************************)
(* The driver, and all steps together.                                     *)
(***************************************************************************)
\* The entry point is a function of its own, called with nothing on the stack.
LEMMA EntryCore ==
    ASSUME TypeOK, NEW quiet, Tame(quiet), Core(quiet), ErrorSeen, EntryPoint
    PROVE  Core(quiet)'
<1> DEFINE main == GetByName(functions, <<>>, "main")
<1>1. stack = <<>> /\ UNCHANGED variables
  BY DEF EntryPoint, ErrorSeen
<1>2. CASE main = 0
  BY <1>1, <1>2, StayCore DEF EntryPoint
<1>3. CASE main # 0
  <2> DEFINE n == functions.insts[main].val
  <2>1. main \in DOMAIN functions.insts /\ n.op = "main"
    <3> DEFINE S == {i \in DOMAIN functions.insts :
                        /\ functions.insts[i].val.op = "main"
                        /\ CanAccess(functions.insts[i], <<>>)}
    <3>1. main = Topmost(S)
      BY DEF GetByName
    <3>2. main \in S \cup {0}
      BY <3>1, TopmostType
    <3> QED
      BY <1>3, <3>2
  <2>2. n \in Node /\ n.kind = "func"
    <3>1. functions.insts \in Seq(FunctionInstance)
      BY DEF TypeOK
    <3>2. functions.insts[main] \in FunctionInstance
      BY <2>1, <3>1
    <3> QED
      BY <3>2 DEF FunctionInstance
  <2>3. PICK b \in Body : stack' = <<NewFrame(n, <<>>, b)>>
    BY <1>3 DEF EntryPoint
  <2> DEFINE f == NewFrame(n, <<>>, b)
  <2>4. f.node = n /\ f.own = b /\ f.chain = <<>> /\ f.pc = "start" /\ f.got = <<>>
    BY DEF NewFrame
  <2> HIDE DEF f, n, main
  <2>5. /\ DOMAIN stack' = {1} /\ Len(stack') = 1 /\ stack'[1] = f
        /\ stack' # <<>> /\ Top' = f
    <3>1. stack' = <<f>>
      BY <2>3 DEF f
    <3> QED
      BY <3>1 DEF Top
  <2>6. Frames(quiet)'
    <3>1. OwnOK(f) /\ ChainOK(f)
      BY <2>1, <2>2, <2>4 DEF OwnOK, OwnsBody, IsBind, ChainOK
    <3>2. Ready(f, quiet)
      BY <2>2, <2>4 DEF Ready, One, Nothing, InAt, Pair
    <3>3. \A m \in DOMAIN stack' : m + 1 \notin DOMAIN stack'
      BY <2>5
    <3> QED
      BY <2>2, <2>4, <2>5, <3>1, <3>2, <3>3 DEF Frames
  <2>7. Distinct' /\ Shielded'
    BY <2>5 DEF Distinct, Shielded
  <2>8. Enclosed' /\ Innermost'
    BY <2>2, <2>4, <2>5 DEF Enclosed, Innermost
  <2>9. Layered'
    <3>1. DOMAIN stack = {}
      BY <1>1
    <3>2. DOMAIN variables.insts = {}
      BY <3>1 DEF Core, Layered
    <3> QED
      BY <1>1, <3>2 DEF Layered
  <2>10. Leaving'
    BY <2>4, <2>5 DEF Leaving
  <2> QED
    BY <2>6, <2>7, <2>8, <2>9, <2>10 DEF Core, Stacked
<1> QED
  BY <1>2, <1>3

LEMMA DriverCore ==
    ASSUME TypeOK, NEW quiet, Tame(quiet), Core(quiet), ErrorSeen, Driver
    PROVE  Core(quiet)'
<1>1. EntryPoint \/ UNCHANGED <<stack, variables>>
  BY DEF Driver, Register, Registered, EntryReturned, ScopeDestroy
<1> QED
  BY <1>1, EntryCore, StayCore

\* Every step while nothing goes wrong.
LEMMA NextCore ==
    ASSUME TypeOK, NEW quiet, Tame(quiet), Core(quiet), ErrorSeen, [Next]_vars, Fine
    PROVE  Core(quiet)'
<1>1. CASE Expression
  BY <1>1, LiteralCore, UnaryCore, PairCore DEF Expression
<1>2. CASE Call
  BY <1>2, CallerCore, BindCore, FunctionCore DEF Call
<1>3. CASE Statement
  BY <1>3, BodyCore, IfCore, LoopStartCore, LoopCore, ValueCore DEF Statement
<1>4. CASE Driver
  BY <1>4, DriverCore
<1>5. CASE UNCHANGED vars
  BY <1>5, StayCore DEF vars
<1> QED
  BY <1>1, <1>2, <1>3, <1>4, <1>5 DEF Next, Stopped

\* No reference is being made after an error.
LEMMA NoErrorSlot ==
    ASSUME ErrorSeen, ReferenceSlot
    PROVE  ~failed
BY DEF ErrorSeen, ReferenceSlot, At_, Running, Waiting

\* An error stays.
LEMMA StaysFailed ==
    ASSUME ErrorSeen, [Next]_vars, ~failed'
    PROVE  ~failed
<1>1. CASE Expression
  <2>1. CASE Literal \/ StringBlock \/ StringValue \/ Variable
    <3>1. failed => failed'
      <4>1. CASE Literal \/ StringValue
        <5>1. PICK ok \in BOOLEAN : failed' = (failed \/ ~ok)
          BY <4>1 DEF Literal, StringValue
        <5> QED
          BY <5>1
      <4>2. CASE StringBlock
        <5>1. PICK ok \in BOOLEAN : failed' = (failed \/ ~ok)
          BY <4>2 DEF StringBlock
        <5> QED
          BY <5>1
      <4>3. CASE Variable
        BY <4>3 DEF Variable
      <4> QED
        BY <2>1, <4>1, <4>2, <4>3
    <3> QED
      BY <3>1
  <2>2. CASE UnaryStart \/ UnaryFailed \/ UnaryNew \/ UnaryFollow
    BY <2>2 DEF UnaryStart, UnaryFailed, UnaryNew, UnaryFollow
  <2>3. CASE ReferenceValue \/ UnaryOther \/ LeftOperand \/ RightOperand
    BY <2>3 DEF ReferenceValue, UnaryOther, LeftOperand, RightOperand
  <2>4. CASE OperandFailed \/ Binary \/ ArrayElement
    BY <2>4 DEF OperandFailed, Binary, ArrayElement
  <2>5. CASE ReferenceSlot
    BY <2>5, NoErrorSlot
  <2> QED
    BY <1>1, <2>1, <2>2, <2>3, <2>4, <2>5 DEF Expression
<1>2. CASE Call
  <2>1. CASE CallStart \/ CallArgument \/ CallFailed \/ CallEnter \/ CallReturn
    <3>1. CASE CallStart
      <4>1. PICK ok \in BOOLEAN : failed' = (failed \/ ~ok)
        BY <3>1 DEF CallStart
      <4>2. failed => failed'
        BY <4>1
      <4> QED
        BY <4>2
    <3>2. CASE CallArgument \/ CallFailed
      BY <3>2 DEF CallArgument, CallFailed
    <3>3. CASE CallEnter \/ CallReturn
      <4>1. failed' = failed
        <5>1. CallEnter => UNCHANGED <<driver, variables, failed, failures, result>>
          BY Zenon DEF CallEnter
        <5> QED
          BY <3>3, <5>1 DEF CallReturn
      <4> QED
        BY <4>1
    <3> QED
      BY <2>1, <3>1, <3>2, <3>3
  <2>2. CASE BindPrint \/ BindDrop \/ BindReturn
             \/ FunctionArgument \/ FunctionBody
    BY <2>2 DEF BindPrint, BindDrop, BindReturn, FunctionArgument,
       FunctionBody
  <2>3. CASE FunctionLeave \/ RootDestroy \/ FunctionReturn \/ FunctionOutOfMemory
    BY <2>3 DEF FunctionLeave, RootDestroy, FunctionReturn,
       FunctionOutOfMemory
  <2> QED
    BY <1>2, <2>1, <2>2, <2>3 DEF Call
<1>3. CASE Statement
  <2>1. CASE BodyStatement \/ BodyResult \/ BodyEnd \/ IfStart \/ IfCondition
    BY <2>1 DEF BodyStatement, BodyResult, BodyEnd, IfStart, IfCondition
  <2>2. CASE IfReturn \/ ForInit \/ ForFailed \/ ForVariable \/ ForTest
    BY <2>2 DEF IfReturn, ForInit, ForFailed, ForVariable, ForTest
  <2>3. CASE ForCondition \/ ForStep \/ ForBody \/ ForIterated \/ ForEnd
    BY <2>3 DEF ForCondition, ForStep, ForBody, ForIterated, ForEnd
  <2>4. CASE StatementValue \/ StatementFailed \/ Declare
             \/ Assign \/ AssignTarget
    BY <2>4 DEF StatementValue, StatementFailed, Declare, Assign,
       AssignTarget
  <2>5. CASE AssignThrough \/ ReturnValue \/ ReturnAfterBody
    BY <2>5 DEF AssignThrough, ReturnValue, ReturnAfterBody
  <2> QED
    BY <1>3, <2>1, <2>2, <2>3, <2>4, <2>5 DEF Statement
<1>4. CASE Driver
  BY <1>4 DEF ErrorSeen, Driver, Register, Registered, EntryPoint, EntryReturned,
     ScopeDestroy
<1>5. CASE UNCHANGED vars
  BY <1>5 DEF vars
<1> QED
  BY <1>1, <1>2, <1>3, <1>4, <1>5 DEF Next, Stopped

\* After something undefined nothing happens.
LEMMA StaysFaulty ==
    ASSUME [Next]_vars, mem.fault # "none"
    PROVE  UNCHANGED vars
<1>1. CASE Expression
  BY <1>1 DEF Running, At_, Expression, Literal, StringBlock, StringValue, Variable,
     UnaryStart, UnaryFailed, UnaryNew, UnaryFollow, ReferenceValue, UnaryOther,
     LeftOperand, RightOperand, OperandFailed, Binary, ArrayElement, ReferenceSlot
<1>2. CASE Call
  BY <1>2 DEF Running, At_, Call, CallStart, CallArgument, CallFailed, CallEnter,
     CallReturn, BindPrint, BindDrop, BindReturn, FunctionArgument, FunctionBody,
     FunctionLeave, RootDestroy, FunctionReturn, FunctionOutOfMemory
<1>3. CASE Statement
  BY <1>3 DEF Running, At_, Statement, BodyStatement, BodyResult, BodyEnd, IfStart,
     IfCondition, IfReturn, ForInit, ForFailed, ForVariable, ForTest, ForCondition,
     ForStep, ForBody, ForIterated, ForEnd, StatementValue, StatementFailed, Declare,
     Assign, AssignTarget, AssignThrough, ReturnValue, ReturnAfterBody
<1>4. CASE Driver
  BY <1>4 DEF Calm, Driver, Register, Registered, EntryPoint, EntryReturned, ScopeDestroy
<1> QED
  BY <1>1, <1>2, <1>3, <1>4 DEF Next, Stopped

\* What has gone wrong stays so.
LEMMA StaysWrong ==
    ASSUME ErrorSeen, [Next]_vars, Sane'
    PROVE  Sane
<1>1. ~failed
  BY StaysFailed DEF Sane
<1>2. CASE mem.fault # "none"
  BY <1>2, StaysFaulty DEF Sane, vars
<1> QED
  BY <1>1, <1>2 DEF Sane

\* Nothing runs at the start.
LEMMA InitCore ==
    ASSUME NEW quiet, Init
    PROVE  Core(quiet)
<1>1. stack = <<>> /\ DOMAIN stack = {} /\ variables.insts = <<>>
         /\ DOMAIN variables.insts = {}
  BY DEF Init, EmptyScope
<1>2. Frames(quiet)
  BY <1>1 DEF Frames
<1>3. Distinct /\ Enclosed /\ Innermost /\ Shielded
  BY <1>1 DEF Distinct, Enclosed, Innermost, Shielded
<1>4. Layered /\ Leaving
  BY <1>1 DEF Layered, Leaving
<1> QED
  BY <1>2, <1>3, <1>4 DEF Core, Stacked

\* While nothing goes wrong the variables lie as the bodies on the call stack do.
LEMMA CoreNested ==
    ASSUME NEW quiet, Core(quiet)
    PROVE  ScopesNested
<1>1. ASSUME NEW i \in DOMAIN variables.insts, NEW g \in DOMAIN stack, Level(g, i)
      PROVE  g \in OwnerIndex(variables.insts[i].root)
  BY <1>1 DEF Core, Layered, Level, OwnerIndex
<1>2. \A i \in DOMAIN variables.insts : OwnerIndex(variables.insts[i].root) # {}
  BY <1>1 DEF Core, Layered
<1>3. ASSUME NEW i \in DOMAIN variables.insts, NEW j \in DOMAIN variables.insts, i <= j
      PROVE  \E k \in OwnerIndex(variables.insts[i].root),
                l \in OwnerIndex(variables.insts[j].root) : k <= l
  <2>1. PICK g \in DOMAIN stack : Level(g, i)
    BY DEF Core, Layered
  <2>2. PICK h \in DOMAIN stack : Level(h, j)
    BY DEF Core, Layered
  <2>3. g <= h
    BY <1>3, <2>1, <2>2 DEF Core, Layered
  <2> QED
    BY <1>1, <2>1, <2>2, <2>3
<1> QED
  BY <1>2, <1>3 DEF ScopesNested

\* Every step keeps the call stack and the variables in order.
LEMMA ScopedStep ==
    ASSUME TypeOK, ErrorSeen, NEW quiet, Tame(quiet), Scoped(quiet), [Next]_vars
    PROVE  Scoped(quiet)'
<1> SUFFICES ASSUME Sane'
             PROVE  Core(quiet)'
  BY DEF Scoped, Core
<1>1. Sane
  BY StaysWrong
<1>2. Core(quiet)
  BY <1>1 DEF Scoped, Core
<1> QED
  BY <1>1, <1>2, NextCore DEF Fine

\* The variables are laid out as the scopes they belong to are nested, whatever
\* the program, the heap and the number of bodies, if no loop is left by a
\* return: cwr_scope_root_destroy drops exactly the variables of its root.
THEOREM ScopesCorrect ==
    ASSUME NEW quiet, Tame(quiet)
    PROVE  Spec => []ScopesNested
<1>1. Init => Scoped(quiet)
  BY InitCore DEF Scoped, Core
<1>2. TypeOK /\ ErrorSeen /\ Scoped(quiet) /\ [Next]_vars => Scoped(quiet)'
  BY ScopedStep
<1>3. Scoped(quiet) => ScopesNested
  <2>1. CASE Sane
    BY <2>1, CoreNested DEF Scoped, Core
  <2>2. CASE ~Sane
    BY <2>2 DEF ScopesNested, Evaluating, Sane
  <2> QED
    BY <2>1, <2>2
<1> QED
  BY <1>1, <1>2, <1>3, TypeCorrect, ErrorsSeen, PTL DEF Spec

(***************************************************************************)
(* Errors unwind.                                                          *)
(*                                                                         *)
(* After an error the activations only return, so less of Scoped is kept,  *)
(* and less is needed: the variables still lie in the order of the bodies, *)
(* and every body that is left is left without variables - but for loops,  *)
(* which an error leaves at once (source/cwr_interpreter.c:175).           *)
(***************************************************************************)
Lay == Layered /\ Leaving /\ \A n \in DOMAIN stack : OwnOK(stack[n])

\* No error is raised while a loop runs: an error leaves a loop at once.
NoLoop == \A n \in DOMAIN stack : stack[n].node.kind # "for"
ErrorsOutsideLoops == [][~failed /\ failed' => NoLoop]_vars

Unwound == failed => (mem.fault = "none" => Lay /\ NoLoop) /\ ErrorUnwinds

LEMMA CoreLay ==
    ASSUME NEW quiet, Core(quiet)
    PROVE  Lay
BY DEF Core, Lay, Stacked, Frames

\* The frames that stay are what they were.
LEMMA RemainLoopless ==
    ASSUME NEW m, Remain(m), m <= Len(stack), m \in Nat, TypeOK
    PROVE  /\ NoLoop => NoLoop'
           /\ (\A n \in DOMAIN stack : OwnOK(stack[n])) => \A n \in DOMAIN stack' : OwnOK(stack'[n])
<1>1. \A n \in DOMAIN stack' : n \in DOMAIN stack /\ Same(stack'[n], stack[n])
  BY VariablesIndexed DEF Remain
<1>2. NoLoop => NoLoop'
  BY <1>1 DEF NoLoop, Same
<1>3. (\A n \in DOMAIN stack : OwnOK(stack[n])) => \A n \in DOMAIN stack' : OwnOK(stack'[n])
  BY <1>1 DEF OwnOK, Same
<1> QED
  BY <1>2, <1>3

\* What a step that raises an error, or comes after one, does to the stack.
Popping == /\ Top.node.kind \notin {"func", "for"}
           /\ \E v : Return(v)
           /\ UNCHANGED variables
Ending == /\ Top.pc \in {"leave", "unwind"} /\ Top.i = 0
          /\ \E v : Return(v)
          /\ UNCHANGED variables
Moving == \E f : /\ Same(f, Top) /\ stack' = SetTop(f)
                 /\ UNCHANGED variables
                 /\ f.pc \in {"leave", "unwind"} => f.i = Len(variables.insts)
Unwinds == Running /\ (Popping \/ Ending \/ Moving \/ RootDestroy)

LEMMA ErrorExpression ==
    ASSUME ErrorSeen, failed', Expression
    PROVE  Running /\ Popping
<1>1. Running /\ stack # <<>>
  BY DEF Expression, Literal, StringBlock, StringValue, Variable, UnaryStart, UnaryFailed,
         UnaryNew, UnaryFollow, ReferenceValue, ReferenceSlot, UnaryOther, LeftOperand,
         RightOperand, OperandFailed, Binary, ArrayElement, At_, Running
<1>2. failed => Waiting(Top) \/ Top.pc \in {"leave", "unwind"}
  BY <1>1 DEF ErrorSeen
<1>3. CASE Literal \/ StringValue
  BY <1>1, <1>3 DEF Literal, StringValue, Popping, At_
<1>4. CASE StringBlock
  <2>1. Top.pc = "start"
    BY <1>4 DEF StringBlock, At_
  <2>2. ~failed
    BY <1>2, <2>1 DEF Waiting
  <2> QED
    BY <1>1, <1>4, <2>2 DEF StringBlock, Popping, At_
<1>5. CASE Variable \/ UnaryStart \/ LeftOperand
  <2>1. Top.pc = "start" /\ failed
    BY <1>5 DEF Variable, UnaryStart, LeftOperand, At_
  <2> QED
    BY <1>2, <2>1 DEF Waiting
<1>6. CASE UnaryFailed \/ UnaryNew \/ UnaryFollow \/ UnaryOther
  BY <1>1, <1>6 DEF UnaryFailed, UnaryNew, UnaryFollow, UnaryOther, Popping, At_
<1>7. CASE ReferenceValue
  BY <1>1, <1>7 DEF ReferenceValue, Popping, At_
<1>8. CASE ReferenceSlot
  BY <1>1, <1>8 DEF ReferenceSlot, Popping, At_
<1>9. CASE RightOperand
  BY <1>1, <1>9 DEF RightOperand, Popping, At_, Pair
<1>10. CASE OperandFailed
  BY <1>1, <1>10 DEF OperandFailed, Popping, At_, Pair
<1>11. CASE Binary \/ ArrayElement
  BY <1>1, <1>11 DEF Binary, ArrayElement, Popping, At_
<1> QED
  BY <1>3, <1>4, <1>5, <1>6, <1>7, <1>8, <1>9, <1>10, <1>11 DEF Expression

LEMMA ErrorCall ==
    ASSUME TypeOK, ErrorSeen, failed', Call
    PROVE  Unwinds
<1>1. Running /\ stack # <<>>
  BY DEF Call, CallStart, CallArgument, CallFailed, CallEnter, CallReturn, BindPrint, BindDrop,
         BindReturn, FunctionArgument, FunctionBody, FunctionLeave, RootDestroy,
         FunctionReturn, FunctionOutOfMemory, At_, Running
<1>2. Top \in Frame
  BY <1>1, RunningType
<1>3. failed => Waiting(Top) \/ Top.pc \in {"leave", "unwind"}
  BY <1>1 DEF ErrorSeen
<1>4. CASE CallStart
  <2>1. Top.pc = "start"
    BY <1>4 DEF CallStart, At_
  <2>2. ~failed
    BY <1>3, <2>1 DEF Waiting
  <2> QED
    BY <1>1, <1>4, <2>2 DEF CallStart, Popping, Unwinds, At_
<1>5. CASE CallArgument \/ CallEnter
  <2>1. ~failed /\ failed' = failed
    BY <1>5 DEF CallArgument, CallEnter
  <2> QED
    BY <2>1
<1>6. CASE CallFailed
  <2>1. CASE Top.i < Len(Top.got) - 1
    <3> DEFINE f == [Top EXCEPT !.i = @ + 1]
    <3>1. Same(f, Top) /\ f.pc = Top.pc
      BY <1>2 DEF Same, Frame
    <3>2. stack' = SetTop(f) /\ UNCHANGED variables /\ Top.pc = "arguments"
      BY <1>6, <2>1 DEF CallFailed, At_
    <3> HIDE DEF f
    <3> QED
      BY <1>1, <3>1, <3>2 DEF Moving, Unwinds
  <2>2. CASE ~(Top.i < Len(Top.got) - 1)
    BY <1>1, <1>6, <2>2 DEF CallFailed, Popping, Unwinds, At_
  <2> QED
    BY <2>1, <2>2
<1>7. CASE CallReturn
  BY <1>1, <1>7 DEF CallReturn, Popping, Unwinds, At_
<1>8. CASE BindPrint \/ BindDrop \/ BindReturn
  <2>1. Top.pc \in {"start", "drop"} /\ failed
    BY <1>8 DEF BindPrint, BindDrop, BindReturn, At_
  <2> QED
    BY <1>3, <2>1 DEF Waiting
<1>9. CASE FunctionArgument \/ FunctionBody
  <2>1. Top.pc = "start" /\ failed
    BY <1>9 DEF FunctionArgument, FunctionBody, At_
  <2> QED
    BY <1>3, <2>1 DEF Waiting
<1>10. CASE FunctionLeave
  <2> DEFINE f == [Top EXCEPT !.pc = "leave", !.i = RootStart]
  <2>1. Same(f, Top) /\ f.i = Len(variables.insts)
    BY <1>2 DEF Same, Frame, RootStart
  <2>2. stack' = SetTop(f) /\ UNCHANGED variables
    BY <1>10 DEF FunctionLeave
  <2> HIDE DEF f
  <2> QED
    BY <1>1, <2>1, <2>2 DEF Moving, Unwinds
<1>11. CASE RootDestroy
  BY <1>1, <1>11 DEF Unwinds
<1>12. CASE FunctionReturn \/ FunctionOutOfMemory
  BY <1>1, <1>12 DEF FunctionReturn, FunctionOutOfMemory, Ending, Unwinds, At_
<1> QED
  BY <1>4, <1>5, <1>6, <1>7, <1>8, <1>9, <1>10, <1>11, <1>12 DEF Call

LEMMA ErrorStatement ==
    ASSUME TypeOK, ErrorSeen, failed', Statement, NoLoop
    PROVE  Running /\ Popping
<1>1. Running /\ stack # <<>>
  BY DEF Statement, BodyStatement, BodyResult, BodyEnd, IfStart, IfCondition, IfReturn, ForInit,
         ForFailed, ForVariable, ForTest, ForCondition, ForStep, ForBody, ForIterated, ForEnd,
         StatementValue, StatementFailed, Declare, Assign, AssignTarget, AssignThrough,
         ReturnValue, ReturnAfterBody, At_, Running
<1>2. failed => Waiting(Top) \/ Top.pc \in {"leave", "unwind"}
  BY <1>1 DEF ErrorSeen
<1>3. Top.node.kind # "for"
  <2>1. Len(stack) \in DOMAIN stack
    BY <1>1 DEF TypeOK
  <2> QED
    BY <2>1 DEF NoLoop, Top
<1>4. CASE BodyStatement \/ BodyEnd \/ IfStart \/ StatementValue
  <2>1. Top.pc = "start" /\ failed
    BY <1>4 DEF BodyStatement, BodyEnd, IfStart, StatementValue, At_
  <2> QED
    BY <1>2, <2>1 DEF Waiting
<1>5. CASE BodyResult
  <2>1. failed /\ EndsEarly(Child(Top.i))
    BY <1>5 DEF BodyResult, EndsEarly
  <2> QED
    BY <1>1, <1>5, <2>1 DEF BodyResult, Popping, At_
<1>6. CASE IfCondition
  BY <1>1, <1>6 DEF IfCondition, Popping, At_
<1>7. CASE IfReturn
  BY <1>1, <1>7 DEF IfReturn, Popping, At_
<1>8. CASE ForInit \/ ForFailed \/ ForVariable \/ ForTest \/ ForCondition \/ ForStep
           \/ ForBody \/ ForIterated \/ ForEnd
  BY <1>3, <1>8 DEF ForInit, ForFailed, ForVariable, ForTest, ForCondition, ForStep, ForBody,
                   ForIterated, ForEnd, At_
<1>9. CASE StatementFailed
  BY <1>1, <1>9 DEF StatementFailed, Popping, At_
<1>10. CASE Declare
  BY <1>1, <1>10 DEF Declare, AddVariable, Popping, At_
<1>11. CASE Assign \/ AssignTarget \/ ReturnValue
  BY <1>11 DEF Assign, AssignTarget, ReturnValue
<1>12. CASE AssignThrough
  BY <1>1, <1>12 DEF AssignThrough, Popping, At_
<1>13. CASE ReturnAfterBody
  BY <1>1, <1>13 DEF ReturnAfterBody, Popping, At_
<1> QED
  BY <1>4, <1>5, <1>6, <1>7, <1>8, <1>9, <1>10, <1>11, <1>12, <1>13 DEF Statement

\* A return takes no variable's body away, and gives the word to no body that is left.
LEMMA ReturnLay ==
    ASSUME TypeOK, ErrorSeen, Lay, stack # <<>>, NEW v, Return(v), UNCHANGED variables,
           \A i \in DOMAIN variables.insts : variables.insts[i].root # Top.own
    PROVE  Lay' /\ (NoLoop => NoLoop')
<1>1. PICK n \in Nat : n = Len(stack) /\ n >= 1 /\ DOMAIN stack = 1 .. n
  BY DEF TypeOK
<1>2. /\ Remain(n - 1) /\ n - 1 \in Nat /\ Len(stack') = n - 1
      /\ \A j \in 1 .. n - 1 : stack'[j].pc = stack[j].pc
  BY <1>1, ReturnRemains
<1>3. Layered'
  <2>1. Below(n - 1) /\ SameRoots
    BY <1>1, BelowReturn DEF Lay, SameRoots
  <2> QED
    BY <1>2, <2>1, KeepLayered DEF Lay
<1>4. Leaving'
  <2>1. CASE n = 1
    BY <1>1, <2>1 DEF Return, Leaving
  <2>2. CASE n # 1
    <3>1. n - 1 \in 1 .. n - 1 /\ n - 1 \in DOMAIN stack /\ n - 1 < Len(stack)
      BY <1>1, <2>2
    <3>2. stack[n - 1].pc \notin {"leave", "unwind"}
      BY <3>1 DEF ErrorSeen, Waiting
    <3> QED
      BY <1>2, <3>1, <3>2 DEF Leaving, Top
  <2> QED
    BY <2>1, <2>2
<1> QED
  BY <1>1, <1>2, <1>3, <1>4, RemainLoopless DEF Lay

LEMMA MoveLay ==
    ASSUME TypeOK, Lay, stack # <<>>, Moving
    PROVE  Lay' /\ (NoLoop => NoLoop')
<1>1. PICK f : /\ Same(f, Top) /\ stack' = SetTop(f)
               /\ f.pc \in {"leave", "unwind"} => f.i = Len(variables.insts)
  BY DEF Moving
<1>2. Remain(Len(stack)) /\ Top' = f /\ stack' # <<>> /\ UNCHANGED variables
  BY <1>1, MoveRemains DEF Moving
<1>3. Layered'
  <2>1. SameRoots /\ Below(Len(stack))
    BY <1>2, VariablesIndexed DEF SameRoots, Lay, Layered, Below
  <2> QED
    BY <1>2, <2>1, KeepLayered DEF Lay
<1>4. Leaving'
  <2> SUFFICES ASSUME f.pc \in {"leave", "unwind"}
               PROVE  f.i <= Len(variables.insts) /\ ~\E i \in DOMAIN variables.insts : i > f.i
    BY <1>2 DEF Leaving
  <2> QED
    BY <1>1, VariablesIndexed
<1> QED
  BY <1>2, <1>3, <1>4, VariablesIndexed, RemainLoopless DEF Lay

LEMMA UnwindsLay ==
    ASSUME TypeOK, ErrorSeen, Lay, Unwinds
    PROVE  Lay' /\ (NoLoop => NoLoop')
<1>1. Running /\ stack # <<>> /\ Top \in Frame /\ Len(stack) \in DOMAIN stack
  <2>1. Running
    BY DEF Unwinds
  <2> QED
    BY <2>1, RunningType, VariablesIndexed
<1>2. CASE Popping
  <2>1. Top.own = GlobalScope
    BY <1>1, <1>2 DEF Popping, Lay, OwnOK, OwnsBody, Top
  <2>2. \A i \in DOMAIN variables.insts : variables.insts[i].root # Top.own
    BY <2>1, OwnsNone DEF Lay
  <2> QED
    BY <1>1, <1>2, <2>2, ReturnLay DEF Popping
<1>3. CASE Ending
  <2>1. \A i \in DOMAIN variables.insts : variables.insts[i].root # Top.own
    <3>1. \A i \in DOMAIN variables.insts : i > 0
      BY VariablesIndexed
    <3> QED
      BY <1>1, <1>3, <3>1 DEF Ending, Lay, Leaving
  <2> QED
    BY <1>1, <1>3, <2>1, ReturnLay DEF Ending
<1>4. CASE Moving
  BY <1>1, <1>4, MoveLay
<1>5. CASE RootDestroy
  <2>1. Remain(Len(stack)) /\ Layered' /\ Leaving'
    BY <1>5, DropLeaving DEF Lay
  <2> QED
    BY <2>1, VariablesIndexed, RemainLoopless DEF Lay
<1> QED
  BY <1>2, <1>3, <1>4, <1>5 DEF Unwinds

\* Nothing runs, so there is no variable.
LEMMA NoneLeft ==
    ASSUME TypeOK, Layered, stack = <<>>
    PROVE  variables.insts = <<>>
<1>1. DOMAIN stack = {}
  OBVIOUS
<1>2. DOMAIN variables.insts = {}
  BY <1>1 DEF Layered
<1>3. Len(variables.insts) = 0
  BY <1>2, VariablesIndexed
<1> QED
  BY <1>3, Typed DEF VariableScope

LEMMA DriverUnwinding ==
    ASSUME TypeOK, ErrorSeen, Lay, failed => ErrorUnwinds, Driver, failed'
    PROVE  Lay' /\ ErrorUnwinds' /\ (NoLoop => NoLoop')
<1>1. UNCHANGED <<stack, variables>>
  BY DEF ErrorSeen, Driver, Register, Registered, EntryPoint, EntryReturned, ScopeDestroy
<1>2. Lay' /\ (NoLoop => NoLoop')
  BY <1>1 DEF Lay, Layered, Level, Leaving, Top, NoLoop
<1>3. ErrorUnwinds'
  <2>1. CASE Register
    <3>1. stack = <<>>
      BY <2>1 DEF ErrorSeen, Register
    <3> QED
      BY <1>1, <3>1, NoneLeft DEF Lay, ErrorUnwinds
  <2>2. CASE Registered \/ EntryPoint
    BY <2>2 DEF Registered, EntryPoint, ErrorUnwinds
  <2>3. CASE EntryReturned
    <3>1. stack = <<>>
      BY <2>3 DEF EntryReturned
    <3> QED
      BY <1>1, <3>1, NoneLeft DEF Lay, ErrorUnwinds
  <2>4. CASE ScopeDestroy
    BY <1>1, <2>4 DEF ScopeDestroy, ErrorUnwinds
  <2> QED
    BY <2>1, <2>2, <2>3, <2>4 DEF Driver
<1> QED
  BY <1>2, <1>3

\* The evaluator leaves the driver where it is.
LEMMA EvaluatorPhase ==
    ASSUME Expression \/ Call \/ Statement
    PROVE  UNCHANGED phase
<1>1. CASE Expression
  BY <1>1 DEF Expression, Literal, StringBlock, StringValue, Variable, UnaryStart, UnaryFailed,
         UnaryNew, UnaryFollow, ReferenceValue, ReferenceSlot, UnaryOther, LeftOperand,
         RightOperand, OperandFailed, Binary, ArrayElement, driver
<1>2. CASE Call
  BY <1>2 DEF Call, CallStart, CallArgument, CallFailed, CallEnter, CallReturn, BindPrint,
         BindDrop, BindReturn, FunctionArgument, FunctionBody, FunctionLeave, RootDestroy,
         FunctionReturn, FunctionOutOfMemory, driver
<1>3. CASE Statement
  BY <1>3 DEF Statement, BodyStatement, BodyResult, BodyEnd, IfStart, IfCondition, IfReturn,
         ForInit, ForFailed, ForVariable, ForTest, ForCondition, ForStep, ForBody, ForIterated,
         ForEnd, StatementValue, StatementFailed, Declare, Assign, AssignTarget,
         AssignThrough, ReturnValue, ReturnAfterBody, driver
<1> QED
  BY <1>1, <1>2, <1>3

LEMMA UnwindingStep ==
    ASSUME TypeOK, ErrorSeen, NEW quiet, Scoped(quiet), Unwound,
           [Next]_vars, [~failed /\ failed' => NoLoop]_vars
    PROVE  Unwound'
<1>1. CASE UNCHANGED vars
  BY <1>1 DEF vars, Unwound, Lay, Layered, Level, Leaving, Top, ErrorUnwinds, NoLoop
<1>2. CASE mem.fault # "none"
  BY <1>1, <1>2, StaysFaulty
<1>3. CASE mem.fault = "none" /\ ~UNCHANGED vars
  <2> SUFFICES ASSUME failed' PROVE Lay' /\ NoLoop' /\ ErrorUnwinds'
    BY DEF Unwound
  <2>1. NoLoop
    BY <1>3 DEF Unwound
  <2>2. Lay /\ (failed => ErrorUnwinds)
    <3>1. CASE failed
      BY <1>3, <3>1 DEF Unwound
    <3>2. CASE ~failed
      BY <1>3, <3>2, CoreLay DEF Scoped, Core, Sane
    <3> QED
      BY <3>1, <3>2
  <2>3. CASE Driver
    BY <2>1, <2>2, <2>3, DriverUnwinding
  <2>4. CASE Expression \/ Call \/ Statement
    <3>1. Unwinds
      BY <2>1, <2>4, ErrorExpression, ErrorCall, ErrorStatement DEF Unwinds
    <3>2. UNCHANGED phase /\ phase = "run"
      <4>1. phase = "run"
        BY <3>1 DEF Unwinds, Running
      <4> QED
        BY <2>4, <4>1, EvaluatorPhase
    <3> QED
      BY <2>1, <2>2, <3>1, <3>2, UnwindsLay DEF ErrorUnwinds
  <2> QED
    BY <1>3, <2>3, <2>4 DEF Next, Stopped
<1> QED
  BY <1>1, <1>2, <1>3

\* A program that an error stops outside every loop has destroyed all of its
\* variables when the driver takes over, whatever it was doing, however deep in
\* calls, and whichever allocation failed: each body on the way out runs
\* cwr_scope_root_destroy to its end, or owns nothing.
THEOREM ErrorsUnwind ==
    ASSUME NEW quiet, Tame(quiet)
    PROVE  Spec /\ ErrorsOutsideLoops => []ErrorUnwinds
<1>1. Init => Scoped(quiet) /\ Unwound
  BY InitCore DEF Scoped, Core, Unwound, Init
<1>2. TypeOK /\ ErrorSeen /\ Scoped(quiet) /\ [Next]_vars => Scoped(quiet)'
  BY ScopedStep
<1>3. TypeOK /\ ErrorSeen /\ Scoped(quiet) /\ Unwound /\ [Next]_vars /\ [~failed /\ failed' => NoLoop]_vars
        => Unwound'
  BY UnwindingStep
<1>4. Unwound => ErrorUnwinds
  BY DEF Unwound, ErrorUnwinds
<1> QED
  BY <1>1, <1>2, <1>3, <1>4, TypeCorrect, ErrorsSeen, PTL DEF Spec, ErrorsOutsideLoops

(***************************************************************************)
(* Refinement.                                                             *)
(*                                                                         *)
(* The flat array implements LexicalScopes.  The mapping selects the open  *)
(* bodies of the call stack and, for each, its variables, so a step is     *)
(* followed through Selected: what it does to the activations and to the   *)
(* variables, then what that does to the scopes.  A lookup needs Scoped.   *)
(* After an error nothing is looked up, and the order of the variables,    *)
(* which every return and destruction keeps, is enough.                    *)
(***************************************************************************)
\* The scopes of any activations and any variables.
ScopeList(s, vs) == [k \in DOMAIN s |-> ScopeOf(s[k], vs)]
BindingList(vs) == [i \in DOMAIN vs |-> Binding(vs[i])]
Rooted(own, vs) == {i \in DOMAIN vs : vs[i].root = own}

LEMMA ScopesAre ==
    ASSUME NEW s, NEW vs
    PROVE  ScopesOf(s, vs) = Selected(ScopeList(s, vs), OpenFrames(s))[Len(s)]
BY DEF ScopesOf, ScopeList

LEMMA BoundIs ==
    ASSUME NEW own, NEW vs
    PROVE  BoundIn(own, vs) = Selected(BindingList(vs), Rooted(own, vs))[Len(vs)]
BY DEF BoundIn, BindingList, Rooted

LEMMA ScopesSeq ==
    ASSUME NEW s, NEW vs, IsSeq(s)
    PROVE  IsSeq(ScopesOf(s, vs))
BY SeqFacts, SelectedIsSeq, ScopesAre

\* What is bound under a body that has none of the variables above.
LEMMA BoundPrefix ==
    ASSUME NEW vs, IsSeq(vs), NEW ws, IsSeq(ws), NEW own, Len(vs) <= Len(ws),
           \A i \in DOMAIN vs : ws[i] = vs[i],
           \A i \in DOMAIN ws : i > Len(vs) => ws[i].root # own
    PROVE  BoundIn(own, ws) = BoundIn(own, vs)
<1> DEFINE n == Len(vs)
           m == Len(ws)
<1>1. n \in Nat /\ DOMAIN vs = 1 .. n /\ m \in Nat /\ DOMAIN ws = 1 .. m /\ n <= m
  BY SeqFacts
<1>2. Alike(BindingList(ws), Rooted(own, ws), BindingList(vs), Rooted(own, vs), n)
  BY <1>1 DEF Alike, BindingList, Rooted
<1>3. NoneBetween(Rooted(own, ws), n, m)
  BY <1>1 DEF NoneBetween, Rooted
<1>4. Selected(BindingList(ws), Rooted(own, ws))[m] = Selected(BindingList(vs), Rooted(own, vs))[n]
  BY <1>1, <1>2, <1>3, SelectedPrefix
<1> QED
  BY <1>4, BoundIs

LEMMA BoundNone ==
    ASSUME NEW vs, IsSeq(vs), NEW own, \A i \in DOMAIN vs : vs[i].root # own
    PROVE  BoundIn(own, vs) = <<>>
<1>1. Len(vs) \in Nat /\ DOMAIN vs = 1 .. Len(vs) /\ 0 \in Nat /\ 0 <= Len(vs)
  BY SeqFacts
<1>2. NoneBetween(Rooted(own, vs), 0, Len(vs))
  BY <1>1 DEF NoneBetween, Rooted
<1>3. Selected(BindingList(vs), Rooted(own, vs))[Len(vs)] = <<>>
  BY <1>1, <1>2, SelectedNoMore, SelectedZero
<1> QED
  BY <1>3, BoundIs

LEMMA BoundMore ==
    ASSUME NEW vs, IsSeq(vs), NEW v
    PROVE  BoundIn(v.root, Append(vs, v)) = Append(BoundIn(v.root, vs), Binding(v))
<1> DEFINE n == Len(vs)
           ws == Append(vs, v)
           own == v.root
<1>1. /\ n \in Nat /\ DOMAIN vs = 1 .. n /\ Len(ws) = n + 1 /\ DOMAIN ws = 1 .. n + 1
      /\ \A i \in DOMAIN vs : ws[i] = vs[i]
      /\ ws[n + 1] = v
  BY SeqFacts, AppendSeq
<1> HIDE DEF ws
<1>2. Alike(BindingList(ws), Rooted(own, ws), BindingList(vs), Rooted(own, vs), n)
  BY <1>1 DEF Alike, BindingList, Rooted
<1>3. Selected(BindingList(ws), Rooted(own, ws))[n] = Selected(BindingList(vs), Rooted(own, vs))[n]
  BY <1>1, <1>2, SelectedSame
<1>4. n + 1 \in Rooted(own, ws) /\ BindingList(ws)[n + 1] = Binding(v)
  BY <1>1 DEF BindingList, Rooted
<1>5. Selected(BindingList(ws), Rooted(own, ws))[n + 1]
        = Append(Selected(BindingList(ws), Rooted(own, ws))[n], BindingList(ws)[n + 1])
  BY <1>1, <1>4, SelectedNext
<1>6. /\ BoundIn(own, ws) = Selected(BindingList(ws), Rooted(own, ws))[n + 1]
      /\ BoundIn(own, vs) = Selected(BindingList(vs), Rooted(own, vs))[n]
  BY <1>1, BoundIs
<1> QED
  BY <1>3, <1>4, <1>5, <1>6 DEF ws

(***************************************************************************)
(* What the changes of the stack and of the variables are for the scopes.  *)
(***************************************************************************)
\* The scopes up to a position are those of the activations up to there.
ScopesAlike(s, vs, t, ws, n) ==
    \A k \in 1 .. n : /\ IsOpen(s[k]) <=> IsOpen(t[k])
                      /\ IsOpen(s[k]) => ScopeOf(s[k], vs) = ScopeOf(t[k], ws)

LEMMA ScopesAgree ==
    ASSUME NEW s, NEW vs, NEW t, NEW ws, NEW n \in Nat,
           IsSeq(s), IsSeq(t), n <= Len(s), n <= Len(t), ScopesAlike(s, vs, t, ws, n)
    PROVE  Selected(ScopeList(s, vs), OpenFrames(s))[n] = Selected(ScopeList(t, ws), OpenFrames(t))[n]
<1>1. DOMAIN s = 1 .. Len(s) /\ DOMAIN t = 1 .. Len(t) /\ Len(s) \in Nat /\ Len(t) \in Nat
  BY SeqFacts
<1>2. \A k \in 1 .. n : k \in DOMAIN s /\ k \in DOMAIN t
  BY <1>1
<1>3. Alike(ScopeList(s, vs), OpenFrames(s), ScopeList(t, ws), OpenFrames(t), n)
  BY <1>2 DEF OpenFrames, ScopeList, ScopesAlike, Alike
<1> QED
  BY <1>3, SelectedSame

LEMMA ScopesLike ==
    ASSUME NEW s, NEW vs, NEW t, NEW ws, IsSeq(s), IsSeq(t), Len(s) = Len(t),
           ScopesAlike(s, vs, t, ws, Len(s))
    PROVE  ScopesOf(s, vs) = ScopesOf(t, ws)
<1>1. Len(s) \in Nat /\ Len(s) <= Len(s) /\ Len(s) <= Len(t)
  BY SeqFacts
<1>2. Selected(ScopeList(s, vs), OpenFrames(s))[Len(s)] = Selected(ScopeList(t, ws), OpenFrames(t))[Len(s)]
  BY <1>1, ScopesAgree
<1> QED
  BY <1>2, ScopesAre

\* An activation on top: a scope, or none.
LEMMA ScopesPushed ==
    ASSUME NEW s, NEW vs, NEW f, IsSeq(s)
    PROVE  ScopesOf(Append(s, f), vs) = IF IsOpen(f) THEN Append(ScopesOf(s, vs), ScopeOf(f, vs))
                                        ELSE ScopesOf(s, vs)
<1> DEFINE t == Append(s, f)
           n == Len(s)
           K == OpenFrames(t)
           L == ScopeList(t, vs)
<1>1. /\ IsSeq(t) /\ Len(t) = n + 1 /\ DOMAIN t = 1 .. n + 1 /\ t[n + 1] = f
      /\ \A k \in 1 .. n : t[k] = s[k]
      /\ n \in Nat /\ n <= Len(t) /\ n <= Len(s) /\ DOMAIN s = 1 .. n
  BY SeqFacts, AppendSeq
<1> HIDE DEF t
<1>2. Selected(ScopeList(s, vs), OpenFrames(s))[n] = Selected(L, K)[n]
  <2>1. ScopesAlike(s, vs, t, vs, n)
    BY <1>1 DEF ScopesAlike
  <2> QED
    BY <1>1, <2>1, ScopesAgree
<1>3. L[n + 1] = ScopeOf(f, vs) /\ (n + 1 \in K <=> IsOpen(f))
  BY <1>1 DEF OpenFrames, ScopeList
<1> HIDE DEF L, K
<1>4. Selected(L, K)[n + 1] = IF n + 1 \in K THEN Append(Selected(L, K)[n], L[n + 1])
                              ELSE Selected(L, K)[n]
  BY <1>1, SelectedNext
<1>5. ScopesOf(t, vs) = Selected(L, K)[n + 1]
  BY <1>1, ScopesAre DEF L, K
<1>6. ScopesOf(s, vs) = Selected(ScopeList(s, vs), OpenFrames(s))[n]
  BY ScopesAre
<1> QED
  BY <1>2, <1>3, <1>4, <1>5, <1>6 DEF t

LEMMA ClosedPushed ==
    ASSUME NEW s, NEW vs, NEW f, IsSeq(s), ~IsOpen(f)
    PROVE  ScopesOf(Append(s, f), vs) = ScopesOf(s, vs)
<1>1. ScopesOf(Append(s, f), vs) = IF IsOpen(f) THEN Append(ScopesOf(s, vs), ScopeOf(f, vs))
                                   ELSE ScopesOf(s, vs)
  BY ScopesPushed
<1> QED
  BY <1>1

LEMMA OpenPushed ==
    ASSUME NEW s, NEW vs, NEW f, IsSeq(s), IsOpen(f)
    PROVE  ScopesOf(Append(s, f), vs) = Append(ScopesOf(s, vs), ScopeOf(f, vs))
<1>1. ScopesOf(Append(s, f), vs) = IF IsOpen(f) THEN Append(ScopesOf(s, vs), ScopeOf(f, vs))
                                   ELSE ScopesOf(s, vs)
  BY ScopesPushed
<1> QED
  BY <1>1

LEMMA AlikePushed ==
    ASSUME NEW s, NEW vs, NEW f, NEW g, IsSeq(s),
           ScopeOf(f, vs) = ScopeOf(g, vs), IsOpen(f) <=> IsOpen(g)
    PROVE  ScopesOf(Append(s, f), vs) = ScopesOf(Append(s, g), vs)
<1>1. CASE IsOpen(g)
  BY <1>1, OpenPushed
<1>2. CASE ~IsOpen(g)
  BY <1>2, ClosedPushed
<1> QED
  BY <1>1, <1>2

\* The position of the scope of the k-th activation.
Depth(s, vs, k) == Place(ScopeList(s, vs), OpenFrames(s), k)

\* The bindings of one body change.
LEMMA ChangesScope ==
    ASSUME NEW s, IsSeq(s), NEW vs, NEW ws, NEW k \in OpenFrames(s),
           \A i \in OpenFrames(s) : i # k => BoundIn(s[i].own, ws) = BoundIn(s[i].own, vs)
    PROVE  /\ Depth(s, vs, k) \in 1 .. Len(ScopesOf(s, vs))
           /\ ScopesOf(s, vs)[Depth(s, vs, k)] = ScopeOf(s[k], vs)
           /\ ScopesOf(s, ws) = [ScopesOf(s, vs) EXCEPT ![Depth(s, vs, k)] = ScopeOf(s[k], ws)]
<1> DEFINE n == Len(s)
           g == ScopeList(s, vs)
           h == ScopeList(s, ws)
           K == OpenFrames(s)
<1>1. n \in Nat /\ DOMAIN s = 1 .. n /\ k \in 1 .. n /\ k \in K
  BY SeqFacts DEF OpenFrames
<1>2. OtherAt(g, K, h, n, k)
  BY <1>1 DEF OtherAt, ScopeList, ScopeOf, OpenFrames
<1>3. g[k] = ScopeOf(s[k], vs) /\ h[k] = ScopeOf(s[k], ws)
  BY <1>1 DEF ScopeList
<1>4. ScopesOf(s, vs) = Selected(g, K)[n] /\ ScopesOf(s, ws) = Selected(h, K)[n]
  BY ScopesAre
<1>5. Depth(s, vs, k) = Place(g, K, k) /\ Place(g, K, n) = Len(Selected(g, K)[n])
  BY DEF Depth, Place
<1> HIDE DEF n, g, h, K
<1>6. Place(g, K, k) \in 1 .. Place(g, K, n) /\ Selected(g, K)[n][Place(g, K, k)] = g[k]
  BY <1>1, PlaceHolds
<1>7. Selected(h, K)[n] = ReplacedAt(Selected(g, K)[n], Place(g, K, k), h[k])
  BY <1>1, <1>2, SelectedChanged
<1>8. Selected(h, K)[n] = [Selected(g, K)[n] EXCEPT ![Place(g, K, k)] = h[k]]
  BY <1>7 DEF ReplacedAt
<1> QED
  BY <1>3, <1>4, <1>5, <1>6, <1>8

LEMMA ScopeMore ==
    ASSUME NEW x, NEW y, NEW c
    PROVE  [sees |-> x, vars |-> Append(y, c)]
             = [[sees |-> x, vars |-> y] EXCEPT !.vars = Append(@, c)]
OBVIOUS

\* No open body is above the k-th activation, and no other one is at its address.
IsInner(s, k, own) == \A i \in OpenFrames(s) : i <= k /\ (i # k => s[i].own # own)

\* A variable of the innermost scope is declared.
LEMMA DeclaresInScope ==
    ASSUME NEW s, IsSeq(s), NEW vs, IsSeq(vs), NEW v, NEW k \in OpenFrames(s), s[k].own = v.root,
           IsInner(s, k, v.root)
    PROVE  /\ ScopesOf(s, vs) # <<>>
           /\ ScopesOf(s, Append(vs, v)) =
                [ScopesOf(s, vs) EXCEPT ![Len(ScopesOf(s, vs))].vars = Append(@, Binding(v))]
<1> DEFINE ws == Append(vs, v)
           n == Len(s)
           d == Depth(s, vs, k)
           S == ScopesOf(s, vs)
<1>1. /\ IsSeq(ws) /\ Len(ws) = Len(vs) + 1 /\ DOMAIN ws = 1 .. Len(vs) + 1 /\ Len(vs) \in Nat
      /\ \A i \in DOMAIN vs : ws[i] = vs[i]
      /\ ws[Len(vs) + 1] = v
  BY SeqFacts, AppendSeq
<1>2. ASSUME NEW i \in OpenFrames(s), i # k PROVE BoundIn(s[i].own, ws) = BoundIn(s[i].own, vs)
  <2>1. \A j \in DOMAIN ws : j > Len(vs) => ws[j].root # s[i].own
    BY <1>1, <1>2 DEF IsInner
  <2> HIDE DEF ws
  <2> QED
    BY <1>1, <2>1, BoundPrefix
<1>3. /\ d \in 1 .. Len(S) /\ S[d] = ScopeOf(s[k], vs)
      /\ ScopesOf(s, ws) = [S EXCEPT ![d] = ScopeOf(s[k], ws)]
  <2> HIDE DEF ws
  <2> QED
    BY <1>2, ChangesScope
<1>4. d = Len(S)
  <2>1. n \in Nat /\ DOMAIN s = 1 .. n /\ k \in 1 .. n
    BY SeqFacts DEF OpenFrames
  <2>2. NoneBetween(OpenFrames(s), k, n)
    BY <2>1 DEF NoneBetween, IsInner
  <2>3. Selected(ScopeList(s, vs), OpenFrames(s))[n] = Selected(ScopeList(s, vs), OpenFrames(s))[k]
    BY <2>1, <2>2, SelectedNoMore
  <2> QED
    BY <2>3, ScopesAre DEF Depth, Place
<1>5. ScopeOf(s[k], ws) = [ScopeOf(s[k], vs) EXCEPT !.vars = Append(@, Binding(v))]
  <2>1. BoundIn(s[k].own, ws) = Append(BoundIn(s[k].own, vs), Binding(v))
    BY BoundMore
  <2> QED
    BY <2>1, ScopeMore DEF ScopeOf
<1>6. IsSeq(S) /\ Len(S) \in Nat
  BY ScopesSeq, SeqFacts
<1> HIDE DEF d, S, ws
<1>7. ScopesOf(s, ws) = [S EXCEPT ![Len(S)] = [S[Len(S)] EXCEPT !.vars = Append(@, Binding(v))]]
  BY <1>3, <1>4, <1>5
<1>8. S # <<>>
  <2>1. Len(S) # 0
    BY <1>3, <1>4, <1>6
  <2> QED
    BY <2>1, EmptySeq
<1> QED
  BY <1>7, <1>8 DEF S, ws

\* The variables of closed bodies do not matter.
LEMMA ScopesKept ==
    ASSUME NEW s, IsSeq(s), NEW vs, IsSeq(vs), NEW ws, IsSeq(ws), Len(vs) <= Len(ws),
           \A i \in DOMAIN vs : ws[i] = vs[i],
           \A k \in OpenFrames(s), i \in DOMAIN ws : i > Len(vs) => ws[i].root # s[k].own
    PROVE  ScopesOf(s, vs) = ScopesOf(s, ws)
<1>1. Len(s) \in Nat /\ DOMAIN s = 1 .. Len(s)
  BY SeqFacts
<1>2. ASSUME NEW k \in OpenFrames(s) PROVE ScopeOf(s[k], vs) = ScopeOf(s[k], ws)
  <2>1. BoundIn(s[k].own, ws) = BoundIn(s[k].own, vs)
    BY BoundPrefix
  <2> QED
    BY <2>1 DEF ScopeOf
<1>3. ScopesAlike(s, vs, s, ws, Len(s))
  BY <1>1, <1>2 DEF ScopesAlike, OpenFrames
<1> QED
  BY <1>3, ScopesLike

\* The place of the i-th variable among those of its body.
Slot(vs, i) == Place(BindingList(vs), Rooted(vs[i].root, vs), i)

\* One variable changes its value.
ValueSet(vs, i, v, ws) ==
    /\ DOMAIN ws = DOMAIN vs /\ Len(ws) = Len(vs)
    /\ \A j \in DOMAIN vs : j # i => ws[j] = vs[j]
    /\ ws[i].root = vs[i].root /\ ws[i].id = vs[i].id /\ ws[i].val = v

LEMMA BoundSet ==
    ASSUME NEW vs, IsSeq(vs), NEW i \in DOMAIN vs, NEW v, NEW ws, ValueSet(vs, i, v, ws)
    PROVE  /\ Slot(vs, i) \in 1 .. Len(BoundIn(vs[i].root, vs))
           /\ BoundIn(vs[i].root, vs)[Slot(vs, i)] = Binding(vs[i])
           /\ BoundIn(vs[i].root, ws)
                = ReplacedAt(BoundIn(vs[i].root, vs), Slot(vs, i), [id |-> vs[i].id, val |-> v])
<1> DEFINE n == Len(vs)
           g == BindingList(vs)
           h == BindingList(ws)
           K == Rooted(vs[i].root, vs)
<1>1. n \in Nat /\ DOMAIN vs = 1 .. n /\ i \in 1 .. n /\ i \in K
  BY SeqFacts DEF Rooted
<1>2. Rooted(vs[i].root, ws) = K
  BY DEF Rooted, ValueSet
<1>3. OtherAt(g, K, h, n, i)
  BY <1>1 DEF OtherAt, BindingList, ValueSet
<1>4. g[i] = Binding(vs[i]) /\ h[i] = [id |-> vs[i].id, val |-> v]
  BY <1>1 DEF BindingList, ValueSet, Binding
<1>5. /\ BoundIn(vs[i].root, vs) = Selected(g, K)[n]
      /\ BoundIn(vs[i].root, ws) = Selected(h, K)[n]
  BY <1>2, BoundIs DEF ValueSet
<1>6. Slot(vs, i) = Place(g, K, i) /\ Place(g, K, n) = Len(Selected(g, K)[n])
  BY DEF Slot, Place
<1> HIDE DEF n, g, h, K
<1>7. Place(g, K, i) \in 1 .. Place(g, K, n) /\ Selected(g, K)[n][Place(g, K, i)] = g[i]
  BY <1>1, PlaceHolds
<1>8. Selected(h, K)[n] = ReplacedAt(Selected(g, K)[n], Place(g, K, i), h[i])
  BY <1>1, <1>3, SelectedChanged
<1> QED
  BY <1>4, <1>5, <1>6, <1>7, <1>8

LEMMA BoundElsewhere ==
    ASSUME NEW vs, IsSeq(vs), NEW i \in DOMAIN vs, NEW v, NEW ws, ValueSet(vs, i, v, ws),
           NEW own, own # vs[i].root
    PROVE  BoundIn(own, ws) = BoundIn(own, vs)
<1>1. Len(vs) \in Nat /\ DOMAIN vs = 1 .. Len(vs)
  BY SeqFacts
<1>2. Alike(BindingList(ws), Rooted(own, ws), BindingList(vs), Rooted(own, vs), Len(vs))
  BY <1>1 DEF Alike, BindingList, Rooted, ValueSet
<1>3. Selected(BindingList(ws), Rooted(own, ws))[Len(vs)] = Selected(BindingList(vs), Rooted(own, vs))[Len(vs)]
  BY <1>1, <1>2, SelectedSame
<1> QED
  BY <1>3, BoundIs DEF ValueSet

\* A variable is assigned: one binding of one scope changes.
LEMMA AssignsInScope ==
    ASSUME NEW s, IsSeq(s), NEW vs, IsSeq(vs), NEW i \in DOMAIN vs, NEW v,
           NEW ws, ValueSet(vs, i, v, ws),
           NEW k \in OpenFrames(s), s[k].own = vs[i].root,
           \A j \in OpenFrames(s) : j # k => s[j].own # vs[i].root
    PROVE  /\ Depth(s, vs, k) \in 1 .. Len(ScopesOf(s, vs))
           /\ ScopesOf(s, vs)[Depth(s, vs, k)] = ScopeOf(s[k], vs)
           /\ ScopesOf(s, ws) =
                [ScopesOf(s, vs) EXCEPT ![Depth(s, vs, k)].vars[Slot(vs, i)].val = v]
<1> DEFINE S == ScopesOf(s, vs)
           d == Depth(s, vs, k)
           q == Slot(vs, i)
<1>1. \A j \in OpenFrames(s) : j # k => BoundIn(s[j].own, ws) = BoundIn(s[j].own, vs)
  BY BoundElsewhere
<1>2. /\ d \in 1 .. Len(S) /\ S[d] = ScopeOf(s[k], vs)
      /\ ScopesOf(s, ws) = [S EXCEPT ![d] = ScopeOf(s[k], ws)]
  BY <1>1, ChangesScope
<1>3. /\ q \in 1 .. Len(BoundIn(s[k].own, vs)) /\ BoundIn(s[k].own, vs)[q] = Binding(vs[i])
      /\ BoundIn(s[k].own, ws) = ReplacedAt(BoundIn(s[k].own, vs), q, [id |-> vs[i].id, val |-> v])
  BY BoundSet
<1> HIDE DEF S, d, q
<1>4. ScopeOf(s[k], ws) = [ScopeOf(s[k], vs) EXCEPT !.vars[q].val = v]
  <2> DEFINE b == BoundIn(s[k].own, vs)
  <2>1. [id |-> vs[i].id, val |-> v] = [b[q] EXCEPT !.val = v]
    BY <1>3 DEF Binding
  <2>2. BoundIn(s[k].own, ws) = [b EXCEPT ![q] = [b[q] EXCEPT !.val = v]]
    BY <1>3, <2>1 DEF ReplacedAt
  <2>3. ASSUME NEW x, NEW y, NEW z, z = [y EXCEPT ![q] = [y[q] EXCEPT !.val = v]]
        PROVE  [sees |-> x, vars |-> z] = [[sees |-> x, vars |-> y] EXCEPT !.vars[q].val = v]
    BY <2>3
  <2> HIDE DEF b
  <2>4. [sees |-> s[k].node.kind = "for", vars |-> BoundIn(s[k].own, ws)]
          = [[sees |-> s[k].node.kind = "for", vars |-> b] EXCEPT !.vars[q].val = v]
    BY <2>2, <2>3
  <2> QED
    BY <2>4 DEF ScopeOf, b
<1>5. ScopesOf(s, ws) = [S EXCEPT ![d] = [S[d] EXCEPT !.vars[q].val = v]]
  BY <1>2, <1>4
<1> QED
  BY <1>2, <1>5 DEF S, d, q

(***************************************************************************)
(* The chain of bodies of a statement is that of the scopes it sees.       *)
(***************************************************************************)
LEMMA FrameType ==
    ASSUME TypeOK, NEW k \in DOMAIN stack
    PROVE  stack[k] \in Frame /\ stack[k].node \in Node
<1>1. stack[k] \in Frame
  BY Typed
<1> QED
  BY <1>1 DEF Frame

\* A function with a frame above it is not a bound one.
LEMMA FunctionOwns ==
    ASSUME TypeOK, NEW quiet, Tame(quiet), Stacked(quiet), NEW k \in 1 .. Len(stack) - 1,
           stack[k].node.kind = "func"
    PROVE  stack[k].own # GlobalScope
<1>0. k \in DOMAIN stack /\ k + 1 \in DOMAIN stack
  BY VariablesIndexed
<1>1. stack[k].node \in Node /\ stack[k + 1].node \in Node
  BY <1>0, FrameType
<1>2. WaitsFor(stack[k], stack[k + 1]) /\ ChainOK(stack[k]) /\ ChainOK(stack[k + 1])
  BY <1>0 DEF Stacked, Frames
<1>3. stack[k + 1].node.kind # "func"
  BY <1>1, <1>2, ChildKinds DEF InAt
<1>4. stack[k + 1].chain = Seen(stack[k])
  BY <1>2, <1>3 DEF WaitsFor
<1> QED
  BY <1>2, <1>3, <1>4 DEF ChainOK, Seen

\* The chain of an activation has every body below it in the same call, but for
\* the body of a loop whose first expression it belongs to.
LEMMA ChainComplete ==
    ASSUME TypeOK, NEW quiet, Tame(quiet), Stacked(quiet), NEW g \in DOMAIN stack,
           stack[g].own # GlobalScope, stack[g].pc # "variable"
    PROVE  \A n \in DOMAIN stack : g < n /\ NoEntry(g, n) =>
                \E c \in DOMAIN stack[n].chain : stack[n].chain[c] = stack[g].own
<1> DEFINE own == stack[g].own
           Has(n) == \E c \in DOMAIN stack[n].chain : stack[n].chain[c] = own
           S == {n \in Nat : n \in DOMAIN stack /\ g < n /\ NoEntry(g, n) => Has(n)}
<1>0. Len(stack) \in Nat /\ DOMAIN stack = 1 .. Len(stack) /\ stack \in Seq(Frame) /\ g \in Nat
  BY VariablesIndexed, Typed
<1>1. 0 \in S
  BY <1>0
<1>2. ASSUME NEW n \in Nat, n \in S PROVE n + 1 \in S
  <2> SUFFICES ASSUME n + 1 \in DOMAIN stack, g < n + 1, NoEntry(g, n + 1) PROVE Has(n + 1)
    OBVIOUS
  <2>1. n \in DOMAIN stack /\ stack[n] \in Frame
    BY <1>0, FrameType
  <2>2. WaitsFor(stack[n], stack[n + 1]) /\ stack[n + 1].node.kind # "func"
    <3>1. WaitsFor(stack[n], stack[n + 1])
      BY <2>1 DEF Stacked, Frames
    <3>2. n + 1 \in g + 1 .. n + 1
      BY <1>0
    <3> QED
      BY <3>1, <3>2 DEF NoEntry
  <2>3. stack[n + 1].chain = Seen(stack[n])
    BY <2>2 DEF WaitsFor
  <2>4. CASE n = g
    <3>1. Seen(stack[n]) # <<>> /\ Seen(stack[n])[1] = own /\ Seen(stack[n]) \in Seq(Body \cup {GlobalScope})
      BY <2>1, <2>4, SeenShape
    <3>2. 1 \in DOMAIN Seen(stack[n])
      BY <3>1
    <3> QED
      BY <2>3, <3>1, <3>2
  <2>5. CASE g < n
    <3>1. NoEntry(g, n)
      BY <1>0, <2>1 DEF NoEntry
    <3>2. PICK c \in DOMAIN stack[n].chain : stack[n].chain[c] = own
      BY <1>2, <2>1, <2>5, <3>1
    <3>3. CASE stack[n].own = GlobalScope \/ stack[n].pc = "variable"
      BY <2>1, <2>3, <3>2, <3>3, SeenShape
    <3>4. CASE stack[n].own # GlobalScope /\ stack[n].pc # "variable"
      <4>1. stack[n].chain \in Seq(Body) /\ stack[n].own \in Body \cup {GlobalScope}
        BY <2>1 DEF Frame
      <4>2. PICK x \in Seq(Body \cup {GlobalScope}) : x = stack[n].chain
        BY <4>1
      <4>3. Seen(stack[n]) = <<stack[n].own>> \o x
        BY <3>4, <4>2 DEF Seen
      <4>4. c \in 1 .. Len(x) /\ x[c] = own
        BY <3>2, <4>2
      <4>5. c + 1 \in DOMAIN Seen(stack[n]) /\ Seen(stack[n])[c + 1] = own
        BY <4>1, <4>3, <4>4
      <4> QED
        BY <2>3, <4>5
    <3> QED
      BY <3>3, <3>4
  <2> QED
    BY <1>0, <2>1, <2>4, <2>5
<1> HIDE DEF S
<1>3. Nat \subseteq S
  BY <1>1, <1>2, Induction
<1> QED
  BY <1>0, <1>3 DEF S

\* What runs for the first expression of a loop, in the same call, are expressions.
LEMMA HeadExpressions ==
    ASSUME TypeOK, NEW quiet, Tame(quiet), Stacked(quiet), NEW g \in DOMAIN stack,
           stack[g].pc = "variable"
    PROVE  \A n \in DOMAIN stack : g < n /\ NoEntry(g, n) =>
                stack[n].node.kind \in Expressions \cup {"none"}
<1> DEFINE S == {n \in Nat : n \in DOMAIN stack /\ g < n /\ NoEntry(g, n) =>
                                stack[n].node.kind \in Expressions \cup {"none"}}
<1>0. Len(stack) \in Nat /\ DOMAIN stack = 1 .. Len(stack) /\ stack \in Seq(Frame) /\ g \in Nat
  BY VariablesIndexed, Typed
<1>1. 0 \in S
  BY <1>0
<1>2. ASSUME NEW n \in Nat, n \in S PROVE n + 1 \in S
  <2> SUFFICES ASSUME n + 1 \in DOMAIN stack, g < n + 1, NoEntry(g, n + 1)
               PROVE  stack[n + 1].node.kind \in Expressions \cup {"none"}
    OBVIOUS
  <2>0. n \in DOMAIN stack
    BY <1>0
  <2>1. n \in DOMAIN stack /\ stack[n].node \in Node /\ stack[n + 1].node \in Node
    BY <2>0, FrameType
  <2>2. WaitsFor(stack[n], stack[n + 1]) /\ stack[n + 1].node.kind # "func"
    <3>1. WaitsFor(stack[n], stack[n + 1])
      BY <2>1 DEF Stacked, Frames
    <3>2. n + 1 \in g + 1 .. n + 1
      BY <1>0
    <3> QED
      BY <3>1, <3>2 DEF NoEntry
  <2>3. CASE n = g
    BY <2>1, <2>2, <2>3, ChildKinds
  <2>4. CASE g < n
    <3>1. NoEntry(g, n)
      BY <1>0, <2>1 DEF NoEntry
    <3>2. stack[n].node.kind \in Expressions \cup {"none"}
      BY <1>2, <2>1, <2>4, <3>1
    <3>3. stack[n].node.kind \in Operators
      BY <2>1, <2>2, <3>2, ChildKinds DEF Expressions
    <3> QED
      BY <2>1, <2>2, <3>3, ChildKinds
  <2> QED
    BY <1>0, <2>1, <2>3, <2>4
<1> HIDE DEF S
<1>3. Nat \subseteq S
  BY <1>1, <1>2, Induction
<1> QED
  BY <1>0, <1>3 DEF S

(***************************************************************************)
(* A lookup finds the innermost binding.                                   *)
(***************************************************************************)
LEMMA DepthFacts ==
    ASSUME NEW s, IsSeq(s), NEW vs
    PROVE  /\ \A d \in DOMAIN ScopesOf(s, vs) : \E k \in OpenFrames(s) : Depth(s, vs, k) = d
           /\ \A k \in OpenFrames(s) : /\ Depth(s, vs, k) \in DOMAIN ScopesOf(s, vs)
                                       /\ Depth(s, vs, k) \in Nat
                                       /\ ScopesOf(s, vs)[Depth(s, vs, k)] = ScopeOf(s[k], vs)
           /\ \A j, k \in OpenFrames(s) : j < k => Depth(s, vs, j) < Depth(s, vs, k)
<1> DEFINE S == ScopesOf(s, vs)
           K == OpenFrames(s)
           g == ScopeList(s, vs)
           n == Len(s)
<1>1. n \in Nat /\ K \subseteq 1 .. n
  BY SeqFacts DEF OpenFrames
<1>2. S = Selected(g, K)[n] /\ Place(g, K, n) = Len(S) /\ DOMAIN S = 1 .. Len(S)
  <2>1. S = Selected(g, K)[n]
    BY ScopesAre
  <2> QED
    BY <2>1, ScopesSeq, SeqFacts DEF Place
<1>3. \A k : Depth(s, vs, k) = Place(g, K, k)
  BY DEF Depth
<1>4. ASSUME NEW k \in K
      PROVE  Depth(s, vs, k) \in DOMAIN S /\ S[Depth(s, vs, k)] = ScopeOf(s[k], vs)
  BY <1>2, ChangesScope
<1> HIDE DEF S, K, g, n
<1>5. ASSUME NEW d \in DOMAIN S PROVE \E k \in K : Depth(s, vs, k) = d
  BY <1>1, <1>2, <1>3, PlaceOf
<1>6. ASSUME NEW j \in K, NEW k \in K, j < k PROVE Depth(s, vs, j) < Depth(s, vs, k)
  <2>1. j \in Nat /\ k \in Nat
    BY <1>1
  <2> QED
    BY <1>3, <1>6, <2>1, PlacesAscend
<1>7. \A k \in K : Depth(s, vs, k) \in Nat
  BY <1>2, <1>4
<1> QED
  BY <1>4, <1>5, <1>6, <1>7 DEF S, K

LEMMA SlotFacts ==
    ASSUME NEW vs, IsSeq(vs)
    PROVE  /\ \A own : \A q \in DOMAIN BoundIn(own, vs) :
                \E i \in DOMAIN vs : vs[i].root = own /\ Slot(vs, i) = q
           /\ \A i \in DOMAIN vs : /\ Slot(vs, i) \in DOMAIN BoundIn(vs[i].root, vs)
                                   /\ Slot(vs, i) \in Nat
                                   /\ BoundIn(vs[i].root, vs)[Slot(vs, i)] = Binding(vs[i])
           /\ \A i, j \in DOMAIN vs : i < j /\ vs[i].root = vs[j].root => Slot(vs, i) < Slot(vs, j)
<1>1. Len(vs) \in Nat /\ DOMAIN vs = 1 .. Len(vs)
  BY SeqFacts
<1>2. ASSUME NEW own
      PROVE  /\ DOMAIN BoundIn(own, vs) = 1 .. Place(BindingList(vs), Rooted(own, vs), Len(vs))
             /\ BoundIn(own, vs) = Selected(BindingList(vs), Rooted(own, vs))[Len(vs)]
  <2>1. BoundIn(own, vs) = Selected(BindingList(vs), Rooted(own, vs))[Len(vs)]
    BY BoundIs
  <2>2. IsSeq(Selected(BindingList(vs), Rooted(own, vs))[Len(vs)])
    BY <1>1, SelectedIsSeq
  <2> QED
    BY <2>1, <2>2, SeqFacts DEF Place
<1>3. ASSUME NEW own, NEW q \in DOMAIN BoundIn(own, vs)
      PROVE  \E i \in DOMAIN vs : vs[i].root = own /\ Slot(vs, i) = q
  <2>0. q \in 1 .. Place(BindingList(vs), Rooted(own, vs), Len(vs))
    BY <1>2
  <2>1. PICK i \in 1 .. Len(vs) : i \in Rooted(own, vs) /\ Place(BindingList(vs), Rooted(own, vs), i) = q
    BY <1>1, <2>0, PlaceOf
  <2>2. vs[i].root = own /\ i \in DOMAIN vs
    BY <2>1 DEF Rooted
  <2> QED
    BY <2>1, <2>2 DEF Slot
<1>4. ASSUME NEW i \in DOMAIN vs
      PROVE  /\ Slot(vs, i) \in DOMAIN BoundIn(vs[i].root, vs) /\ Slot(vs, i) \in Nat
             /\ BoundIn(vs[i].root, vs)[Slot(vs, i)] = Binding(vs[i])
  <2>1. i \in Rooted(vs[i].root, vs) /\ i \in 1 .. Len(vs)
    BY <1>1 DEF Rooted
  <2>2. /\ Slot(vs, i) \in 1 .. Place(BindingList(vs), Rooted(vs[i].root, vs), Len(vs))
        /\ Selected(BindingList(vs), Rooted(vs[i].root, vs))[Len(vs)][Slot(vs, i)] = BindingList(vs)[i]
    BY <1>1, <2>1, PlaceHolds DEF Slot
  <2>3. BindingList(vs)[i] = Binding(vs[i])
    BY DEF BindingList
  <2>4. Place(BindingList(vs), Rooted(vs[i].root, vs), Len(vs)) \in Nat
    BY <1>1, SelectedIsSeq
  <2> QED
    BY <1>2, <2>2, <2>3, <2>4
<1>5. ASSUME NEW i \in DOMAIN vs, NEW j \in DOMAIN vs, i < j, vs[i].root = vs[j].root
      PROVE  Slot(vs, i) < Slot(vs, j)
  <2>1. i \in Nat /\ j \in Nat /\ j \in Rooted(vs[i].root, vs)
    BY <1>1, <1>5 DEF Rooted
  <2> QED
    BY <1>5, <2>1, PlacesAscend DEF Slot
<1> QED
  BY <1>3, <1>4, <1>5

\* The running statement is an assignment, or another one that owns no body.
Assigning(quiet) == TypeOK /\ Tame(quiet) /\ Core(quiet) /\ Running /\ Top.node.kind = "assign"

LEMMA Indexed ==
    ASSUME TypeOK
    PROVE  /\ IsSeq(stack) /\ IsSeq(variables.insts)
           /\ Len(stack) \in Nat /\ DOMAIN stack = 1 .. Len(stack)
           /\ Len(variables.insts) \in Nat /\ DOMAIN variables.insts = 1 .. Len(variables.insts)
BY VariablesIndexed DEF IsSeq, TypeOK

LEMMA OwnersOpen ==
    ASSUME NEW quiet, Assigning(quiet)
    PROVE  /\ Len(stack) \in DOMAIN stack /\ Top = stack[Len(stack)] /\ Top.own = GlobalScope
           /\ \A k \in DOMAIN stack : /\ IsOpen(stack[k]) <=> stack[k].own # GlobalScope
                                      /\ stack[k].own # GlobalScope => k < Len(stack)
<1>1. stack # <<>>
  BY DEF Assigning, Running
<1>2. Len(stack) \in DOMAIN stack /\ Top = stack[Len(stack)]
  BY <1>1, Indexed DEF Assigning, TypeOK, Top
<1>3. Top.own = GlobalScope
  BY <1>2 DEF Assigning, Core, Stacked, Frames, OwnOK, OwnsBody
<1>4. ASSUME NEW k \in DOMAIN stack, stack[k].own # GlobalScope
      PROVE  k < Len(stack) /\ IsOpen(stack[k])
  <2>1. k < Len(stack)
    BY <1>2, <1>3, <1>4, Indexed DEF Assigning
  <2>2. k + 1 \in DOMAIN stack
    BY <2>1, Indexed DEF Assigning
  <2>3. stack[k].pc \notin {"leave", "unwind"}
    BY <2>2, WaitingStays DEF Assigning, Core, Stacked, Frames
  <2> QED
    BY <1>4, <2>1, <2>3 DEF IsOpen
<1> QED
  BY <1>2, <1>3, <1>4 DEF IsOpen

\* The scopes an assignment sees are those of the same call ...
LEMMA SeesCall ==
    ASSUME NEW quiet, Assigning(quiet), NEW k \in OpenFrames(stack)
    PROVE  Lexical!IsVisible(Depth(stack, variables.insts, k)) <=> NoEntry(k, Len(stack))
<1> DEFINE n == Len(stack)
           D(j) == Depth(stack, variables.insts, j)
<1>0. IsSeq(stack) /\ DOMAIN stack = 1 .. n /\ n \in Nat
  BY Indexed DEF Assigning
<1>1. /\ \A d \in DOMAIN Scopes : \E h \in OpenFrames(stack) : D(h) = d
      /\ \A h \in OpenFrames(stack) : /\ D(h) \in DOMAIN Scopes /\ D(h) \in Nat
                                      /\ Scopes[D(h)] = ScopeOf(stack[h], variables.insts)
      /\ \A h, j \in OpenFrames(stack) : h < j => D(h) < D(j)
  BY <1>0, DepthFacts DEF Scopes
<1>2. DOMAIN Scopes = 1 .. Len(Scopes) /\ Len(Scopes) \in Nat
  BY <1>0, ScopesSeq, SeqFacts DEF Scopes
<1>3. OpenFrames(stack) \subseteq 1 .. n
  BY <1>0 DEF OpenFrames
<1> HIDE DEF D
<1>4. ASSUME Lexical!IsVisible(D(k)) PROVE NoEntry(k, n)
  <2> SUFFICES ASSUME NEW h \in k + 1 .. n, stack[h].node.kind = "func" PROVE FALSE
    BY DEF NoEntry
  <2>1. h \in 1 .. n /\ k < h
    BY <1>0, <1>3
  <2>2. h # n
    BY OwnersOpen DEF Assigning
  <2>3. stack[h].own # GlobalScope
    <3>1. h \in 1 .. Len(stack) - 1
      BY <1>0, <2>1, <2>2
    <3> QED
      BY <3>1, FunctionOwns DEF Assigning, Core
  <2>4. h \in OpenFrames(stack)
    BY <1>0, <2>1, <2>3, OwnersOpen DEF OpenFrames
  <2>5. D(h) \in D(k) + 1 .. Len(Scopes)
    <3>1. D(k) < D(h) /\ D(k) \in Nat /\ D(h) \in 1 .. Len(Scopes)
      BY <1>1, <1>2, <2>1, <2>4
    <3> QED
      BY <1>2, <3>1
  <2>6. Scopes[D(h)].sees
    BY <1>4, <2>5 DEF Lexical!IsVisible
  <2>7. Scopes[D(h)] = [sees |-> FALSE, vars |-> BoundIn(stack[h].own, variables.insts)]
    BY <1>1, <2>4 DEF ScopeOf
  <2> QED
    BY <2>6, <2>7
<1>5. ASSUME NoEntry(k, n) PROVE Lexical!IsVisible(D(k))
  <2> SUFFICES ASSUME NEW j \in D(k) + 1 .. Len(Scopes) PROVE Scopes[j].sees
    BY DEF Lexical!IsVisible
  <2>1. D(k) \in Nat /\ j \in DOMAIN Scopes /\ D(k) < j
    BY <1>1, <1>2
  <2>2. PICK h \in OpenFrames(stack) : D(h) = j
    BY <1>1, <2>1
  <2>3. k < h
    <3>1. k \in 1 .. n /\ h \in 1 .. n
      BY <1>3
    <3>2. ~(h < k)
      BY <1>1, <2>1, <2>2
    <3>3. h # k
      BY <2>1, <2>2
    <3> QED
      BY <3>1, <3>2, <3>3
  <2>4. stack[h].node.kind # "func"
    <3>1. h \in k + 1 .. n
      BY <1>3, <2>3
    <3> QED
      BY <1>5, <3>1 DEF NoEntry
  <2>5. stack[h].node.kind = "for"
    <3>1. h \in DOMAIN stack /\ stack[h].own # GlobalScope
      BY <2>2 DEF OpenFrames, IsOpen
    <3>2. OwnOK(stack[h])
      BY <3>1 DEF Assigning, Core, Stacked, Frames
    <3> QED
      BY <2>4, <3>1, <3>2 DEF OwnOK, OwnsBody
  <2>6. Scopes[j] = [sees |-> TRUE, vars |-> BoundIn(stack[h].own, variables.insts)]
    BY <1>1, <2>2, <2>5 DEF ScopeOf
  <2> QED
    BY <2>6
<1> QED
  BY <1>4, <1>5 DEF D

\* ... and their bodies are those its chain names.
LEMMA SeesChain ==
    ASSUME NEW quiet, Assigning(quiet), NEW k \in OpenFrames(stack)
    PROVE  NoEntry(k, Len(stack)) <=> \E c \in DOMAIN Top.chain : Top.chain[c] = stack[k].own
<1>1. k \in DOMAIN stack /\ stack[k].own # GlobalScope
  BY DEF OpenFrames, IsOpen
<1>2. Len(stack) \in DOMAIN stack /\ Top = stack[Len(stack)] /\ k < Len(stack)
  BY <1>1, OwnersOpen
<1>3. ASSUME NoEntry(k, Len(stack)) PROVE \E c \in DOMAIN Top.chain : Top.chain[c] = stack[k].own
  <2>1. stack[k].pc # "variable"
    <3>1. Top.node.kind \notin Expressions \cup {"none"}
      BY DEF Assigning, Expressions, Operators
    <3> QED
      BY <1>1, <1>2, <1>3, <3>1, HeadExpressions DEF Assigning, Core
  <2> QED
    BY <1>1, <1>2, <1>3, <2>1, ChainComplete DEF Assigning, Core
<1>4. ASSUME NEW c \in DOMAIN Top.chain, Top.chain[c] = stack[k].own PROVE NoEntry(k, Len(stack))
  <2>1. PICK g \in DOMAIN stack : stack[g].own = Top.chain[c] /\ NoEntry(g, Len(stack))
    BY <1>2 DEF Assigning, Core, Stacked, Enclosed
  <2>2. g = k
    BY <1>1, <1>4, <2>1 DEF Assigning, Core, Stacked, Distinct
  <2> QED
    BY <2>1, <2>2
<1> QED
  BY <1>3, <1>4

(***************************************************************************)
(* What cwr_scope_get finds is the innermost binding.                      *)
(***************************************************************************)
LEMMA TopmostIs ==
    ASSUME NEW S, Topmost(S) # 0
    PROVE  IsTop(Topmost(S), S)
<1>1. \E i \in S : IsTop(i, S)
  BY DEF Topmost
<1> QED
  BY <1>1 DEF Topmost, IsTop

\* The variables the running assignment can name.
Nameable(id) == {i \in DOMAIN variables.insts : /\ variables.insts[i].id = id
                                             /\ CanAccess(variables.insts[i], Top.chain)}

\* Where the binding of the j-th variable is, the variable being of the h-th body.
Spot(h, j) == <<Depth(stack, variables.insts, h), Slot(variables.insts, j)>>

LEMMA OwnerOf ==
    ASSUME NEW quiet, Assigning(quiet), NEW j \in DOMAIN variables.insts
    PROVE  \E h \in OpenFrames(stack) : Level(h, j)
<1>1. PICK h \in DOMAIN stack : Level(h, j)
  BY DEF Assigning, Core, Layered
<1>2. stack[h].own # GlobalScope
  BY <1>1 DEF Assigning, Core, Layered, Level
<1>3. h \in OpenFrames(stack)
  BY <1>2, OwnersOpen DEF OpenFrames
<1> QED
  BY <1>1, <1>3

LEMMA AccessIs ==
    ASSUME NEW quiet, Assigning(quiet), NEW j \in DOMAIN variables.insts,
           NEW h \in OpenFrames(stack), Level(h, j)
    PROVE  CanAccess(variables.insts[j], Top.chain)
                <=> Lexical!IsVisible(Depth(stack, variables.insts, h))
<1>1. variables.insts[j].root # GlobalScope
  BY DEF Assigning, Core, Layered
<1>2. CanAccess(variables.insts[j], Top.chain)
        <=> \E c \in DOMAIN Top.chain : Top.chain[c] = stack[h].own
  BY <1>1 DEF CanAccess, Level
<1> QED
  BY <1>2, SeesCall, SeesChain

LEMMA BindingsAre ==
    ASSUME NEW quiet, Assigning(quiet), NEW id
    PROVE  /\ \A p \in Lexical!Bindings(id) :
                \E h \in OpenFrames(stack), j \in Nameable(id) : Level(h, j) /\ p = Spot(h, j)
           /\ \A h \in OpenFrames(stack), j \in Nameable(id) : Level(h, j) =>
                Spot(h, j) \in Lexical!Bindings(id)
<1> DEFINE vs == variables.insts
           D(h) == Depth(stack, vs, h)
<1>0. IsSeq(stack) /\ IsSeq(vs)
  BY Indexed DEF Assigning
<1>1. /\ \A d \in DOMAIN Scopes : \E h \in OpenFrames(stack) : D(h) = d
      /\ \A h \in OpenFrames(stack) : D(h) \in DOMAIN Scopes
  BY <1>0, DepthFacts DEF Scopes
<1>2. ASSUME NEW h \in OpenFrames(stack)
      PROVE  Scopes[D(h)].vars = BoundIn(stack[h].own, vs)
  <2>1. Scopes[D(h)] = ScopeOf(stack[h], vs)
    BY <1>0, DepthFacts DEF Scopes
  <2> QED
    BY <2>1 DEF ScopeOf
<1>3. /\ \A own : \A q \in DOMAIN BoundIn(own, vs) :
                \E i \in DOMAIN vs : vs[i].root = own /\ Slot(vs, i) = q
      /\ \A i \in DOMAIN vs : /\ Slot(vs, i) \in DOMAIN BoundIn(vs[i].root, vs)
                              /\ BoundIn(vs[i].root, vs)[Slot(vs, i)] = Binding(vs[i])
  BY <1>0, SlotFacts
<1>4. ASSUME NEW h \in OpenFrames(stack), NEW j \in DOMAIN vs, Level(h, j)
      PROVE  /\ Slot(vs, j) \in DOMAIN Scopes[D(h)].vars
             /\ Scopes[D(h)].vars[Slot(vs, j)].id = vs[j].id
             /\ CanAccess(vs[j], Top.chain) <=> Lexical!IsVisible(D(h))
  <2>1. Scopes[D(h)].vars = BoundIn(vs[j].root, vs)
    BY <1>2, <1>4 DEF Level
  <2>2. CanAccess(vs[j], Top.chain) <=> Lexical!IsVisible(D(h))
    BY <1>4, AccessIs
  <2>3. /\ Slot(vs, j) \in DOMAIN BoundIn(vs[j].root, vs)
        /\ BoundIn(vs[j].root, vs)[Slot(vs, j)] = Binding(vs[j])
    BY <1>3
  <2>4. Binding(vs[j]).id = vs[j].id
    BY DEF Binding
  <2> HIDE DEF vs, D
  <2> QED
    BY <2>1, <2>2, <2>3, <2>4
<1> HIDE DEF vs, D
<1>5. ASSUME NEW h \in OpenFrames(stack), NEW j \in Nameable(id), Level(h, j)
      PROVE  Spot(h, j) \in Lexical!Bindings(id)
  <2>1. j \in DOMAIN vs /\ vs[j].id = id /\ CanAccess(vs[j], Top.chain)
    BY DEF Nameable, vs
  <2>2. /\ Slot(vs, j) \in DOMAIN Scopes[D(h)].vars
        /\ Scopes[D(h)].vars[Slot(vs, j)].id = id
        /\ Lexical!IsVisible(D(h)) /\ D(h) \in DOMAIN Scopes
    BY <1>1, <1>4, <1>5, <2>1
  <2>3. Spot(h, j) = <<D(h), Slot(vs, j)>>
    BY DEF Spot, D, vs
  <2> HIDE DEF Lexical!IsVisible
  <2> QED
    BY <2>2, <2>3 DEF Lexical!Bindings
<1>6. ASSUME NEW p \in Lexical!Bindings(id)
      PROVE  \E h \in OpenFrames(stack), j \in Nameable(id) : Level(h, j) /\ p = Spot(h, j)
  <2>1. PICK d \in DOMAIN Scopes : \E q \in DOMAIN Scopes[d].vars :
            p = <<d, q>> /\ Lexical!IsVisible(d) /\ Scopes[d].vars[q].id = id
    BY DEF Lexical!Bindings
  <2>2. PICK q \in DOMAIN Scopes[d].vars :
            p = <<d, q>> /\ Lexical!IsVisible(d) /\ Scopes[d].vars[q].id = id
    BY <2>1
  <2>3. PICK h \in OpenFrames(stack) : D(h) = d
    BY <1>1
  <2>4. q \in DOMAIN BoundIn(stack[h].own, vs)
    BY <1>2, <2>2, <2>3
  <2>5. PICK j \in DOMAIN vs : vs[j].root = stack[h].own /\ Slot(vs, j) = q
    BY <1>3, <2>4
  <2>6. Level(h, j)
    BY <2>5 DEF Level, vs
  <2>7. vs[j].id = id /\ CanAccess(vs[j], Top.chain)
    BY <1>4, <2>2, <2>3, <2>5, <2>6
  <2>8. j \in Nameable(id)
    BY <2>5, <2>7 DEF Nameable, vs
  <2>9. p = Spot(h, j)
    BY <2>2, <2>3, <2>5 DEF Spot, D, vs
  <2> QED
    BY <2>6, <2>8, <2>9
<1> QED
  BY <1>5, <1>6

\* The lookup of the flat array and the lookup in the scopes find the same.
LEMMA InnermostIs ==
    ASSUME NEW quiet, Assigning(quiet), NEW id, NEW i, i = Get(variables, Top.chain, id), i # 0
    PROVE  /\ i \in DOMAIN variables.insts /\ variables.insts[i].id = id
           /\ Lexical!Bindings(id) # {}
           /\ \E k \in OpenFrames(stack) : Level(k, i) /\ Lexical!Innermost(id) = Spot(k, i)
<1> DEFINE B == Lexical!Bindings(id)
           Above(p) == \A q \in B : q[1] < p[1] \/ (q[1] = p[1] /\ q[2] <= p[2])
<1>0. IsSeq(stack) /\ IsSeq(variables.insts) /\ DOMAIN stack = 1 .. Len(stack) /\ Len(stack) \in Nat
      /\ DOMAIN variables.insts = 1 .. Len(variables.insts) /\ Len(variables.insts) \in Nat
  BY Indexed DEF Assigning
<1>1. i \in Nameable(id) /\ \A j \in Nameable(id) : j <= i
  <2>1. i = Topmost(Nameable(id))
    BY DEF Get, Nameable
  <2> QED
    BY <2>1, TopmostIs DEF IsTop
<1>2. i \in DOMAIN variables.insts /\ variables.insts[i].id = id
  BY <1>1 DEF Nameable
<1>3. PICK k \in OpenFrames(stack) : Level(k, i)
  BY <1>2, OwnerOf
<1>4. Spot(k, i) \in B
  BY <1>1, <1>3, BindingsAre
<1>5. ASSUME NEW h \in OpenFrames(stack), NEW j \in Nameable(id), Level(h, j)
      PROVE  /\ Spot(h, j)[1] \in Nat /\ Spot(h, j)[2] \in Nat
             /\ \/ Spot(h, j) = Spot(k, i)
                \/ Spot(h, j)[1] < Spot(k, i)[1]
                \/ Spot(h, j)[1] = Spot(k, i)[1] /\ Spot(h, j)[2] < Spot(k, i)[2]
  <2>1. h \in DOMAIN stack /\ k \in DOMAIN stack /\ j \in DOMAIN variables.insts /\ j <= i
    BY <1>1 DEF OpenFrames, Nameable
  <2>2. h <= k
    BY <1>2, <1>3, <1>5, <2>1 DEF Assigning, Core, Layered
  <2>3. /\ Spot(h, j)[1] = Depth(stack, variables.insts, h) /\ Spot(h, j)[2] = Slot(variables.insts, j)
        /\ Spot(k, i)[1] = Depth(stack, variables.insts, k) /\ Spot(k, i)[2] = Slot(variables.insts, i)
    BY DEF Spot
  <2>4. Spot(h, j)[1] \in Nat
    <3>1. Depth(stack, variables.insts, h) \in Nat
      BY <1>0, DepthFacts
    <3> QED
      BY <2>3, <3>1
  <2>5. Spot(h, j)[2] \in Nat
    <3>1. Slot(variables.insts, j) \in Nat
      BY <1>0, <2>1, SlotFacts
    <3> QED
      BY <2>3, <3>1
  <2>6. CASE h < k
    <3>1. Depth(stack, variables.insts, h) < Depth(stack, variables.insts, k)
      BY <1>0, <2>6, DepthFacts
    <3> QED
      BY <2>3, <2>4, <2>5, <3>1
  <2>7. CASE h = k /\ j < i
    <3>1. variables.insts[j].root = variables.insts[i].root
      BY <1>3, <1>5, <2>7 DEF Level
    <3>2. Slot(variables.insts, j) < Slot(variables.insts, i)
      BY <1>0, <1>2, <2>1, <2>7, <3>1, SlotFacts
    <3> QED
      BY <2>3, <2>4, <2>5, <2>7, <3>2
  <2>8. CASE h = k /\ j = i
    BY <2>4, <2>5, <2>8
  <2>9. h < k \/ h = k
    BY <1>0, <2>1, <2>2
  <2>10. j < i \/ j = i
    BY <1>0, <1>2, <2>1
  <2> QED
    BY <2>6, <2>7, <2>8, <2>9, <2>10
<1> HIDE DEF B
<1>6. \A p \in B : /\ p[1] \in Nat /\ p[2] \in Nat
                   /\ \/ p = Spot(k, i)
                      \/ p[1] < Spot(k, i)[1]
                      \/ p[1] = Spot(k, i)[1] /\ p[2] < Spot(k, i)[2]
  BY <1>5, BindingsAre DEF B
<1>7. Above(Spot(k, i))
  BY <1>4, <1>6
<1>8. \A p \in B : Above(p) => p = Spot(k, i)
  BY <1>4, <1>6
<1>9. Lexical!Innermost(id) = CHOOSE p \in B : Above(p)
  BY DEF Lexical!Innermost, B
<1>10. Lexical!Innermost(id) = Spot(k, i)
  BY <1>4, <1>7, <1>8, <1>9
<1> QED
  BY <1>2, <1>3, <1>4, <1>10 DEF B

(***************************************************************************)
(* What a step does to the activations and the variables.                  *)
(***************************************************************************)
Leaves(f) == f.pc \in {"leave", "unwind"}

Rests == UNCHANGED <<stack, variables>>

Shifts == \E f : /\ Same(f, Top) /\ stack' = SetTop(f)
                 /\ Leaves(Top) => Leaves(f)
                 /\ UNCHANGED variables

Returns == (\E v : Return(v)) /\ UNCHANGED variables

Enters == /\ ~failed /\ ~failed'
          /\ \E f, g : /\ Same(f, Top) /\ ~Leaves(Top) /\ ~Leaves(f)
                       /\ stack' = Append(SetTop(f), g)
                       /\ g.pc = "start" /\ g.own \in (Body \ OwnedBodies) \cup {GlobalScope}
          /\ UNCHANGED variables

\* The running function or loop declares a variable of its body ...
Binds == /\ ~failed /\ ~failed'
         /\ Top.node.kind \in {"func", "for"} /\ OwnsBody(Top.node)
         /\ \E f, id, v : /\ Same(f, Top) /\ stack' = SetTop(f) /\ ~Leaves(Top) /\ ~Leaves(f)
                          /\ variables' = Add(variables, Instance(Top.own, id, v))

\* ... a declaration one of the innermost body.
StatementRoot == IF Top.chain = <<>> THEN GlobalScope ELSE Top.chain[1]

Declares == /\ ~failed /\ ~failed' /\ Top.node.kind = "decl"
            /\ \E v : Return(v)
            /\ \E id, v : variables' = Add(variables, Instance(StatementRoot, id, v))

Assigns == /\ ~failed /\ ~failed' /\ Top.node.kind = "assign"
           /\ \E v : Return(v)
           /\ LET i == Get(variables, Top.chain, Top.node.id)
              IN  i # 0 /\ \E v : variables' = [variables EXCEPT !.insts[i].val = v]

\* The running activation on the rest.
Rest == SubSeq(stack, 1, Len(stack) - 1)

LEMMA TopReplaced ==
    ASSUME TypeOK, stack # <<>>, NEW f
    PROVE  /\ IsSeq(Rest) /\ stack = Append(Rest, Top) /\ SetTop(f) = Append(Rest, f)
           /\ Len(Rest) = Len(stack) - 1 /\ Len(Rest) \in Nat
           /\ \A j \in 1 .. Len(Rest) : stack[j] = Rest[j]
<1> DEFINE T == Frame \cup {f}
           n == Len(stack)
<1>1. stack \in Seq(T) /\ n \in Nat /\ n # 0
  BY DEF TypeOK
<1>2. /\ IsSeq(Rest) /\ stack = Append(Rest, Top) /\ Len(Rest) = n - 1
      /\ \A j \in 1 .. n - 1 : Rest[j] = stack[j]
  <2>1. IsSeq(stack) /\ n > 0 /\ n - 1 \in 0 .. n
    BY <1>1 DEF IsSeq
  <2>2. /\ IsSeq(SubSeq(stack, 1, Len(stack) - 1))
        /\ stack = Append(SubSeq(stack, 1, Len(stack) - 1), stack[Len(stack)])
    BY <2>1, TopOnRest
  <2> QED
    BY <2>1, <2>2, PrefixSeq DEF Rest, Top
<1>3. /\ SetTop(f) \in Seq(T) /\ Len(SetTop(f)) = n
      /\ \A j \in 1 .. n : SetTop(f)[j] = IF j = n THEN f ELSE stack[j]
  <2>1. n \in 1 .. Len(stack) /\ f \in T
    BY <1>1
  <2> HIDE DEF T
  <2> QED
    BY <1>1, <2>1, ChangedSequence DEF SetTop
<1>4. Rest \in Seq(T)
  BY <1>1 DEF Rest
<1>5. Append(Rest, f) \in Seq(T) /\ Len(Append(Rest, f)) = n
  BY <1>1, <1>2, <1>4
<1>6. \A j \in 1 .. n : SetTop(f)[j] = Append(Rest, f)[j]
  <2>1. DOMAIN Rest = 1 .. n - 1
    BY <1>2, SeqFacts
  <2>2. \A j \in 1 .. n - 1 : Append(Rest, f)[j] = stack[j]
    BY <1>2, <2>1, AppendSeq
  <2>3. Append(Rest, f)[n] = f
    BY <1>1, <1>2, AppendSeq
  <2> SUFFICES ASSUME NEW j \in 1 .. n PROVE SetTop(f)[j] = Append(Rest, f)[j]
    OBVIOUS
  <2> HIDE DEF n
  <2>4. CASE j = n
    BY <1>3, <2>3, <2>4
  <2>5. CASE j # n
    <3>1. j \in 1 .. n - 1
      BY <1>1, <2>5
    <3> QED
      BY <1>3, <2>2, <2>5, <3>1
  <2> QED
    BY <2>4, <2>5
<1> HIDE DEF T
<1>7. SetTop(f) = Append(Rest, f)
  BY <1>3, <1>5, <1>6, SameSequence
<1> QED
  BY <1>1, <1>2, <1>7

(***************************************************************************)
(* What it does to the scopes.                                             *)
(***************************************************************************)
\* The innermost scope is forgotten, or nothing is.
Closes(S, T) == T = S \/ (S # <<>> /\ T = SubSeq(S, 1, Len(S) - 1))

LEMMA TopClosed ==
    ASSUME NEW s, IsSeq(s), NEW vs, NEW f
    PROVE  Closes(ScopesOf(Append(s, f), vs), ScopesOf(s, vs))
<1>1. IsSeq(ScopesOf(s, vs))
  BY ScopesSeq
<1> QED
  BY <1>1, ScopesPushed, PrefixOfAppend DEF Closes

LEMMA ShiftsScopes ==
    ASSUME TypeOK, stack # <<>>, Shifts
    PROVE  Closes(Scopes, Scopes')
<1>1. PICK f : /\ Same(f, Top) /\ stack' = SetTop(f) /\ (Leaves(Top) => Leaves(f))
               /\ UNCHANGED variables
  BY DEF Shifts
<1> DEFINE vs == variables.insts
<1>2. IsSeq(Rest) /\ stack = Append(Rest, Top) /\ stack' = Append(Rest, f)
  BY <1>1, TopReplaced
<1>3. Scopes = ScopesOf(Append(Rest, Top), vs) /\ Scopes' = ScopesOf(Append(Rest, f), vs)
  BY <1>1, <1>2 DEF Scopes
<1>4. ScopeOf(f, vs) = ScopeOf(Top, vs) /\ (IsOpen(f) => IsOpen(Top))
  BY <1>1 DEF Same, ScopeOf, IsOpen, Leaves
<1>5. CASE IsOpen(f) \/ ~IsOpen(Top)
  <2> HIDE DEF vs
  <2>0. IsOpen(f) <=> IsOpen(Top)
    BY <1>4, <1>5
  <2>1. Scopes' = Scopes
    BY <1>2, <1>3, <1>4, <2>0, AlikePushed
  <2> QED
    BY <2>1 DEF Closes
<1>6. CASE ~IsOpen(f) /\ IsOpen(Top)
  <2>1. Scopes' = ScopesOf(Rest, vs)
    BY <1>2, <1>3, <1>6, ClosedPushed
  <2> QED
    BY <1>2, <1>3, <2>1, TopClosed
<1> QED
  BY <1>5, <1>6

\* The activations that are left after a return have the scopes they had.
LEMMA ReturnedScopes ==
    ASSUME TypeOK, TypeOK', stack # <<>>, NEW v, Return(v), NEW vs
    PROVE  ScopesOf(stack', vs) = ScopesOf(Rest, vs)
<1>1. /\ IsSeq(Rest) /\ Len(Rest) = Len(stack) - 1 /\ Len(Rest) \in Nat
      /\ \A j \in 1 .. Len(Rest) : stack[j] = Rest[j]
  BY TopReplaced
<1>2. /\ Remain(Len(stack) - 1) /\ Len(stack') = Len(stack) - 1
      /\ \A j \in 1 .. Len(stack) - 1 : stack'[j].pc = stack[j].pc
  BY ReturnRemains
<1>3. IsSeq(stack')
  BY DEF TypeOK, IsSeq
<1>4. ASSUME NEW j \in 1 .. Len(stack')
      PROVE  Same(stack'[j], Rest[j]) /\ stack'[j].pc = Rest[j].pc
  BY <1>1, <1>2 DEF Remain
<1>5. ScopesAlike(stack', vs, Rest, vs, Len(stack'))
  BY <1>4 DEF ScopesAlike, Same, IsOpen, ScopeOf
<1> QED
  BY <1>1, <1>2, <1>3, <1>5, ScopesLike

LEMMA ReturnsScopes ==
    ASSUME TypeOK, TypeOK', stack # <<>>, Returns
    PROVE  Closes(Scopes, Scopes')
<1>1. PICK v : Return(v)
  BY DEF Returns
<1>2. IsSeq(Rest) /\ stack = Append(Rest, Top)
  BY TopReplaced
<1>3. Scopes' = ScopesOf(Rest, variables.insts)
  BY <1>1, ReturnedScopes DEF Scopes, Returns
<1>4. Scopes = ScopesOf(Append(Rest, Top), variables.insts)
  BY <1>2 DEF Scopes
<1> QED
  BY <1>2, <1>3, <1>4, TopClosed

\* A new activation opens an empty scope, or none.
LEMMA EntersScopes ==
    ASSUME TypeOK, TypeOK', stack # <<>>, Layered, Enters
    PROVE  Scopes' = Scopes \/ \E sees \in BOOLEAN : Scopes' = Append(Scopes, Lexical!Opened(sees))
<1> DEFINE vs == variables.insts
<1>1. PICK f, g : /\ Same(f, Top) /\ ~Leaves(Top) /\ ~Leaves(f)
                  /\ stack' = Append(SetTop(f), g)
                  /\ g.pc = "start" /\ g.own \in (Body \ OwnedBodies) \cup {GlobalScope}
  BY DEF Enters
<1>2. IsSeq(Rest) /\ stack = Append(Rest, Top) /\ SetTop(f) = Append(Rest, f)
  BY TopReplaced
<1>3. IsSeq(SetTop(f))
  BY <1>2, AppendSeq
<1>4. ScopeOf(f, vs) = ScopeOf(Top, vs) /\ (IsOpen(f) <=> IsOpen(Top))
  BY <1>1 DEF Same, ScopeOf, IsOpen, Leaves
<1>5. ScopesOf(SetTop(f), vs) = Scopes
  <2>1. ScopesOf(Append(Rest, f), vs) = ScopesOf(Append(Rest, Top), vs)
    BY <1>2, <1>4, AlikePushed
  <2> QED
    BY <1>2, <2>1 DEF Scopes
<1>6. Scopes' = ScopesOf(Append(SetTop(f), g), vs)
  BY <1>1 DEF Scopes, Enters
<1>7. CASE ~IsOpen(g)
  BY <1>3, <1>5, <1>6, <1>7, ClosedPushed
<1>8. CASE IsOpen(g)
  <2>1. Scopes' = Append(Scopes, ScopeOf(g, vs))
    BY <1>3, <1>5, <1>6, <1>8, OpenPushed
  <2>2. \A i \in DOMAIN vs : vs[i].root # g.own
    <3> SUFFICES ASSUME NEW i \in DOMAIN vs, vs[i].root = g.own PROVE FALSE
      OBVIOUS
    <3>1. PICK k \in DOMAIN stack : Level(k, i)
      BY DEF Layered
    <3>2. stack[k].own = g.own /\ g.own # GlobalScope /\ g.own \notin OwnedBodies
      BY <1>1, <1>8, <3>1 DEF Level, IsOpen
    <3> QED
      BY <3>1, <3>2 DEF OwnedBodies
  <2>3. BoundIn(g.own, vs) = <<>>
    BY <2>2, Indexed, BoundNone
  <2>4. ScopeOf(g, vs) = Lexical!Opened(g.node.kind = "for")
    BY <2>3 DEF ScopeOf, Lexical!Opened
  <2>5. (g.node.kind = "for") \in BOOLEAN
    OBVIOUS
  <2> QED
    BY <2>1, <2>4, <2>5
<1> QED
  BY <1>7, <1>8

(***************************************************************************)
(* What is left of the order of the variables after an error.              *)
(***************************************************************************)
Ordered ==
    \A i, j \in DOMAIN variables.insts : i <= j =>
        \A g, h \in DOMAIN stack : Level(g, i) /\ Level(h, j) => g <= h

\* The destruction of a root closes no scope, and takes no variable of an open one.
LEMMA DropScopes ==
    ASSUME TypeOK, TypeOK', stack # <<>>, Ordered, RootDestroy
    PROVE  Scopes' = Scopes
<1> DEFINE f == [Top EXCEPT !.i = @ - 1]
           vs == variables.insts
           ws == variables'.insts
<1>1. stack' = SetTop(f) /\ Leaves(Top)
  BY DEF RootDestroy, At_, Leaves
<1>2. Leaves(f)
  <2>1. Top \in Frame
    BY DEF TypeOK, Top
  <2> QED
    BY <1>1, <2>1 DEF Leaves, Frame
<1>3. /\ IsSeq(Rest) /\ stack = Append(Rest, Top) /\ stack' = Append(Rest, f)
      /\ Len(Rest) = Len(stack) - 1 /\ Len(Rest) \in Nat
      /\ \A j \in 1 .. Len(Rest) : stack[j] = Rest[j]
  BY <1>1, TopReplaced
<1> HIDE DEF f
<1>4. Scopes = ScopesOf(Rest, vs)
  BY <1>1, <1>3, ClosedPushed DEF Scopes, IsOpen, Leaves
<1>5. Scopes' = ScopesOf(Rest, ws)
  BY <1>2, <1>3, ClosedPushed DEF Scopes, IsOpen, Leaves
<1>6. CASE UNCHANGED variables
  BY <1>4, <1>5, <1>6
<1>7. CASE RootMatches(variables, Top.i, Top.own) /\ variables' = DropLast(variables)
  <2>1. vs \in Seq(VariableInstance) /\ Len(vs) \in Nat /\ DOMAIN vs = 1 .. Len(vs)
    BY DEF TypeOK
  <2>2. Top.i \in 1 .. Len(vs) /\ vs[Top.i].root = Top.own
    BY <1>7, <2>1 DEF RootMatches
  <2>3. ws = SubSeq(vs, 1, Len(vs) - 1)
    <3>1. variables \in [insts : Seq(VariableInstance), size : Nat]
      BY DEF TypeOK
    <3> QED
      BY <1>7, <3>1 DEF DropLast
  <2>4. /\ IsSeq(vs) /\ IsSeq(ws) /\ Len(ws) = Len(vs) - 1 /\ DOMAIN ws = 1 .. Len(vs) - 1
        /\ \A i \in DOMAIN ws : ws[i] = vs[i]
    <3>1. IsSeq(vs) /\ Len(vs) - 1 \in 0 .. Len(vs)
      BY <2>1, <2>2 DEF IsSeq
    <3> HIDE DEF vs, ws
    <3> QED
      BY <2>3, <3>1, PrefixSeq
  <2>5. ASSUME NEW k \in OpenFrames(Rest), NEW i \in DOMAIN vs, i > Len(ws)
        PROVE  vs[i].root # Rest[k].own
    <3>1. k \in 1 .. Len(Rest) /\ k \in DOMAIN stack /\ stack[k] = Rest[k]
      BY <1>3, SeqFacts, Indexed DEF OpenFrames
    <3>2. i = Len(vs) /\ Top.i \in DOMAIN vs /\ Top.i <= i
      BY <2>1, <2>2, <2>4, <2>5
    <3>3. Len(stack) \in DOMAIN stack /\ Level(Len(stack), Top.i)
      BY <1>3, <2>2, Indexed DEF Level, Top
    <3>4. Level(k, i) => Len(stack) <= k
      BY <3>1, <3>2, <3>3 DEF Ordered
    <3>5. ~(Len(stack) <= k)
      BY <1>3, <3>1, Indexed
    <3> QED
      BY <3>1, <3>4, <3>5 DEF Level
  <2> HIDE DEF vs, ws
  <2>6. ScopesOf(Rest, ws) = ScopesOf(Rest, vs)
    <3>1. Len(ws) <= Len(vs) /\ \A i \in DOMAIN ws : vs[i] = ws[i]
      BY <2>1, <2>4
    <3> QED
      BY <1>3, <2>4, <2>5, <3>1, ScopesKept
  <2> QED
    BY <1>4, <1>5, <2>6
<1> QED
  BY <1>6, <1>7 DEF RootDestroy

\* A new variable, of the right type.
LEMMA AddedIs ==
    ASSUME TypeOK, TypeOK', NEW root, NEW id, NEW v,
           variables' = Add(variables, Instance(root, id, v))
    PROVE  /\ variables'.insts = Append(variables.insts, Instance(root, id, v))
           /\ id \in Id /\ v \in Addr /\ Instance(root, id, v).root = root
           /\ Binding(Instance(root, id, v)) = [id |-> id, val |-> v]
<1> DEFINE inst == Instance(root, id, v)
           n == Len(variables.insts)
<1>1. variables'.insts = Append(variables.insts, inst)
  BY DEF Add
<1>2. inst.root = root /\ inst.id = id /\ inst.val = v /\ Binding(inst) = [id |-> id, val |-> v]
  BY DEF Instance, Binding
<1>3. IsSeq(variables.insts)
  BY Indexed
<1> HIDE DEF inst
<1>4. variables'.insts[n + 1] = inst /\ n + 1 \in DOMAIN variables'.insts
  <2>1. DOMAIN variables'.insts = 1 .. n + 1 /\ n \in Nat
    BY <1>1, <1>3, AppendSeq, Indexed
  <2> QED
    BY <1>1, <1>3, <2>1, AppendSeq
<1>5. inst \in VariableInstance
  <2>1. variables'.insts \in Seq(VariableInstance)
    BY DEF TypeOK
  <2> HIDE DEF n
  <2> QED
    BY <1>4, <2>1
<1>6. inst.id \in Id /\ inst.val \in Addr
  BY <1>5 DEF VariableInstance
<1> QED
  BY <1>1, <1>2, <1>6 DEF inst

\* An activation that waits, or runs at a point before it is left, has an open body.
LEMMA BelowOpen ==
    ASSUME TypeOK, NEW quiet, Core(quiet), NEW k \in DOMAIN stack, k # Len(stack)
    PROVE  ~Leaves(stack[k])
<1>1. k + 1 \in DOMAIN stack
  BY Indexed
<1> QED
  BY <1>1, WaitingStays DEF Core, Stacked, Frames, Leaves

LEMMA BindsScopes ==
    ASSUME TypeOK, TypeOK', stack # <<>>, NEW quiet, Core(quiet), Binds
    PROVE  Lexical!Declare
<1> DEFINE vs == variables.insts
           ws == variables'.insts
           n == Len(stack)
<1>1. PICK f, id, v : /\ Same(f, Top) /\ stack' = SetTop(f) /\ ~Leaves(Top) /\ ~Leaves(f)
                      /\ variables' = Add(variables, Instance(Top.own, id, v))
  BY DEF Binds
<1> DEFINE inst == Instance(Top.own, id, v)
<1>2. ws = Append(vs, inst) /\ id \in Id /\ v \in Addr /\ inst.root = Top.own
      /\ Binding(inst) = [id |-> id, val |-> v]
  BY <1>1, AddedIs
<1> HIDE DEF vs, ws, inst
<1>3. IsSeq(Rest) /\ stack = Append(Rest, Top) /\ stack' = Append(Rest, f)
  BY <1>1, TopReplaced
<1>4. Scopes' = ScopesOf(stack, ws)
  <2>1. ScopeOf(f, ws) = ScopeOf(Top, ws) /\ (IsOpen(f) <=> IsOpen(Top))
    BY <1>1 DEF Same, ScopeOf, IsOpen, Leaves
  <2>2. ScopesOf(Append(Rest, f), ws) = ScopesOf(Append(Rest, Top), ws)
    BY <1>3, <2>1, AlikePushed
  <2> QED
    BY <1>3, <2>2 DEF Scopes, ws
<1>5. n \in DOMAIN stack /\ stack[n] = Top /\ DOMAIN stack = 1 .. n /\ n \in Nat
  BY Indexed DEF TypeOK, Top
<1>6. Top.own # GlobalScope
  BY <1>5, BodyAssumption DEF Binds, Core, Stacked, Frames, OwnOK
<1>7. n \in OpenFrames(stack)
  BY <1>1, <1>5, <1>6 DEF OpenFrames, IsOpen, Leaves
<1>8. IsInner(stack, n, inst.root)
  BY <1>2, <1>5, <1>6 DEF IsInner, OpenFrames, Core, Stacked, Distinct
<1>9. IsSeq(stack) /\ IsSeq(vs)
  BY Indexed DEF vs
<1>10. /\ ScopesOf(stack, vs) # <<>>
       /\ ScopesOf(stack, Append(vs, inst)) =
            [ScopesOf(stack, vs) EXCEPT ![Len(ScopesOf(stack, vs))].vars = Append(@, Binding(inst))]
  <2>1. stack[n].own = inst.root
    BY <1>2, <1>5
  <2> HIDE DEF n
  <2> QED
    BY <1>7, <1>8, <1>9, <2>1, DeclaresInScope
<1>11. Scopes = ScopesOf(stack, vs)
  BY DEF Scopes, vs
<1>12. /\ Scopes # <<>>
       /\ Scopes' = [Scopes EXCEPT ![Len(Scopes)].vars = Append(@, [id |-> id, val |-> v])]
  BY <1>2, <1>4, <1>10, <1>11
<1> QED
  BY <1>2, <1>12 DEF Lexical!Declare

\* The rest of the activations, if the running one has no body.
LEMMA NoScope ==
    ASSUME TypeOK, stack # <<>>, Top.own = GlobalScope, NEW vs
    PROVE  ScopesOf(stack, vs) = ScopesOf(Rest, vs)
<1>1. IsSeq(Rest) /\ stack = Append(Rest, Top)
  BY TopReplaced
<1>2. ScopesOf(Append(Rest, Top), vs) = ScopesOf(Rest, vs)
  BY <1>1, ClosedPushed DEF IsOpen
<1> QED
  BY <1>1, <1>2

LEMMA OwnsNoBody ==
    ASSUME TypeOK, stack # <<>>, NEW quiet, Core(quiet), Top.node.kind \notin {"func", "for"}
    PROVE  Top.own = GlobalScope
<1>1. Len(stack) \in DOMAIN stack
  BY Indexed DEF TypeOK
<1> QED
  BY <1>1 DEF Core, Stacked, Frames, OwnOK, OwnsBody, Top

LEMMA DeclaresScopes ==
    ASSUME TypeOK, TypeOK', stack # <<>>, NEW quiet, Core(quiet), Declares
    PROVE  Lexical!Declare
<1> DEFINE vs == variables.insts
           ws == variables'.insts
           n == Len(stack)
           root == StatementRoot
<1>1. PICK id, v : variables' = Add(variables, Instance(StatementRoot, id, v))
  BY DEF Declares
<1> DEFINE inst == Instance(root, id, v)
<1>2. ws = Append(vs, inst) /\ id \in Id /\ v \in Addr /\ inst.root = root
      /\ Binding(inst) = [id |-> id, val |-> v]
  BY <1>1, AddedIs
<1> HIDE DEF vs, ws, inst
<1>3. n \in DOMAIN stack /\ stack[n] = Top /\ DOMAIN stack = 1 .. n /\ n \in Nat
  BY Indexed DEF TypeOK, Top
<1>4. Top.own = GlobalScope
  BY OwnsNoBody DEF Declares
<1>5. Scopes' = ScopesOf(stack, ws)
  <2>1. PICK u : Return(u)
    BY DEF Declares
  <2>2. ScopesOf(stack', ws) = ScopesOf(Rest, ws)
    BY <2>1, ReturnedScopes
  <2> QED
    BY <1>4, <2>2, NoScope DEF Scopes, ws
<1>6. root # GlobalScope /\ root = Top.chain[1]
  <2>1. Top.chain \in Seq(Body) /\ Top.chain # <<>>
    <3>1. stack[n] \in Frame
      BY <1>3, FrameType
    <3> QED
      BY <1>3, <3>1 DEF Frame, Declares, Core, Stacked, Frames, ChainOK
  <2>2. root \in Body /\ root = Top.chain[1]
    BY <2>1 DEF StatementRoot
  <2> HIDE DEF root
  <2> QED
    BY <2>2, BodyAssumption
<1>7. PICK g \in DOMAIN stack : /\ g < n /\ stack[g].own = root
                                /\ \A h \in g + 1 .. n - 1 : stack[h].own = GlobalScope
  <2>1. Top.node.kind \notin Expressions \cup {"func", "none"}
    BY DEF Declares, Expressions, Operators
  <2> QED
    BY <1>3, <1>6, <2>1 DEF Core, Stacked, Innermost
<1>8. g \in OpenFrames(stack)
  BY <1>3, <1>6, <1>7, BelowOpen DEF OpenFrames, IsOpen, Leaves
<1>9. IsInner(stack, g, inst.root)
  <2> SUFFICES ASSUME NEW i \in OpenFrames(stack)
               PROVE  i <= g /\ (i # g => stack[i].own # inst.root)
    BY DEF IsInner
  <2>1. i \in 1 .. n /\ stack[i].own # GlobalScope
    BY <1>3 DEF OpenFrames, IsOpen
  <2>2. i # n
    BY <1>3, <1>4, <2>1
  <2>3. i <= g
    <3>1. g \in 1 .. n
      BY <1>3
    <3> HIDE DEF n
    <3>2. i <= g \/ i \in g + 1 .. n - 1
      BY <1>3, <2>1, <2>2, <3>1
    <3> QED
      BY <1>7, <2>1, <3>2
  <2>4. i # g => stack[i].own # stack[g].own
    BY <1>3, <2>1 DEF Core, Stacked, Distinct
  <2> QED
    BY <1>2, <1>7, <2>3, <2>4
<1>10. IsSeq(stack) /\ IsSeq(vs)
  BY Indexed DEF vs
<1>11. /\ ScopesOf(stack, vs) # <<>>
       /\ ScopesOf(stack, Append(vs, inst)) =
            [ScopesOf(stack, vs) EXCEPT ![Len(ScopesOf(stack, vs))].vars = Append(@, Binding(inst))]
  <2>1. stack[g].own = inst.root
    BY <1>2, <1>7
  <2> HIDE DEF n, root
  <2> QED
    BY <1>8, <1>9, <1>10, <2>1, DeclaresInScope
<1>12. Scopes = ScopesOf(stack, vs)
  BY DEF Scopes, vs
<1>13. /\ Scopes # <<>>
       /\ Scopes' = [Scopes EXCEPT ![Len(Scopes)].vars = Append(@, [id |-> id, val |-> v])]
  BY <1>2, <1>5, <1>11, <1>12
<1> QED
  BY <1>2, <1>13 DEF Lexical!Declare

\* An assignment reaches the innermost binding of the name.
LEMMA AssignsScopes ==
    ASSUME TypeOK, TypeOK', NEW quiet, Tame(quiet), Core(quiet), Running, Assigns
    PROVE  Lexical!Assign
<1> DEFINE vs == variables.insts
           ws == variables'.insts
           id == Top.node.id
           i == Get(variables, Top.chain, id)
<1>0. stack # <<>> /\ Assigning(quiet)
  BY DEF Running, Assigning, Assigns
<1>1. PICK v : i # 0 /\ variables' = [variables EXCEPT !.insts[i].val = v]
  BY DEF Assigns
<1>2. PICK k \in OpenFrames(stack) : Level(k, i) /\ Lexical!Innermost(id) = Spot(k, i)
  BY <1>0, <1>1, InnermostIs
<1>3. i \in DOMAIN vs /\ Lexical!Bindings(id) # {} /\ vs[i].id = id
  BY <1>0, <1>1, InnermostIs
<1>4. id \in Id /\ v \in Addr /\ ValueSet(vs, i, v, ws)
  <2>1. variables \in [insts : Seq(VariableInstance), size : Nat] /\ ws \in Seq(VariableInstance)
    BY DEF TypeOK
  <2> HIDE DEF i, id
  <2>2. ws = [vs EXCEPT ![i] = [vs[i] EXCEPT !.val = v]]
    BY <1>1, <2>1
  <2>3. vs[i] \in VariableInstance
    BY <1>3, <2>1
  <2>4. /\ DOMAIN ws = DOMAIN vs /\ \A j \in DOMAIN vs : j # i => ws[j] = vs[j]
        /\ ws[i] = [vs[i] EXCEPT !.val = v] /\ Len(ws) = Len(vs)
    BY <1>3, <2>1, <2>2
  <2>5. ws[i].root = vs[i].root /\ ws[i].id = vs[i].id /\ ws[i].val = v
    BY <2>3, <2>4 DEF VariableInstance
  <2>6. ws[i] \in VariableInstance
    BY <1>3, <2>1, <2>4
  <2> QED
    BY <1>3, <2>3, <2>4, <2>5, <2>6 DEF ValueSet, VariableInstance
<1>5. Scopes' = ScopesOf(stack, ws)
  <2>1. PICK u : Return(u)
    BY DEF Assigns
  <2>2. ScopesOf(stack', ws) = ScopesOf(Rest, ws)
    BY <1>0, <2>1, ReturnedScopes
  <2>3. Top.own = GlobalScope
    BY <1>0, OwnsNoBody DEF Assigns
  <2> QED
    BY <1>0, <2>2, <2>3, NoScope DEF Scopes
<1> HIDE DEF vs, ws, i, id
<1>6. IsSeq(stack) /\ IsSeq(vs)
  BY Indexed DEF vs
<1>7. stack[k].own = vs[i].root /\ \A j \in OpenFrames(stack) : j # k => stack[j].own # vs[i].root
  <2>1. stack[k].own = vs[i].root
    BY <1>2 DEF Level, vs
  <2> QED
    BY <2>1 DEF OpenFrames, IsOpen, Core, Stacked, Distinct
<1>8. ScopesOf(stack, ws)
        = [ScopesOf(stack, vs) EXCEPT ![Depth(stack, vs, k)].vars[Slot(vs, i)].val = v]
  BY <1>3, <1>4, <1>6, <1>7, AssignsInScope
<1>9. Lexical!Innermost(id)[1] = Depth(stack, vs, k) /\ Lexical!Innermost(id)[2] = Slot(vs, i)
  BY <1>2 DEF Spot, vs
<1>10. Scopes' = [Scopes EXCEPT ![Lexical!Innermost(id)[1]].vars[Lexical!Innermost(id)[2]].val = v]
  BY <1>5, <1>8, <1>9 DEF Scopes, vs
<1> QED
  BY <1>3, <1>4, <1>10 DEF Lexical!Assign

(***************************************************************************)
(* Every step of the evaluator is one of these.                            *)
(***************************************************************************)
Scoping == \/ Rests \/ Shifts \/ Returns \/ Enters
           \/ Binds \/ Declares \/ Assigns \/ RootDestroy

\* After an error an activation runs at a point where it looks at it.
LEMMA PointCalm ==
    ASSUME ErrorSeen, Running, Top.pc \in {"start", "slot", "test", "iterate", "drop"}
    PROVE  ~failed
BY DEF ErrorSeen, Running, Waiting

\* The running activation at another point, or with other data.
LEMMA TopMoved ==
    ASSUME Top \in Frame, NEW p, NEW k, NEW g, NEW b
    PROVE  /\ Same([Top EXCEPT !.pc = p], Top) /\ [Top EXCEPT !.pc = p].pc = p
           /\ Same([Top EXCEPT !.i = k], Top) /\ [Top EXCEPT !.i = k].pc = Top.pc
           /\ Same([Top EXCEPT !.pc = p, !.i = k], Top) /\ [Top EXCEPT !.pc = p, !.i = k].pc = p
           /\ Same([Top EXCEPT !.pc = p, !.got = g], Top) /\ [Top EXCEPT !.pc = p, !.got = g].pc = p
           /\ Same([Top EXCEPT !.pc = p, !.blk = b], Top) /\ [Top EXCEPT !.pc = p, !.blk = b].pc = p
           /\ Same([Top EXCEPT !.pc = p, !.got = g, !.i = k], Top)
           /\ [Top EXCEPT !.pc = p, !.got = g, !.i = k].pc = p
BY DEF Same, Frame

LEMMA EvaluateEnters ==
    ASSUME NEW f, NEW n, NEW c, Evaluate(f, n, c), Same(f, Top), ~Leaves(Top), ~Leaves(f),
           ~failed, ~failed', UNCHANGED variables
    PROVE  Enters
<1>1. PICK b \in (Body \ OwnedBodies) \cup {GlobalScope} :
        stack' = Append(SetTop(f), NewFrame(n, c, b))
  BY DEF Evaluate
<1> DEFINE g == NewFrame(n, c, b)
<1>2. g.pc = "start" /\ g.own = b
  BY DEF NewFrame
<1> HIDE DEF g
<1> QED
  BY <1>1, <1>2 DEF Enters, g

LEMMA ShiftTo ==
    ASSUME NEW f, Same(f, Top), stack' = SetTop(f), ~Leaves(Top) \/ Leaves(f), UNCHANGED variables
    PROVE  Shifts
BY DEF Shifts

LEMMA ScopingLiteral ==
    ASSUME TypeOK, ErrorSeen, Literal \/ StringBlock \/ StringValue \/ Variable
    PROVE  Running /\ Scoping
<1>1. Running /\ Top \in Frame
  <2>1. Running
    BY DEF Literal, StringBlock, StringValue, Variable, At_
  <2> QED
    BY <2>1, RunningType
<1>2. CASE Literal \/ StringValue \/ Variable
  BY <1>1, <1>2 DEF Literal, StringValue, Variable, Scoping, Returns, Rests
<1>3. CASE StringBlock
  <2> DEFINE f == [Top EXCEPT !.pc = "value", !.blk = New(mem)]
  <2>1. Same(f, Top) /\ ~Leaves(Top)
    BY <1>1, <1>3, TopMoved DEF StringBlock, At_, Leaves
  <2>2. \/ stack' = SetTop(f) /\ UNCHANGED variables
        \/ Return(NULL) /\ UNCHANGED variables
    BY <1>3 DEF StringBlock
  <2> HIDE DEF f
  <2> QED
    BY <1>1, <2>1, <2>2, ShiftTo DEF Scoping, Returns
<1> QED
  BY <1>2, <1>3

LEMMA ScopingUnary ==
    ASSUME TypeOK, ErrorSeen,
           UnaryStart \/ UnaryFailed \/ UnaryNew \/ UnaryFollow \/ ReferenceValue
           \/ ReferenceSlot \/ UnaryOther
    PROVE  Running /\ Scoping
<1>1. Running /\ Top \in Frame
  <2>1. Running
    BY DEF UnaryStart, UnaryFailed, UnaryNew, UnaryFollow, ReferenceValue, ReferenceSlot,
           UnaryOther, At_
  <2> QED
    BY <2>1, RunningType
<1>2. CASE UnaryStart
  <2> DEFINE f == [Top EXCEPT !.pc = "operand"]
  <2>1. Same(f, Top) /\ f.pc = "operand" /\ Top.pc = "start"
    BY <1>1, <1>2, TopMoved DEF UnaryStart, At_
  <2>2. Evaluate(f, Child(1), Top.chain) /\ UNCHANGED <<variables, failed>>
    BY <1>2 DEF UnaryStart
  <2> HIDE DEF f
  <2>3. ~failed
    BY <1>1, <2>1, PointCalm
  <2> QED
    BY <1>1, <2>1, <2>2, <2>3, EvaluateEnters DEF Scoping, Leaves
<1>3. CASE UnaryFailed \/ UnaryNew \/ UnaryFollow \/ ReferenceSlot \/ UnaryOther
  BY <1>1, <1>3 DEF UnaryFailed, UnaryNew, UnaryFollow, ReferenceSlot, UnaryOther, Scoping, Returns
<1>4. CASE ReferenceValue
  <2> DEFINE f == [Top EXCEPT !.pc = "slot", !.blk = New(mem)]
  <2>1. Same(f, Top) /\ ~Leaves(Top)
    BY <1>1, <1>4, TopMoved DEF ReferenceValue, At_, Leaves
  <2>2. \/ stack' = SetTop(f) /\ UNCHANGED variables
        \/ Return(NULL) /\ UNCHANGED variables
    BY <1>4 DEF ReferenceValue
  <2> HIDE DEF f
  <2> QED
    BY <1>1, <2>1, <2>2, ShiftTo DEF Scoping, Returns
<1> QED
  BY <1>2, <1>3, <1>4

LEMMA ScopingPair ==
    ASSUME TypeOK, ErrorSeen,
           LeftOperand \/ RightOperand \/ OperandFailed \/ Binary \/ ArrayElement
    PROVE  Running /\ Scoping
<1>1. Running /\ Top \in Frame
  <2>1. Running
    BY DEF LeftOperand, RightOperand, OperandFailed, Binary, ArrayElement, At_
  <2> QED
    BY <2>1, RunningType
<1>2. CASE LeftOperand
  <2> DEFINE f == [Top EXCEPT !.pc = "left"]
  <2>1. Same(f, Top) /\ f.pc = "left" /\ Top.pc = "start"
    BY <1>1, <1>2, TopMoved DEF LeftOperand, At_
  <2>2. Evaluate(f, Child(1), Top.chain) /\ UNCHANGED <<variables, failed>>
    BY <1>2 DEF LeftOperand
  <2> HIDE DEF f
  <2>3. ~failed
    BY <1>1, <2>1, PointCalm
  <2> QED
    BY <1>1, <2>1, <2>2, <2>3, EvaluateEnters DEF Scoping, Leaves
<1>3. CASE RightOperand
  <2> DEFINE f == [Top EXCEPT !.pc = "right"]
  <2>1. Same(f, Top) /\ f.pc = "right" /\ Top.pc = "left"
    BY <1>1, <1>3, TopMoved DEF RightOperand, At_
  <2>2. /\ UNCHANGED <<variables, failed>>
        /\ Return(NULL) \/ (~failed /\ Evaluate(f, Child(2), Top.chain))
    BY <1>3 DEF RightOperand
  <2> HIDE DEF f
  <2>3. CASE Return(NULL)
    BY <1>1, <2>2, <2>3 DEF Scoping, Returns
  <2>4. CASE ~failed /\ Evaluate(f, Child(2), Top.chain)
    BY <1>1, <2>1, <2>2, <2>4, EvaluateEnters DEF Scoping, Leaves
  <2> QED
    BY <2>2, <2>3, <2>4
<1>4. CASE OperandFailed \/ Binary \/ ArrayElement
  BY <1>1, <1>4 DEF OperandFailed, Binary, ArrayElement, Scoping, Returns
<1> QED
  BY <1>2, <1>3, <1>4

LEMMA ScopingCaller ==
    ASSUME TypeOK, ErrorSeen,
           CallStart \/ CallArgument \/ CallFailed \/ CallEnter \/ CallReturn
    PROVE  Running /\ Scoping
<1>1. Running /\ Top \in Frame
  <2>1. Running
    BY DEF CallStart, CallArgument, CallFailed, CallEnter, CallReturn, At_
  <2> QED
    BY <2>1, RunningType
<1>2. CASE CallStart
  <2> DEFINE f == [Top EXCEPT !.pc = "arguments", !.blk = New(mem)]
  <2>1. Same(f, Top) /\ ~Leaves(Top)
    BY <1>1, <1>2, TopMoved DEF CallStart, At_, Leaves
  <2>2. \/ stack' = SetTop(f) /\ UNCHANGED variables
        \/ Return(NULL) /\ UNCHANGED variables
    BY <1>2 DEF CallStart
  <2> HIDE DEF f
  <2> QED
    BY <1>1, <2>1, <2>2, ShiftTo DEF Scoping, Returns
<1>3. CASE CallArgument
  <2>1. /\ Evaluate(Top, Child(Len(Top.got) + 1), Top.chain) /\ UNCHANGED <<variables, failed>>
        /\ ~failed /\ ~Leaves(Top) /\ Same(Top, Top)
    BY <1>3 DEF CallArgument, At_, Leaves, Same
  <2> QED
    BY <1>1, <2>1, EvaluateEnters DEF Scoping
<1>4. CASE CallFailed
  <2> DEFINE f == [Top EXCEPT !.i = Top.i + 1]
  <2>1. Same(f, Top) /\ ~Leaves(Top)
    BY <1>1, <1>4, TopMoved DEF CallFailed, At_, Leaves
  <2>2. \/ stack' = SetTop(f) /\ UNCHANGED variables
        \/ Return(NULL) /\ UNCHANGED variables
    BY <1>4 DEF CallFailed
  <2> HIDE DEF f
  <2> QED
    BY <1>1, <2>1, <2>2, ShiftTo DEF Scoping, Returns
<1>5. CASE CallEnter
  <2>1. CASE Callee = 0
    BY <1>1, <1>5, <2>1 DEF CallEnter, Scoping, Rests
  <2>2. CASE Callee # 0
    <3> DEFINE f == [Top EXCEPT !.pc = "await", !.got = <<>>, !.blk = NULL]
               fun == functions.insts[Callee].val
    <3>1. PICK b \in (Body \ OwnedBodies) \cup {GlobalScope} :
            stack' = Append(SetTop(f), [NewFrame(fun, <<>>, b) EXCEPT !.got = Top.got,
                                                                      !.blk = Top.blk])
      BY <1>5, <2>2 DEF CallEnter
    <3> DEFINE g == [NewFrame(fun, <<>>, b) EXCEPT !.got = Top.got, !.blk = Top.blk]
    <3>2. g.pc = "start" /\ g.own = b
      BY DEF NewFrame
    <3>3. Same(f, Top) /\ f.pc = "await"
      BY <1>1 DEF Same, Frame
    <3>4. Top.pc = "arguments" /\ ~failed /\ UNCHANGED <<variables, failed>>
      BY <1>5 DEF CallEnter, At_
    <3> HIDE DEF f, g
    <3> QED
      BY <1>1, <3>1, <3>2, <3>3, <3>4 DEF Scoping, Enters, Leaves, g
  <2> QED
    BY <2>1, <2>2
<1>6. CASE CallReturn
  BY <1>1, <1>6 DEF CallReturn, Scoping, Returns
<1> QED
  BY <1>2, <1>3, <1>4, <1>5, <1>6

LEMMA ScopingBind ==
    ASSUME TypeOK, ErrorSeen, BindPrint \/ BindDrop \/ BindReturn
    PROVE  Running /\ Scoping
<1>1. Running /\ Top \in Frame
  <2>1. Running
    BY DEF BindPrint, BindDrop, BindReturn, At_
  <2> QED
    BY <2>1, RunningType
<1>2. CASE BindPrint
  <2> DEFINE f == [Top EXCEPT !.pc = "drop"]
  <2>1. Same(f, Top) /\ ~Leaves(Top) /\ stack' = SetTop(f) /\ UNCHANGED variables
    BY <1>1, <1>2, TopMoved DEF BindPrint, At_, Leaves
  <2> HIDE DEF f
  <2> QED
    BY <1>1, <2>1, ShiftTo DEF Scoping
<1>3. CASE BindDrop
  <2> DEFINE f == [Top EXCEPT !.i = Top.i + 1]
  <2>1. Same(f, Top) /\ ~Leaves(Top) /\ stack' = SetTop(f) /\ UNCHANGED variables
    BY <1>1, <1>3, TopMoved DEF BindDrop, At_, Leaves
  <2> HIDE DEF f
  <2> QED
    BY <1>1, <2>1, ShiftTo DEF Scoping
<1>4. CASE BindReturn
  BY <1>1, <1>4 DEF BindReturn, Scoping, Returns
<1> QED
  BY <1>2, <1>3, <1>4

LEMMA ScopingFunction ==
    ASSUME TypeOK, ErrorSeen,
           FunctionArgument \/ FunctionBody \/ FunctionLeave \/ RootDestroy
           \/ FunctionReturn \/ FunctionOutOfMemory
    PROVE  Running /\ Scoping
<1>1. Running /\ Top \in Frame
  <2>1. Running
    BY DEF FunctionArgument, FunctionBody, FunctionLeave, RootDestroy, FunctionReturn,
           FunctionOutOfMemory, At_
  <2> QED
    BY <2>1, RunningType
<1>2. CASE FunctionArgument
  <2> DEFINE v == Got(Top.i + 1)
             id == Top.node.params[Top.i + 1]
             f == [Top EXCEPT !.i = Top.i + 1]
             h == [Top EXCEPT !.pc = "unwind", !.i = RootStart]
  <2>1. Same(f, Top) /\ f.pc = Top.pc /\ Same(h, Top) /\ h.pc = "unwind"
    BY <1>1, TopMoved
  <2>2. Top.pc = "start" /\ Top.node.kind = "func" /\ OwnsBody(Top.node) /\ UNCHANGED failed
    BY <1>2 DEF FunctionArgument, At_, OwnsBody
  <2>3. ~failed
    BY <1>1, <2>2, PointCalm
  <2>4. \/ UNCHANGED <<stack, variables>>
        \/ \E ok \in BOOLEAN : /\ AddVariable(ok, Instance(Top.own, id, v))
                               /\ stack' = SetTop(IF ok THEN f ELSE h)
    BY <1>2 DEF FunctionArgument
  <2> HIDE DEF f, h, id, v
  <2>5. CASE UNCHANGED <<stack, variables>>
    BY <1>1, <2>5 DEF Scoping, Rests
  <2>6. CASE stack' = SetTop(f) /\ variables' = Add(variables, Instance(Top.own, id, v))
    BY <1>1, <2>1, <2>2, <2>3, <2>6 DEF Scoping, Binds, Leaves
  <2>7. CASE stack' = SetTop(h) /\ UNCHANGED variables
    BY <1>1, <2>1, <2>7, ShiftTo DEF Scoping, Leaves
  <2> QED
    BY <2>4, <2>5, <2>6, <2>7 DEF AddVariable
<1>3. CASE FunctionBody
  <2> DEFINE f == [Top EXCEPT !.pc = "body", !.got = <<>>, !.blk = NULL]
  <2>1. Same(f, Top) /\ f.pc = "body"
    BY <1>1 DEF Same, Frame
  <2>4. Top.pc = "start"
    BY <1>3 DEF FunctionBody, At_
  <2>2. Evaluate(f, Child(1), Chain) /\ UNCHANGED <<variables, failed>>
    BY <1>3 DEF FunctionBody
  <2> HIDE DEF f
  <2>3. ~failed
    BY <1>1, <2>4, PointCalm
  <2> QED
    BY <1>1, <2>1, <2>2, <2>3, <2>4, EvaluateEnters DEF Scoping, Leaves
<1>4. CASE FunctionLeave
  <2> DEFINE f == [Top EXCEPT !.pc = "leave", !.i = RootStart]
  <2>1. Same(f, Top) /\ f.pc = "leave" /\ stack' = SetTop(f) /\ UNCHANGED variables
    BY <1>1, <1>4, TopMoved DEF FunctionLeave
  <2> HIDE DEF f
  <2> QED
    BY <1>1, <2>1, ShiftTo DEF Scoping, Leaves
<1>5. CASE RootDestroy
  BY <1>1, <1>5 DEF Scoping
<1>6. CASE FunctionReturn \/ FunctionOutOfMemory
  BY <1>1, <1>6 DEF FunctionReturn, FunctionOutOfMemory, Scoping, Returns
<1> QED
  BY <1>2, <1>3, <1>4, <1>5, <1>6

LEMMA ScopingBody ==
    ASSUME TypeOK, ErrorSeen,
           BodyStatement \/ BodyResult \/ BodyEnd \/ IfStart \/ IfCondition \/ IfReturn
    PROVE  Running /\ Scoping
<1>1. Running /\ Top \in Frame
  <2>1. Running
    BY DEF BodyStatement, BodyResult, BodyEnd, IfStart, IfCondition, IfReturn, At_
  <2> QED
    BY <2>1, RunningType
<1>2. CASE BodyStatement
  <2> DEFINE f == [Top EXCEPT !.pc = "result", !.i = Top.i + 1]
  <2>1. Same(f, Top) /\ f.pc = "result" /\ Top.pc = "start"
    BY <1>1, <1>2, TopMoved DEF BodyStatement, At_
  <2>2. Evaluate(f, Child(Top.i + 1), Top.chain) /\ UNCHANGED <<variables, failed>>
    BY <1>2 DEF BodyStatement
  <2> HIDE DEF f
  <2>3. ~failed
    BY <1>1, <2>1, PointCalm
  <2> QED
    BY <1>1, <2>1, <2>2, <2>3, EvaluateEnters DEF Scoping, Leaves
<1>3. CASE BodyResult
  <2> DEFINE f == [Top EXCEPT !.pc = "start", !.got = <<>>]
  <2>1. Same(f, Top) /\ ~Leaves(Top)
    BY <1>1, <1>3, TopMoved DEF BodyResult, At_, Leaves
  <2>2. \/ stack' = SetTop(f) /\ UNCHANGED variables
        \/ Return(Got(1)) /\ UNCHANGED variables
    BY <1>3 DEF BodyResult
  <2> HIDE DEF f
  <2> QED
    BY <1>1, <2>1, <2>2, ShiftTo DEF Scoping, Returns
<1>4. CASE IfStart
  <2> DEFINE f == [Top EXCEPT !.pc = "condition"]
  <2>1. Same(f, Top) /\ f.pc = "condition" /\ Top.pc = "start"
    BY <1>1, <1>4, TopMoved DEF IfStart, At_
  <2>2. Evaluate(f, Child(1), Top.chain) /\ UNCHANGED <<variables, failed>>
    BY <1>4 DEF IfStart
  <2> HIDE DEF f
  <2>3. ~failed
    BY <1>1, <2>1, PointCalm
  <2> QED
    BY <1>1, <2>1, <2>2, <2>3, EvaluateEnters DEF Scoping, Leaves
<1>5. CASE IfCondition
  <2> DEFINE f == [Top EXCEPT !.pc = "body", !.got = <<>>]
  <2>1. Same(f, Top) /\ f.pc = "body" /\ Top.pc = "condition"
    BY <1>1, <1>5, TopMoved DEF IfCondition, At_
  <2>2. /\ UNCHANGED <<variables, failed>>
        /\ (\E v : Return(v)) \/ (~failed /\ Evaluate(f, Child(2), Top.chain))
    BY <1>5 DEF IfCondition
  <2> HIDE DEF f
  <2>3. CASE \E v : Return(v)
    BY <1>1, <2>2, <2>3 DEF Scoping, Returns
  <2>4. CASE ~failed /\ Evaluate(f, Child(2), Top.chain)
    BY <1>1, <2>1, <2>2, <2>4, EvaluateEnters DEF Scoping, Leaves
  <2> QED
    BY <2>2, <2>3, <2>4
<1>6. CASE BodyEnd \/ IfReturn
  BY <1>1, <1>6 DEF BodyEnd, IfReturn, Scoping, Returns
<1> QED
  BY <1>2, <1>3, <1>4, <1>5, <1>6

LEMMA ScopingLoopStart ==
    ASSUME TypeOK, ErrorSeen, ForInit \/ ForFailed \/ ForVariable \/ ForTest
    PROVE  Running /\ Scoping
<1>1. Running /\ Top \in Frame
  <2>1. Running
    BY DEF ForInit, ForFailed, ForVariable, ForTest, At_
  <2> QED
    BY <2>1, RunningType
<1>2. CASE ForInit
  <2> DEFINE f == [Top EXCEPT !.pc = "test"]
             h == [Top EXCEPT !.pc = "variable"]
  <2>1. Same(f, Top) /\ Same(h, Top) /\ h.pc = "variable" /\ Top.pc = "start"
    BY <1>1, <1>2, TopMoved DEF ForInit, At_
  <2>2. /\ UNCHANGED <<variables, failed>>
        /\ stack' = SetTop(f) \/ Evaluate(h, Child(1), Top.chain)
    BY <1>2 DEF ForInit
  <2> HIDE DEF f, h
  <2>3. ~failed
    BY <1>1, <2>1, PointCalm
  <2>4. CASE stack' = SetTop(f)
    BY <1>1, <2>1, <2>2, <2>4, ShiftTo DEF Scoping, Leaves
  <2>5. CASE Evaluate(h, Child(1), Top.chain)
    BY <1>1, <2>1, <2>2, <2>3, <2>5, EvaluateEnters DEF Scoping, Leaves
  <2> QED
    BY <2>2, <2>4, <2>5
<1>3. CASE ForFailed
  BY <1>1, <1>3 DEF ForFailed, Scoping, Returns
<1>4. CASE ForVariable
  <2> DEFINE v == Got(1)
             f == [Top EXCEPT !.pc = "test", !.got = <<>>]
  <2>1. Same(f, Top) /\ f.pc = "test"
    BY <1>1, TopMoved
  <2>2. Top.pc = "variable" /\ Top.node.kind = "for" /\ OwnsBody(Top.node) /\ ~failed
    BY <1>4 DEF ForVariable, At_, OwnsBody
  <2>3. \/ UNCHANGED <<stack, variables>>
        \/ \E ok \in BOOLEAN : /\ AddVariable(ok, Instance(Top.own, Top.node.id, v))
                               /\ failed' = ~ok
                               /\ IF ok THEN stack' = SetTop(f) ELSE Return(v)
    BY <1>4 DEF ForVariable
  <2> HIDE DEF f, v
  <2>4. CASE UNCHANGED <<stack, variables>>
    BY <1>1, <2>4 DEF Scoping, Rests
  <2>5. CASE /\ stack' = SetTop(f) /\ variables' = Add(variables, Instance(Top.own, Top.node.id, v))
             /\ ~failed'
    BY <1>1, <2>1, <2>2, <2>5 DEF Scoping, Binds, Leaves
  <2>6. CASE Return(v) /\ UNCHANGED variables
    BY <1>1, <2>6 DEF Scoping, Returns
  <2> QED
    BY <2>3, <2>4, <2>5, <2>6 DEF AddVariable
<1>5. CASE ForTest
  <2> DEFINE f == [Top EXCEPT !.pc = "iterate"]
             h == [Top EXCEPT !.pc = "condition"]
  <2>1. Same(f, Top) /\ Same(h, Top) /\ h.pc = "condition" /\ Top.pc = "test"
    BY <1>1, <1>5, TopMoved DEF ForTest, At_
  <2>2. /\ UNCHANGED <<variables, failed>>
        /\ stack' = SetTop(f) \/ Evaluate(h, Child(2), Chain)
    BY <1>5 DEF ForTest
  <2> HIDE DEF f, h
  <2>3. ~failed
    BY <1>1, <2>1, PointCalm
  <2>4. CASE stack' = SetTop(f)
    BY <1>1, <2>1, <2>2, <2>4, ShiftTo DEF Scoping, Leaves
  <2>5. CASE Evaluate(h, Child(2), Chain)
    BY <1>1, <2>1, <2>2, <2>3, <2>5, EvaluateEnters DEF Scoping, Leaves
  <2> QED
    BY <2>2, <2>4, <2>5
<1> QED
  BY <1>2, <1>3, <1>4, <1>5

LEMMA ScopingLoop ==
    ASSUME TypeOK, ErrorSeen, ForCondition \/ ForStep \/ ForBody \/ ForIterated \/ ForEnd
    PROVE  Running /\ Scoping
<1>1. Running /\ Top \in Frame
  <2>1. Running
    BY DEF ForCondition, ForStep, ForBody, ForIterated, ForEnd, At_
  <2> QED
    BY <2>1, RunningType
<1>2. CASE ForCondition
  <2> DEFINE f == [Top EXCEPT !.pc = "iterate", !.got = <<>>]
             h == [Top EXCEPT !.pc = "leave", !.got = <<>>, !.i = RootStart]
  <2>1. Same(f, Top) /\ Top.pc = "condition"
    BY <1>1, <1>2, TopMoved DEF ForCondition, At_
  <2>2. Same(h, Top) /\ h.pc = "leave"
    BY <1>1 DEF Same, Frame
  <2>3. UNCHANGED variables /\ (stack' = SetTop(f) \/ stack' = SetTop(h))
    BY <1>2 DEF ForCondition
  <2> HIDE DEF f, h
  <2> QED
    BY <1>1, <2>1, <2>2, <2>3, ShiftTo DEF Scoping, Leaves
<1>3. CASE ForStep
  <2> DEFINE f == [Top EXCEPT !.pc = "body"]
             h == [Top EXCEPT !.pc = "step"]
  <2>1. Same(f, Top) /\ f.pc = "body" /\ Same(h, Top) /\ h.pc = "step" /\ Top.pc = "iterate"
    BY <1>1, <1>3, TopMoved DEF ForStep, At_
  <2>2. /\ UNCHANGED <<variables, failed>>
        /\ Evaluate(f, Child(4), Chain) \/ Evaluate(h, Child(3), Chain)
    BY <1>3 DEF ForStep
  <2> HIDE DEF f, h
  <2>3. ~failed
    BY <1>1, <2>1, PointCalm
  <2>4. CASE Evaluate(f, Child(4), Chain)
    BY <1>1, <2>1, <2>2, <2>3, <2>4, EvaluateEnters DEF Scoping, Leaves
  <2>5. CASE Evaluate(h, Child(3), Chain)
    BY <1>1, <2>1, <2>2, <2>3, <2>5, EvaluateEnters DEF Scoping, Leaves
  <2> QED
    BY <2>2, <2>4, <2>5
<1>4. CASE ForBody
  <2> DEFINE f == [Top EXCEPT !.pc = "body", !.got = <<>>]
  <2>1. Same(f, Top) /\ f.pc = "body" /\ Top.pc = "step" /\ ~failed
    BY <1>1, <1>4, TopMoved DEF ForBody, At_
  <2>2. Evaluate(f, Child(4), Chain) /\ UNCHANGED <<variables, failed>>
    BY <1>4 DEF ForBody
  <2> HIDE DEF f
  <2> QED
    BY <1>1, <2>1, <2>2, EvaluateEnters DEF Scoping, Leaves
<1>5. CASE ForIterated
  <2> DEFINE f == [Top EXCEPT !.pc = "test", !.got = <<>>]
  <2>1. Same(f, Top) /\ ~Leaves(Top)
    BY <1>1, <1>5, TopMoved DEF ForIterated, At_, Leaves
  <2>2. \/ stack' = SetTop(f) /\ UNCHANGED variables
        \/ Return(Got(1)) /\ UNCHANGED variables
    BY <1>5 DEF ForIterated
  <2> HIDE DEF f
  <2> QED
    BY <1>1, <2>1, <2>2, ShiftTo DEF Scoping, Returns
<1>6. CASE ForEnd
  BY <1>1, <1>6 DEF ForEnd, Scoping, Returns
<1> QED
  BY <1>2, <1>3, <1>4, <1>5, <1>6

LEMMA ScopingValue ==
    ASSUME TypeOK, ErrorSeen,
           StatementValue \/ StatementFailed \/ Declare \/ Assign \/ AssignTarget
           \/ AssignThrough \/ ReturnValue \/ ReturnAfterBody
    PROVE  Running /\ Scoping
<1>1. Running /\ Top \in Frame
  <2>1. Running
    BY DEF StatementValue, StatementFailed, Declare, Assign, AssignTarget, AssignThrough,
           ReturnValue, ReturnAfterBody, At_
  <2> QED
    BY <2>1, RunningType
<1>2. CASE StatementValue
  <2> DEFINE f == [Top EXCEPT !.pc = "value"]
  <2>1. Same(f, Top) /\ f.pc = "value" /\ Top.pc = "start"
    BY <1>1, <1>2, TopMoved DEF StatementValue, At_
  <2>2. Evaluate(f, Child(1), Top.chain) /\ UNCHANGED <<variables, failed>>
    BY <1>2 DEF StatementValue
  <2> HIDE DEF f
  <2>3. ~failed
    BY <1>1, <2>1, PointCalm
  <2> QED
    BY <1>1, <2>1, <2>2, <2>3, EvaluateEnters DEF Scoping, Leaves
<1>3. CASE StatementFailed \/ AssignThrough \/ ReturnAfterBody
  BY <1>1, <1>3 DEF StatementFailed, AssignThrough, ReturnAfterBody, Scoping, Returns
<1>4. CASE Declare
  <2> DEFINE v == Got(1)
  <2>1. Top.node.kind = "decl" /\ ~failed
    BY <1>4 DEF Declare, At_
  <2>2. \/ UNCHANGED <<stack, variables>>
        \/ \E ok \in BOOLEAN : /\ AddVariable(ok, Instance(StatementRoot, Top.node.id, v))
                               /\ \E u : Return(u)
                               /\ failed' = ~ok
    BY <1>4 DEF Declare, StatementRoot
  <2> HIDE DEF v
  <2>3. CASE UNCHANGED <<stack, variables>>
    BY <1>1, <2>3 DEF Scoping, Rests
  <2>4. CASE /\ variables' = Add(variables, Instance(StatementRoot, Top.node.id, v))
             /\ ~failed' /\ \E u : Return(u)
    BY <1>1, <2>1, <2>4 DEF Scoping, Declares
  <2>5. CASE (\E u : Return(u)) /\ UNCHANGED variables
    BY <1>1, <2>5 DEF Scoping, Returns
  <2> QED
    BY <2>2, <2>3, <2>4, <2>5 DEF AddVariable
<1>5. CASE Assign
  <2> DEFINE i == Get(variables, Top.chain, Top.node.id)
             v == Got(1)
  <2>1. Top.node.kind = "assign" /\ ~failed /\ UNCHANGED failed
    BY <1>5 DEF Assign, At_
  <2>2. \/ UNCHANGED <<stack, variables>>
        \/ /\ i # 0 /\ Return(v)
           /\ variables' = [variables EXCEPT !.insts[i].val = v]
    BY <1>5 DEF Assign
  <2>3. CASE UNCHANGED <<stack, variables>>
    BY <1>1, <2>3 DEF Scoping, Rests
  <2>4. CASE /\ i # 0 /\ Return(v)
             /\ variables' = [variables EXCEPT !.insts[i].val = v]
    <3>1. Assigns
      BY <2>1, <2>4 DEF Assigns
    <3> QED
      BY <1>1, <3>1 DEF Scoping
  <2> QED
    BY <2>2, <2>3, <2>4
<1>6. CASE AssignTarget
  <2> DEFINE f == [Top EXCEPT !.pc = "target"]
  <2>1. Same(f, Top) /\ f.pc = "target" /\ Top.pc = "value" /\ ~failed
    BY <1>1, <1>6, TopMoved DEF AssignTarget, At_
  <2>2. Evaluate(f, Child(2), Top.chain) /\ UNCHANGED <<variables, failed>>
    BY <1>6 DEF AssignTarget
  <2> HIDE DEF f
  <2> QED
    BY <1>1, <2>1, <2>2, EvaluateEnters DEF Scoping, Leaves
<1>7. CASE ReturnValue
  <2> DEFINE f == [Top EXCEPT !.pc = "body"]
  <2>1. Same(f, Top) /\ f.pc = "body" /\ Top.pc = "value" /\ ~failed
    BY <1>1, <1>7, TopMoved DEF ReturnValue, At_
  <2>2. /\ UNCHANGED <<variables, failed>>
        /\ Return(Got(1)) \/ Evaluate(f, Child(2), Top.chain)
    BY <1>7 DEF ReturnValue
  <2> HIDE DEF f
  <2>3. CASE Return(Got(1))
    BY <1>1, <2>2, <2>3 DEF Scoping, Returns
  <2>4. CASE Evaluate(f, Child(2), Top.chain)
    BY <1>1, <2>1, <2>2, <2>4, EvaluateEnters DEF Scoping, Leaves
  <2> QED
    BY <2>2, <2>3, <2>4
<1> QED
  BY <1>2, <1>3, <1>4, <1>5, <1>6, <1>7

LEMMA ScopingStep ==
    ASSUME TypeOK, ErrorSeen, Expression \/ Call \/ Statement
    PROVE  Running /\ Scoping
BY ScopingLiteral, ScopingUnary, ScopingPair, ScopingCaller, ScopingBind, ScopingFunction,
   ScopingBody, ScopingLoopStart, ScopingLoop, ScopingValue DEF Expression, Call, Statement

\* The entry point is called with no variable and no activation.
LEMMA EntryScopes ==
    ASSUME TypeOK, Layered, ErrorSeen, EntryPoint
    PROVE  Scopes' = Scopes \/ \E sees \in BOOLEAN : Scopes' = Append(Scopes, Lexical!Opened(sees))
<1>1. stack = <<>> /\ UNCHANGED variables
  BY DEF EntryPoint, ErrorSeen
<1>2. variables.insts = <<>>
  BY <1>1, NoneLeft
<1>3. CASE UNCHANGED stack
  BY <1>1, <1>3 DEF Scopes
<1>4. ASSUME NEW n, NEW b \in Body, stack' = <<NewFrame(n, <<>>, b)>>
      PROVE  \E sees \in BOOLEAN : Scopes' = Append(Scopes, Lexical!Opened(sees))
  <2> DEFINE g == NewFrame(n, <<>>, b)
  <2>1. g.pc = "start" /\ g.own = b /\ b # GlobalScope
    BY BodyAssumption DEF NewFrame
  <2> HIDE DEF g
  <2>2. stack' = Append(<<>>, g)
    BY <1>4 DEF g
  <2>3. IsOpen(g)
    BY <2>1 DEF IsOpen
  <2>4. BoundIn(g.own, <<>>) = <<>>
    BY EmptySeq, BoundNone
  <2>5. ScopeOf(g, <<>>) = Lexical!Opened(g.node.kind = "for")
    BY <2>4 DEF ScopeOf, Lexical!Opened
  <2>6. ScopesOf(Append(<<>>, g), <<>>) = Append(ScopesOf(<<>>, <<>>), ScopeOf(g, <<>>))
    BY <2>3, EmptySeq, OpenPushed
  <2>7. Scopes = ScopesOf(<<>>, <<>>) /\ Scopes' = ScopesOf(Append(<<>>, g), <<>>)
    BY <1>1, <1>2, <2>2 DEF Scopes
  <2>8. (g.node.kind = "for") \in BOOLEAN
    OBVIOUS
  <2> QED
    BY <2>5, <2>6, <2>7, <2>8
<1> QED
  BY <1>3, <1>4 DEF EntryPoint

(***************************************************************************)
(* The order of the variables outlives an error.                           *)
(***************************************************************************)
Tracked == mem.fault = "none" => Ordered

\* The activations that stay keep their bodies, the variables their roots.
LEMMA KeepOrdered ==
    ASSUME Ordered, NEW m, Remain(m), TypeOK,
           DOMAIN variables'.insts \subseteq DOMAIN variables.insts,
           \A i \in DOMAIN variables'.insts : variables'.insts[i].root = variables.insts[i].root
    PROVE  Ordered'
<1>1. \A g \in DOMAIN stack' : g \in DOMAIN stack /\ stack'[g].own = stack[g].own
  BY Indexed DEF Remain, Same
<1>2. \A g \in DOMAIN stack', i \in DOMAIN variables'.insts : Level(g, i)' => Level(g, i)
  BY <1>1 DEF Level
<1> QED
  BY <1>1, <1>2 DEF Ordered

LEMMA OrderedStep ==
    ASSUME TypeOK, Ordered, Running, Rests \/ Shifts \/ Returns \/ RootDestroy
    PROVE  Ordered'
<1>0. stack # <<>>
  BY DEF Running
<1>1. CASE Rests
  BY <1>1 DEF Rests, Ordered, Level
<1>2. CASE Shifts
  <2>1. Remain(Len(stack)) /\ UNCHANGED variables
    BY <1>0, <1>2, MoveRemains DEF Shifts
  <2> QED
    BY <2>1, KeepOrdered
<1>3. CASE Returns
  <2>1. Remain(Len(stack) - 1) /\ UNCHANGED variables
    BY <1>0, <1>3, ReturnRemains DEF Returns
  <2> QED
    BY <2>1, KeepOrdered
<1>4. CASE RootDestroy
  <2>1. Remain(Len(stack))
    <3> DEFINE f == [Top EXCEPT !.i = Top.i - 1]
    <3>1. Same(f, Top)
      BY <1>0, RunningType, TopMoved
    <3>2. stack' = SetTop(f)
      BY <1>4 DEF RootDestroy
    <3> HIDE DEF f
    <3> QED
      BY <1>0, <3>1, <3>2, MoveRemains
  <2>2. CASE UNCHANGED variables
    BY <2>1, <2>2, KeepOrdered
  <2>3. CASE variables' = DropLast(variables) /\ RootMatches(variables, Top.i, Top.own)
    <3> DEFINE vs == variables.insts
               ws == variables'.insts
    <3>1. variables \in [insts : Seq(VariableInstance), size : Nat]
      BY DEF TypeOK
    <3>2. ws = SubSeq(vs, 1, Len(vs) - 1) /\ IsSeq(vs) /\ Len(vs) - 1 \in 0 .. Len(vs)
          /\ DOMAIN vs = 1 .. Len(vs)
      <4>1. ws = SubSeq(vs, 1, Len(vs) - 1)
        BY <2>3, <3>1 DEF DropLast
      <4>2. Top.i \in 1 .. Len(vs) /\ Len(vs) \in Nat /\ IsSeq(vs)
        BY <2>3, Indexed DEF RootMatches
      <4> QED
        BY <4>1, <4>2, SeqFacts
    <3> HIDE DEF vs, ws
    <3>3. DOMAIN ws \subseteq DOMAIN vs /\ \A i \in DOMAIN ws : ws[i] = vs[i]
      BY <3>2, PrefixSeq
    <3> QED
      BY <2>1, <3>3, KeepOrdered DEF vs, ws
  <2> QED
    BY <1>4, <2>2, <2>3 DEF RootDestroy
<1> QED
  BY <1>1, <1>2, <1>3, <1>4

LEMMA CoreOrdered == ASSUME Layered PROVE Ordered
BY DEF Layered, Ordered

\* What the changes of the scopes are called.
LEMMA ClosesStep ==
    ASSUME Closes(Scopes, Scopes')
    PROVE  [Lexical!Next]_Scopes
BY DEF Closes, Lexical!Next, Lexical!Close

LEMMA OpensStep ==
    ASSUME Scopes' = Scopes \/ \E sees \in BOOLEAN : Scopes' = Append(Scopes, Lexical!Opened(sees))
    PROVE  [Lexical!Next]_Scopes
BY DEF Lexical!Next, Lexical!Open

\* A step of the evaluator is a step of the scopes ...
LEMMA EvaluatorScopes ==
    ASSUME TypeOK, TypeOK', NEW quiet, Tame(quiet), Scoped(quiet), Running, Ordered, Scoping
    PROVE  [Lexical!Next]_Scopes
<1>1. stack # <<>>
  BY DEF Running
<1>2. ASSUME ~failed PROVE Core(quiet) /\ Layered
  BY <1>2 DEF Scoped, Core, Sane, Running
<1>3. CASE Rests
  BY <1>3 DEF Rests, Scopes
<1>4. CASE Shifts
  BY <1>1, <1>4, ShiftsScopes, ClosesStep
<1>5. CASE Returns
  BY <1>1, <1>5, ReturnsScopes, ClosesStep
<1>6. CASE Enters
  <2>1. ~failed
    BY <1>6 DEF Enters
  <2> QED
    BY <1>1, <1>2, <1>6, <2>1, EntersScopes, OpensStep
<1>7. CASE Binds
  <2>1. ~failed
    BY <1>7 DEF Binds
  <2>2. Lexical!Declare
    BY <1>1, <1>2, <1>7, <2>1, BindsScopes
  <2> QED
    BY <2>2 DEF Lexical!Next
<1>8. CASE Declares
  <2>1. ~failed
    BY <1>8 DEF Declares
  <2>2. Lexical!Declare
    BY <1>1, <1>2, <1>8, <2>1, DeclaresScopes
  <2> QED
    BY <2>2 DEF Lexical!Next
<1>9. CASE Assigns
  <2>1. ~failed
    BY <1>9 DEF Assigns
  <2>2. Lexical!Assign
    BY <1>2, <1>9, <2>1, AssignsScopes
  <2> QED
    BY <2>2 DEF Lexical!Next
<1>10. CASE RootDestroy
  <2>1. Scopes' = Scopes
    BY <1>1, <1>10, DropScopes
  <2> QED
    BY <2>1
<1> QED
  BY <1>3, <1>4, <1>5, <1>6, <1>7, <1>8, <1>9, <1>10 DEF Scoping

\* ... that leaves the variables in order.
LEMMA EvaluatorTracked ==
    ASSUME TypeOK, NEW quiet, Scoped(quiet)', Running, Ordered, Scoping
    PROVE  Tracked'
<1>1. CASE Rests \/ Shifts \/ Returns \/ RootDestroy
  BY <1>1, OrderedStep DEF Tracked
<1>2. CASE Enters \/ Binds \/ Declares \/ Assigns
  <2> SUFFICES ASSUME mem'.fault = "none" PROVE Ordered'
    BY DEF Tracked
  <2>1. ~failed'
    BY <1>2 DEF Enters, Binds, Declares, Assigns
  <2>2. Layered'
    BY <2>1 DEF Scoped, Sane
  <2> QED
    BY <2>2 DEF Layered, Ordered
<1> QED
  BY <1>1, <1>2 DEF Scoping

\* The driver opens the scope of the entry point.
LEMMA DriverScopes ==
    ASSUME TypeOK, ErrorSeen, NEW quiet, Scoped(quiet), mem.fault = "none", Ordered, Driver
    PROVE  Tracked' /\ [Lexical!Next]_Scopes
<1>1. CASE EntryPoint
  <2>1. ~failed /\ stack = <<>> /\ UNCHANGED variables
    BY <1>1 DEF EntryPoint, ErrorSeen
  <2>2. Layered
    BY <2>1 DEF Scoped, Sane
  <2>3. variables'.insts = <<>>
    BY <2>1, <2>2, NoneLeft
  <2>4. Ordered'
    BY <2>3, EmptySeq DEF Ordered
  <2> QED
    BY <1>1, <2>2, <2>4, EntryScopes, OpensStep DEF Tracked
<1>2. CASE Register \/ Registered \/ EntryReturned \/ ScopeDestroy
  <2>1. UNCHANGED <<stack, variables>>
    BY <1>2 DEF Register, Registered, EntryReturned, ScopeDestroy
  <2> QED
    BY <2>1 DEF Tracked, Ordered, Level, Scopes
<1> QED
  BY <1>1, <1>2 DEF Driver

LEMMA ScopesStep ==
    ASSUME TypeOK, TypeOK', ErrorSeen, NEW quiet, Tame(quiet), Scoped(quiet), Scoped(quiet)',
           Tracked, [Next]_vars
    PROVE  Tracked' /\ [Lexical!Next]_Scopes
<1>1. CASE UNCHANGED vars
  BY <1>1 DEF vars, Tracked, Ordered, Level, Scopes
<1>2. CASE mem.fault # "none"
  BY <1>1, <1>2, StaysFaulty
<1>3. CASE mem.fault = "none" /\ Driver
  BY <1>3, DriverScopes DEF Tracked
<1>4. CASE mem.fault = "none" /\ (Expression \/ Call \/ Statement)
  <2>1. Running /\ Scoping /\ Ordered
    BY <1>4, ScopingStep DEF Tracked
  <2> QED
    BY <2>1, EvaluatorScopes, EvaluatorTracked
<1> QED
  BY <1>1, <1>2, <1>3, <1>4 DEF Next, Stopped

LEMMA ScopesInit ==
    ASSUME Init
    PROVE  Tracked /\ Scopes = <<>>
<1>1. stack = <<>> /\ variables.insts = <<>>
  BY DEF Init, EmptyScope
<1>2. ScopesOf(<<>>, <<>>) = <<>>
  BY EmptySeq, ScopesAre, SelectedZero
<1> QED
  BY <1>1, <1>2 DEF Tracked, Ordered, Scopes

\* For every program, every number of bodies and whatever allocations fail, the
\* flat array of variables, its lookups, the assignments it serves and
\* cwr_scope_root_destroy implement a stack of lexical scopes, if no loop is left
\* by a return.
THEOREM ScopesImplemented ==
    ASSUME NEW quiet, Tame(quiet)
    PROVE  Spec => ImplementsLexicalScopes
<1>1. Init => Scoped(quiet) /\ Tracked /\ Lexical!Init
  BY InitCore, ScopesInit DEF Scoped, Core, Lexical!Init
<1>2. TypeOK /\ ErrorSeen /\ Scoped(quiet) /\ [Next]_vars => Scoped(quiet)'
  BY ScopedStep
<1>3. TypeOK /\ TypeOK' /\ ErrorSeen /\ Scoped(quiet) /\ Scoped(quiet)' /\ Tracked /\ [Next]_vars
        => Tracked' /\ [Lexical!Next]_Scopes
  BY ScopesStep
<1> QED
  BY <1>1, <1>2, <1>3, TypeCorrect, ErrorsSeen, PTL DEF Spec, Lexical!Spec, ImplementsLexicalScopes
===============================================================================
