--------------------------- MODULE CwrParserProofs ---------------------------
(***************************************************************************)
(* Proofs about the parser, for every source, every set of addresses and   *)
(* whatever the expressions of a source are: as long as no for loop        *)
(* declares a variable, the table of variables is the stack of the open    *)
(* scopes (TableCorrect), and it implements the scopes of LexicalScopes    *)
(* (ScopesCorrect).  What makes that inductive is the shape of the stack   *)
(* of constructs (Constructs): no two bodies are at one address, and a     *)
(* function is at the bottom.                                              *)
(***************************************************************************)
EXTENDS CwrParserProperties, SelectionProofs, FiniteSetTheorems

(***************************************************************************)
(* The invariant, of any table and any stack.                              *)
(***************************************************************************)
At1 == {"func", "arguments"}

Constructs(os) ==
    /\ IsSeq(os)
    /\ \A i \in DOMAIN os :
        /\ os[i].kind \in OpenKind
        /\ os[i].kind \in BodyKind \cup {"arguments"} => os[i].root \in Address
        /\ os[i].kind \notin BodyKind \cup {"arguments"} => os[i].root = GlobalScope
        /\ i = 1 <=> os[i].kind \in At1
        /\ os[i].kind = "arguments" => Len(os) = 1
    /\ \A i, j \in DOMAIN os : os[i].root = os[j].root => i = j \/ os[i].root = GlobalScope

OwnersIn(v, os) == {k \in DOMAIN os : os[k].root = v.root /\ v.root # GlobalScope}

Table(vs, os) ==
    /\ IsSeq(vs)
    /\ \A i \in DOMAIN vs : vs[i].id = i - 1 /\ OwnersIn(vs[i], os) # {}
    /\ \A i, j \in DOMAIN vs : i <= j =>
        \E k \in OwnersIn(vs[i], os), l \in OwnersIn(vs[j], os) : k <= l

Good2(vs, os) == Constructs(os) /\ Table(vs, os)

\* A stack with the same constructs, where one may have come further.
Becomes(k, l) ==
    \/ k = l
    \/ k = "step" /\ l = "stepped"
    \/ k = "condition" /\ l = "step"
    \/ k = "arguments" /\ l = "func"

Like(os, st) ==
    /\ IsSeq(st) /\ Len(st) = Len(os)
    /\ \A i \in DOMAIN os : st[i].root = os[i].root /\ Becomes(os[i].kind, st[i].kind)

LEMMA LikeGood ==
    ASSUME NEW vs, NEW os, NEW st, Good2(vs, os), Like(os, st)
    PROVE  Good2(vs, st)
<1>1. IsSeq(os) /\ DOMAIN st = DOMAIN os /\ Len(st) = Len(os)
  BY SeqFacts DEF Good2, Constructs, Like
<1>2. \A v : OwnersIn(v, st) = OwnersIn(v, os)
  BY <1>1 DEF OwnersIn, Like
<1>3. Table(vs, st)
  BY <1>2 DEF Good2, Table
<1>4. \A i \in DOMAIN st :
        /\ st[i].kind \in OpenKind
        /\ st[i].kind \in BodyKind \cup {"arguments"} => st[i].root \in Address
        /\ st[i].kind \notin BodyKind \cup {"arguments"} => st[i].root = GlobalScope
        /\ i = 1 <=> st[i].kind \in At1
        /\ st[i].kind = "arguments" => Len(st) = 1
  BY <1>1 DEF Good2, Constructs, Like, Becomes, OpenKind, BodyKind, At1
<1>5. \A i, j \in DOMAIN st : st[i].root = st[j].root => i = j \/ st[i].root = GlobalScope
  BY <1>1 DEF Good2, Constructs, Like
<1> QED
  BY <1>3, <1>4, <1>5 DEF Good2, Constructs, Like

\* A construct begins, at a new address or at none.
LEMMA PushGood ==
    ASSUME NEW vs, NEW os, NEW e, Good2(vs, os),
           e.kind \in OpenKind, e.kind \notin At1, Len(os) > 0, os[1].kind = "func",
           \/ e.kind \in BodyKind /\ e.root \in Address /\ \A i \in DOMAIN os : os[i].root # e.root
           \/ e.kind \notin BodyKind /\ e.root = GlobalScope
    PROVE  Good2(vs, Append(os, e))
<1> DEFINE st == Append(os, e)
<1>1. /\ IsSeq(os) /\ IsSeq(st) /\ DOMAIN os = 1 .. Len(os) /\ DOMAIN st = 1 .. Len(os) + 1
      /\ Len(st) = Len(os) + 1
      /\ \A i \in DOMAIN os : st[i] = os[i]
      /\ st[Len(os) + 1] = e /\ Len(os) \in Nat
  BY SeqFacts, AppendSeq DEF Good2, Constructs
<1> HIDE DEF st
<1>2. \A i \in DOMAIN vs : OwnersIn(vs[i], st) = OwnersIn(vs[i], os)
  <2> SUFFICES ASSUME NEW i \in DOMAIN vs PROVE OwnersIn(vs[i], st) = OwnersIn(vs[i], os)
    OBVIOUS
  <2>1. PICK k \in DOMAIN os : os[k].root = vs[i].root /\ vs[i].root # GlobalScope
    BY DEF Good2, Table, OwnersIn
  <2>2. e.root # vs[i].root
    BY <2>1
  <2> QED
    BY <1>1, <2>1, <2>2 DEF OwnersIn
<1>3. Table(vs, st)
  BY <1>2 DEF Good2, Table
<1>4. \A i \in DOMAIN st :
        /\ st[i].kind \in OpenKind
        /\ st[i].kind \in BodyKind \cup {"arguments"} => st[i].root \in Address
        /\ st[i].kind \notin BodyKind \cup {"arguments"} => st[i].root = GlobalScope
        /\ i = 1 <=> st[i].kind \in At1
        /\ st[i].kind = "arguments" => Len(st) = 1
  <2> SUFFICES ASSUME NEW i \in DOMAIN st
               PROVE  /\ st[i].kind \in OpenKind
                      /\ st[i].kind \in BodyKind \cup {"arguments"} => st[i].root \in Address
                      /\ st[i].kind \notin BodyKind \cup {"arguments"} => st[i].root = GlobalScope
                      /\ i = 1 <=> st[i].kind \in At1
                      /\ st[i].kind = "arguments" => Len(st) = 1
    OBVIOUS
  <2>1. CASE i \in DOMAIN os
    <3>1. st[i].kind # "arguments"
      BY <1>1, <2>1 DEF Good2, Constructs, At1
    <3> QED
      BY <1>1, <2>1, <3>1 DEF Good2, Constructs
  <2>2. CASE i = Len(os) + 1
    BY <1>1, <2>2 DEF Good2, Constructs, At1
  <2> QED
    BY <1>1, <2>1, <2>2
<1>5. \A i, j \in DOMAIN st : st[i].root = st[j].root => i = j \/ st[i].root = GlobalScope
  BY <1>1 DEF Good2, Constructs
<1>6. Constructs(st)
  BY <1>1, <1>4, <1>5 DEF Constructs
<1> QED
  BY <1>3, <1>6 DEF Good2, st

(***************************************************************************)
(* The construct on top goes away.                                         *)
(***************************************************************************)
LEMMA PopConstructs ==
    ASSUME NEW os, Constructs(os), Len(os) > 0
    PROVE  /\ Constructs(SubSeq(os, 1, Len(os) - 1))
           /\ Len(SubSeq(os, 1, Len(os) - 1)) = Len(os) - 1
           /\ DOMAIN os = 1 .. Len(os) /\ Len(os) \in Nat
           /\ DOMAIN SubSeq(os, 1, Len(os) - 1) = 1 .. Len(os) - 1
           /\ \A i \in 1 .. Len(os) - 1 : SubSeq(os, 1, Len(os) - 1)[i] = os[i]
<1> DEFINE st == SubSeq(os, 1, Len(os) - 1)
<1>0. IsSeq(os) /\ DOMAIN os = 1 .. Len(os) /\ Len(os) \in Nat /\ Len(os) - 1 \in 0 .. Len(os)
  BY SeqFacts DEF Constructs
<1>1. /\ IsSeq(os) /\ DOMAIN os = 1 .. Len(os) /\ Len(os) \in Nat
      /\ IsSeq(st) /\ Len(st) = Len(os) - 1 /\ DOMAIN st = 1 .. Len(os) - 1
      /\ \A i \in DOMAIN st : st[i] = os[i]
  BY <1>0, PrefixSeq
<1> HIDE DEF st
<1>2. \A i \in DOMAIN st :
        /\ st[i].kind \in OpenKind
        /\ st[i].kind \in BodyKind \cup {"arguments"} => st[i].root \in Address
        /\ st[i].kind \notin BodyKind \cup {"arguments"} => st[i].root = GlobalScope
        /\ i = 1 <=> st[i].kind \in At1
        /\ st[i].kind = "arguments" => Len(st) = 1
  BY <1>1 DEF Constructs
<1>3. \A i, j \in DOMAIN st : st[i].root = st[j].root => i = j \/ st[i].root = GlobalScope
  BY <1>1 DEF Constructs
<1>4. Constructs(st)
  BY <1>1, <1>2, <1>3 DEF Constructs
<1> QED
  BY <1>1, <1>4 DEF st

\* One without an address leaves the table as it is.
LEMMA PopHead ==
    ASSUME NEW vs, NEW os, Good2(vs, os), Len(os) > 0, os[Len(os)].root = GlobalScope
    PROVE  Good2(vs, SubSeq(os, 1, Len(os) - 1))
<1> DEFINE st == SubSeq(os, 1, Len(os) - 1)
<1>1. /\ Constructs(st) /\ Len(os) \in Nat
      /\ DOMAIN os = 1 .. Len(os) /\ DOMAIN st = 1 .. Len(os) - 1
      /\ \A i \in DOMAIN st : st[i] = os[i]
  BY PopConstructs DEF Good2
<1> HIDE DEF st
<1>2. \A v : OwnersIn(v, st) = OwnersIn(v, os)
  BY <1>1 DEF OwnersIn
<1>3. Table(vs, st)
  BY <1>2 DEF Good2, Table
<1> QED
  BY <1>1, <1>3 DEF Good2, st

\* Of a body, the entries are the last ones of the table, and
\* cwr_parser_clear_scope drops these.
LEMMA OwnSuffix ==
    ASSUME NEW vs, NEW os, Good2(vs, os), Len(os) > 0, os[Len(os)].root \in Address
    PROVE  \E m \in 1 .. Len(vs) + 1 : OfRoot(vs, os[Len(os)].root) = m .. Len(vs)
<1> DEFINE n == Len(os)
           own == OfRoot(vs, os[n].root)
<1>1. n \in Nat /\ n \in DOMAIN os /\ DOMAIN os = 1 .. n
  BY SeqFacts DEF Good2, Constructs
<1>2. Len(vs) \in Nat /\ DOMAIN vs = 1 .. Len(vs)
  BY SeqFacts DEF Good2, Table
<1>3. os[n].root # GlobalScope
  BY AddressAssumption
<1>4. ASSUME NEW i \in own, NEW j \in DOMAIN vs, i <= j PROVE j \in own
  <2>1. i \in DOMAIN vs /\ vs[i].root = os[n].root
    BY <1>4 DEF OfRoot
  <2>2. PICK k \in OwnersIn(vs[i], os), l \in OwnersIn(vs[j], os) : k <= l
    BY <1>4, <2>1 DEF Good2, Table
  <2>3. k \in DOMAIN os /\ os[k].root = os[n].root /\ l \in DOMAIN os /\ os[l].root = vs[j].root
    BY <2>1, <2>2 DEF OwnersIn
  <2>4. k = n
    BY <1>1, <1>3, <2>3 DEF Good2, Constructs
  <2>5. l = n
    BY <1>1, <2>2, <2>3, <2>4
  <2> QED
    BY <2>3, <2>5 DEF OfRoot
<1>5. own \subseteq 1 .. Len(vs)
  BY <1>2 DEF OfRoot
<1> HIDE DEF own
<1>6. CASE own = {}
  <2>1. own = Len(vs) + 1 .. Len(vs)
    BY <1>2, <1>6
  <2> QED
    BY <1>2, <2>1 DEF own
<1>7. CASE own # {}
  <2>1. PICK m \in own : \A j \in own : m <= j
    BY <1>2, <1>5, <1>7, LeastNumber
  <2>2. \A j \in m .. Len(vs) : j \in own
    BY <1>2, <1>4, <1>5, <2>1
  <2>3. \A j \in own : j \in m .. Len(vs)
    BY <1>2, <1>5, <2>1
  <2>4. own = m .. Len(vs)
    BY <2>2, <2>3
  <2> QED
    BY <1>2, <1>5, <2>1, <2>4 DEF own
<1> QED
  BY <1>6, <1>7 DEF own

LEMMA PopBody ==
    ASSUME NEW vs, NEW os, Good2(vs, os), Len(os) > 0, os[Len(os)].root \in Address
    PROVE  Good2(ClearScope(vs, os[Len(os)].root), SubSeq(os, 1, Len(os) - 1))
<1> DEFINE n == Len(os)
           st == SubSeq(os, 1, Len(os) - 1)
           own == OfRoot(vs, os[n].root)
           left == ClearScope(vs, os[n].root)
<1>1. /\ Constructs(st) /\ n \in Nat
      /\ DOMAIN os = 1 .. n /\ DOMAIN st = 1 .. n - 1
      /\ \A i \in DOMAIN st : st[i] = os[i]
  BY PopConstructs DEF Good2
<1>2. IsSeq(vs) /\ Len(vs) \in Nat /\ DOMAIN vs = 1 .. Len(vs)
  BY SeqFacts DEF Good2, Table
<1>3. PICK m \in 1 .. Len(vs) + 1 : own = m .. Len(vs)
  BY OwnSuffix
<1>4. Cardinality(own) = Len(vs) + 1 - m
  <2>0. m \in Int /\ Len(vs) \in Int
    BY <1>2
  <2>1. Cardinality(m .. Len(vs)) = IF m > Len(vs) THEN 0 ELSE Len(vs) - m + 1
    BY <2>0, FS_Interval
  <2> QED
    BY <1>2, <1>3, <2>1
<1>5. Len(vs) - Cardinality(own) = m - 1 /\ m - 1 \in 0 .. Len(vs)
  BY <1>2, <1>4
<1>6. left = SubSeq(vs, 1, m - 1)
  BY <1>5 DEF ClearScope
<1>7. IsSeq(left) /\ DOMAIN left = 1 .. m - 1 /\ \A i \in DOMAIN left : left[i] = vs[i]
  BY <1>2, <1>5, <1>6, PrefixSeq
<1> HIDE DEF left, st
<1>8. ASSUME NEW i \in DOMAIN left
      PROVE  i \in DOMAIN vs /\ left[i] = vs[i] /\ OwnersIn(left[i], st) = OwnersIn(vs[i], os)
  <2>1. i \in DOMAIN vs /\ i \notin own /\ left[i] = vs[i]
    BY <1>2, <1>3, <1>7
  <2>2. vs[i].root # os[n].root
    BY <2>1 DEF OfRoot
  <2> QED
    BY <1>1, <2>1, <2>2 DEF OwnersIn
<1>9. Table(left, st)
  BY <1>7, <1>8 DEF Good2, Table
<1> QED
  BY <1>1, <1>9 DEF Good2, left, st

(***************************************************************************)
(* The construct on top comes further.                                     *)
(***************************************************************************)
LEMMA SetLastGood ==
    ASSUME NEW vs, NEW os, NEW e, Good2(vs, os), Len(os) > 0,
           e.root = os[Len(os)].root, Becomes(os[Len(os)].kind, e.kind)
    PROVE  Good2(vs, Append(SubSeq(os, 1, Len(os) - 1), e))
<1> DEFINE rest == SubSeq(os, 1, Len(os) - 1)
           st == Append(rest, e)
<1>1. /\ IsSeq(rest) /\ Len(rest) = Len(os) - 1 /\ Len(os) \in Nat
      /\ DOMAIN os = 1 .. Len(os) /\ DOMAIN rest = 1 .. Len(os) - 1
      /\ \A i \in DOMAIN rest : rest[i] = os[i]
  BY PopConstructs DEF Good2, Constructs
<1> HIDE DEF rest
<1>2. /\ IsSeq(st) /\ Len(st) = Len(os)
      /\ \A i \in DOMAIN rest : st[i] = rest[i]
      /\ st[Len(os)] = e
  BY <1>1, AppendSeq
<1> HIDE DEF st
<1>3. Like(os, st)
  BY <1>1, <1>2 DEF Like, Becomes
<1>4. Good2(vs, st)
  BY <1>3, LikeGood
<1> QED
  BY <1>4 DEF st, rest

LEMMA FinishedGood ==
    ASSUME NEW vs, NEW st, Good2(vs, st), Len(st) > 0, NEW n, NEW p, Finished(st, n, p)
    PROVE  Good2(vs, opened')
<1> DEFINE e == st[Len(st)]
           rest == SubSeq(st, 1, Len(st) - 1)
           further == Entry("stepped", e.root, [e.node EXCEPT !.kids[3] = n], e.stats)
           longer == Entry(e.kind, e.root, e.node, Append(e.stats, n))
<1>1. \/ e.kind = "step" /\ opened' = Append(rest, further)
      \/ opened' = Append(rest, longer)
      \/ opened' = st
  BY DEF Finished
<1>2. further.root = e.root /\ further.kind = "stepped" /\ longer.root = e.root /\ longer.kind = e.kind
  BY DEF Entry
<1> HIDE DEF further, longer
<1>3. CASE e.kind = "step" /\ opened' = Append(rest, further)
  BY <1>2, <1>3, SetLastGood DEF Becomes
<1>4. CASE opened' = Append(rest, longer)
  BY <1>2, <1>4, SetLastGood DEF Becomes
<1> QED
  BY <1>1, <1>3, <1>4

(***************************************************************************)
(* The next body is at no address of the stack.                            *)
(***************************************************************************)
LEMMA NewAddressFresh ==
    ASSUME NEW a \in NewAddress
    PROVE  a \in Address /\ \A i \in DOMAIN opened : opened[i].root # a
<1>1. NewAddress \subseteq Unused
  <2>1. Stale \subseteq Unused
    BY DEF Stale
  <2>2. Stale # Unused => (CHOOSE b \in Unused : b \notin Stale) \in Unused
    BY <2>1
  <2> QED
    BY <2>1, <2>2 DEF NewAddress
<1> QED
  BY <1>1 DEF Unused

LEMMA OpenGood ==
    ASSUME NEW st, Good2(variables, st), Len(st) > 0, st[1].kind = "func",
           \A i \in DOMAIN st : \E j \in DOMAIN opened : st[i].root = opened[j].root,
           NEW kind \in {"if", "for", "return"}, NEW node, NEW p, Open(st, kind, node, p)
    PROVE  Good2(variables', opened')
<1>1. PICK a \in NewAddress : opened' = Append(st, Entry(kind, a, node, <<>>))
  BY DEF Open
<1> DEFINE e == Entry(kind, a, node, <<>>)
<1>2. e.kind = kind /\ e.root = a
  BY DEF Entry
<1>3. a \in Address /\ \A i \in DOMAIN st : st[i].root # a
  BY NewAddressFresh
<1> HIDE DEF e
<1>4. Good2(variables, Append(st, e))
  BY <1>2, <1>3, PushGood DEF OpenKind, BodyKind, At1
<1> QED
  BY <1>1, <1>4 DEF e, Open

(***************************************************************************)
(* A variable of the innermost body is declared.                           *)
(***************************************************************************)
LEMMA AddVariable ==
    ASSUME NEW vs, NEW os, NEW v, NEW k, Good2(vs, os), v.id = Len(vs),
           k \in OwnersIn(v, os), \A i \in DOMAIN os : os[i].root # GlobalScope => i <= k
    PROVE  Good2(Append(vs, v), os)
<1> DEFINE more == Append(vs, v)
<1>1. /\ IsSeq(vs) /\ Len(vs) \in Nat /\ DOMAIN vs = 1 .. Len(vs)
      /\ IsSeq(more) /\ DOMAIN more = 1 .. Len(vs) + 1
      /\ \A i \in DOMAIN vs : more[i] = vs[i]
      /\ more[Len(vs) + 1] = v
  BY SeqFacts, AppendSeq DEF Good2, Table
<1>2. DOMAIN os = 1 .. Len(os) /\ Len(os) \in Nat
  BY SeqFacts DEF Good2, Constructs
<1> HIDE DEF more
<1>3. \A i \in DOMAIN more : more[i].id = i - 1 /\ OwnersIn(more[i], os) # {}
  BY <1>1 DEF Good2, Table
<1>4. ASSUME NEW i \in DOMAIN more, NEW j \in DOMAIN more, i <= j
      PROVE  \E o \in OwnersIn(more[i], os), l \in OwnersIn(more[j], os) : o <= l
  <2>1. CASE j \in DOMAIN vs
    <3>1. i \in DOMAIN vs
      BY <1>1, <1>4, <2>1
    <3> QED
      BY <1>1, <1>4, <2>1, <3>1 DEF Good2, Table
  <2>2. CASE j = Len(vs) + 1
    <3>1. PICK o \in OwnersIn(more[i], os) : TRUE
      BY <1>3
    <3>2. o \in DOMAIN os /\ os[o].root # GlobalScope
      BY <3>1 DEF OwnersIn
    <3>3. o <= k
      BY <3>2
    <3> QED
      BY <1>1, <2>2, <3>1, <3>3
  <2> QED
    BY <1>1, <2>1, <2>2
<1>5. Table(more, os)
  BY <1>1, <1>3, <1>4 DEF Table
<1> QED
  BY <1>5 DEF Good2, more

LEMMA GreatestNumber ==
    ASSUME NEW n \in Nat, NEW S \in SUBSET (1 .. n), S # {}
    PROVE  \E x \in S : \A y \in S : y <= x
<1> DEFINE D == {n - x : x \in S}
<1>1. D \in SUBSET Nat /\ D # {}
  OBVIOUS
<1>2. PICK d \in D : \A e \in D : d <= e
  BY <1>1, LeastNumber
<1>3. PICK x \in S : d = n - x
  BY <1>2
<1>4. \A y \in S : n - x <= n - y
  BY <1>2, <1>3
<1> QED
  BY <1>3, <1>4

\* A variable that is renamed is the same variable.
LEMMA FreeLastGood ==
    ASSUME NEW vs, NEW os, Good2(vs, os)
    PROVE  Good2(FreeLast(vs), os)
<1> DEFINE fs == FreeLast(vs)
<1>1. Len(vs) \in Nat /\ DOMAIN vs = 1 .. Len(vs)
  BY SeqFacts DEF Good2, Table
<1>2. DOMAIN fs = DOMAIN vs /\ \A i \in DOMAIN vs : fs[i].id = vs[i].id /\ fs[i].root = vs[i].root
  BY DEF FreeLast, Nameless, Variable
<1>3. IsSeq(fs)
  <2> DEFINE T == {IF i > Len(vs) - 2 THEN Nameless(vs[i]) ELSE vs[i] : i \in DOMAIN vs}
  <2>1. fs \in [1 .. Len(vs) -> T]
    BY <1>1 DEF FreeLast
  <2>2. fs \in Seq(T)
    BY <1>1, <2>1
  <2> QED
    BY <2>2 DEF IsSeq
<1> HIDE DEF fs
<1>4. \A i \in DOMAIN vs : OwnersIn(fs[i], os) = OwnersIn(vs[i], os)
  BY <1>2 DEF OwnersIn
<1>5. Table(fs, os)
  BY <1>2, <1>3, <1>4 DEF Good2, Table
<1> QED
  BY <1>5 DEF Good2, fs

(***************************************************************************)
(* The actions.                                                            *)
(***************************************************************************)
Inv == Good2(variables, opened)

LEMMA TopFacts ==
    ASSUME Inv, opened # <<>>
    PROVE  /\ Len(opened) \in Nat /\ Len(opened) > 0 /\ DOMAIN opened = 1 .. Len(opened)
           /\ Top.kind \notin At1 => Len(opened) > 1
           /\ Top.kind # "arguments" => opened[1].kind = "func"
           /\ Top.kind \in BodyKind \cup {"arguments"} => Top.root \in Address
           /\ Top.kind \in {"condition", "step", "stepped"} => Top.root = GlobalScope
<1>1. IsSeq(opened) /\ Len(opened) \in Nat /\ DOMAIN opened = 1 .. Len(opened)
  BY SeqFacts DEF Inv, Good2, Constructs
<1>2. Len(opened) > 0
  <2>1. PICK T : opened \in Seq(T)
    BY <1>1 DEF IsSeq
  <2> QED
    BY <2>1
<1>3. opened[1].kind \in At1 /\ (opened[1].kind = "arguments" => Len(opened) = 1)
  BY <1>1, <1>2 DEF Inv, Good2, Constructs
<1>4. Top.kind \notin At1 => Len(opened) > 1
  BY <1>1, <1>2, <1>3 DEF Top
<1>5. Top.kind # "arguments" => opened[1].kind = "func"
  BY <1>1, <1>2, <1>3 DEF Top, At1
<1>6. /\ Top.kind \in BodyKind \cup {"arguments"} => Top.root \in Address
      /\ Top.kind \notin BodyKind \cup {"arguments"} => Top.root = GlobalScope
  BY <1>1, <1>2 DEF Top, Inv, Good2, Constructs
<1> QED
  BY <1>1, <1>2, <1>4, <1>5, <1>6 DEF BodyKind

LEMMA AtFacts ==
    ASSUME Inv, NEW kind, At(kind)
    PROVE  /\ opened # <<>> /\ Len(opened) > 0 /\ opened[1].kind = "func"
           /\ Top.kind \in BodyKind \cup {"step"}
<1>1. opened # <<>> /\ Top.kind \in BodyKind \cup {"step"}
  BY DEF At, InBody
<1> QED
  BY <1>1, TopFacts DEF BodyKind

LEMMA BadGood ==
    ASSUME Inv, NEW r, Bad(r)
    PROVE  Inv'
BY DEF Bad, Crash, Fail, Inv

LEMMA FailGood ==
    ASSUME Inv, Fail
    PROVE  Inv'
BY DEF Fail, Inv

LEMMA StatementGood ==
    ASSUME Inv, NEW kind, At(kind), NEW r, Statement(r)
    PROVE  Inv'
<1>1. CASE Good(r)
  <2>1. Finished(opened, r.node, r.next) /\ UNCHANGED variables
    BY <1>1 DEF Statement
  <2>2. Good2(variables, opened')
    BY <2>1, AtFacts, FinishedGood DEF Inv
  <2> QED
    BY <2>1, <2>2 DEF Inv
<1>2. CASE ~Good(r)
  BY <1>2, BadGood DEF Statement
<1> QED
  BY <1>1, <1>2

LEMMA OpenTopGood ==
    ASSUME Inv, opened # <<>>, Top.kind # "arguments",
           NEW kind \in {"if", "for", "return"}, NEW node, NEW p, Open(opened, kind, node, p)
    PROVE  Inv'
BY TopFacts, OpenGood DEF Inv

\* The head of a for loop makes place for its body.
LEMMA OpenBelowGood ==
    ASSUME Inv, opened # <<>>, Top.kind \in {"condition", "stepped"},
           NEW node, NEW p, Open(Below, "for", node, p)
    PROVE  Inv'
<1>1. Len(opened) > 1 /\ opened[1].kind = "func" /\ Top.root = GlobalScope
  BY TopFacts DEF At1
<1>2. Good2(variables, Below)
  BY <1>1, TopFacts, PopHead DEF Inv, Below, Top
<1>3. /\ Len(Below) = Len(opened) - 1 /\ Len(opened) \in Nat
      /\ DOMAIN opened = 1 .. Len(opened) /\ DOMAIN Below = 1 .. Len(opened) - 1
      /\ \A i \in DOMAIN Below : Below[i] = opened[i]
  BY <1>1, TopFacts, PopConstructs DEF Inv, Good2, Below
<1>4. Len(Below) > 0 /\ Below[1].kind = "func"
  BY <1>1, <1>3
<1>5. \A i \in DOMAIN Below : \E j \in DOMAIN opened : Below[i].root = opened[j].root
  BY <1>3
<1> QED
  BY <1>2, <1>4, <1>5, OpenGood DEF Inv

LEMMA RootFacts ==
    ASSUME Inv, NEW kind, At(kind)
    PROVE  \E k \in DOMAIN opened :
              /\ opened[k].root = Root /\ Root # GlobalScope
              /\ \A i \in DOMAIN opened : opened[i].root # GlobalScope => i <= k
<1>1. Len(opened) \in Nat /\ Len(opened) > 0 /\ DOMAIN opened = 1 .. Len(opened) /\ opened[1].kind = "func"
  BY AtFacts, TopFacts
<1>2. 1 \in Bodies /\ Bodies \in SUBSET (1 .. Len(opened))
  BY <1>1 DEF Bodies, BodyKind
<1>3. \E x \in Bodies : \A y \in Bodies : y <= x
  BY <1>1, <1>2, GreatestNumber
<1>4. Innermost \in Bodies /\ \A y \in Bodies : y <= Innermost
  BY <1>3 DEF Innermost
<1>5. Root = opened[Innermost].root /\ Root \in Address
  BY <1>2, <1>4 DEF Root, Bodies, Inv, Good2, Constructs
<1>6. ASSUME NEW i \in DOMAIN opened, opened[i].root # GlobalScope
      PROVE  i \in Bodies
  <2>1. opened[i].kind \in BodyKind \cup {"arguments"}
    BY <1>6 DEF Inv, Good2, Constructs
  <2>2. opened[i].kind # "arguments"
    BY <1>1 DEF Inv, Good2, Constructs
  <2> QED
    BY <2>1, <2>2 DEF Bodies
<1> QED
  BY <1>4, <1>5, <1>6, AddressAssumption DEF Bodies

LEMMA FunctionHeadStep == ASSUME Inv, FunctionHead PROVE Inv'
<1> DEFINE ty == TypeAt(position)
           p == ty.next
<1>1. CASE Fail
  BY <1>1, FailGood
<1>2. CASE Bad(ty)
  BY <1>2, BadGood
<1>3. CASE /\ \E a \in NewAddress :
                opened' = <<Entry("arguments", a,
                                  Leaf("func", Tok(p).s, Len(functions), 0, ty.node.type), <<>>)>>
           /\ UNCHANGED variables
  <2>1. opened = <<>>
    BY DEF FunctionHead
  <2>2. PICK a \in NewAddress :
            opened' = <<Entry("arguments", a,
                              Leaf("func", Tok(p).s, Len(functions), 0, ty.node.type), <<>>)>>
    BY <1>3
  <2> DEFINE e == Entry("arguments", a, Leaf("func", Tok(p).s, Len(functions), 0, ty.node.type), <<>>)
  <2>3. e.kind = "arguments" /\ e.root = a /\ a \in Address
    BY NewAddressFresh DEF Entry
  <2> HIDE DEF e
  <2>4. opened' = <<e>>
    BY <2>2 DEF e
  <2>5. IsSeq(opened') /\ Len(opened') = 1 /\ DOMAIN opened' = {1} /\ opened'[1] = e
    <3>1. <<e>> \in Seq({e}) /\ Len(<<e>>) = 1 /\ DOMAIN <<e>> = {1} /\ <<e>>[1] = e
      OBVIOUS
    <3>2. IsSeq(<<e>>)
      BY <3>1 DEF IsSeq
    <3> QED
      BY <2>4, <3>1, <3>2
  <2>6. Constructs(opened')
    BY <2>3, <2>5 DEF Constructs, OpenKind, BodyKind, At1
  <2>7. DOMAIN opened = {}
    BY <2>1
  <2>8. DOMAIN variables = {}
    <3>1. \A i \in DOMAIN variables : OwnersIn(variables[i], opened) # {}
      BY DEF Inv, Good2, Table
    <3> QED
      BY <2>7, <3>1 DEF OwnersIn
  <2>9. Table(variables', opened')
    BY <1>3, <2>8 DEF Inv, Good2, Table
  <2> QED
    BY <2>6, <2>9 DEF Inv, Good2
<1>4. CASE Crash("returns nothing")
  BY <1>4 DEF Crash, Inv
<1> QED
  BY <1>1, <1>2, <1>3, <1>4 DEF FunctionHead

\* Every variable there is while arguments are read is an argument.
LEMMA ArgumentOwner ==
    ASSUME Inv, InArguments
    PROVE  /\ Len(opened) = 1 /\ DOMAIN opened = {1} /\ Top = opened[1]
           /\ Top.root \in Address /\ Top.root # GlobalScope
<1>1. opened # <<>> /\ Top.kind = "arguments"
  BY DEF InArguments
<1>2. Len(opened) \in Nat /\ Len(opened) > 0 /\ DOMAIN opened = 1 .. Len(opened) /\ Top.root \in Address
  BY <1>1, TopFacts
<1>3. Len(opened) = 1
  BY <1>1, <1>2 DEF Inv, Good2, Constructs, Top
<1> QED
  BY <1>2, <1>3, AddressAssumption DEF Top

LEMMA ArgumentStep == ASSUME Inv, Argument PROVE Inv'
<1> DEFINE ty == TypeAt(position)
           v == Variable(Tok(ty.next).s, NextId(variables), Top.root, ty.node.type)
           e == Entry("arguments", Top.root, WithParameter(Top.node, v), <<>>)
<1>1. CASE Fail
  BY <1>1, FailGood
<1>2. CASE Bad(ty)
  BY <1>2, BadGood
<1>3. CASE variables' = Append(variables, v) /\ opened' = SetTop(e)
  <2>1. InArguments /\ Top.kind = "arguments"
    BY DEF Argument, InArguments
  <2>2. /\ Len(opened) = 1 /\ DOMAIN opened = {1} /\ Top = opened[1]
        /\ Top.root \in Address /\ Top.root # GlobalScope
    BY <2>1, ArgumentOwner
  <2>3. v.id = Len(variables) /\ v.root = Top.root
    BY DEF Variable, NextId
  <2>4. e.kind = Top.kind /\ e.root = Top.root
    BY <2>1 DEF Entry
  <2> HIDE DEF v, e
  <2>5. 1 \in OwnersIn(v, opened)
    BY <2>2, <2>3 DEF OwnersIn
  <2>6. Good2(variables', opened)
    BY <1>3, <2>2, <2>3, <2>5, AddVariable DEF Inv
  <2>7. Len(opened) > 0
    BY <2>2
  <2>8. Good2(variables', opened')
    BY <1>3, <2>4, <2>6, <2>7, SetLastGood DEF SetTop, Below, Top, Becomes
  <2> QED
    BY <2>8 DEF Inv
<1> QED
  BY <1>1, <1>2, <1>3 DEF Argument

LEMMA ArgumentsEndStep == ASSUME Inv, ArgumentsEnd PROVE Inv'
<1> DEFINE e == Entry("func", Top.root, Top.node, <<>>)
<1>1. InArguments /\ Top.kind = "arguments"
  BY DEF ArgumentsEnd, InArguments
<1>2. Len(opened) > 0 /\ Top.root \in Address
  BY SMTT(30), <1>1, ArgumentOwner
<1>3. CASE variables' = ClearScope(variables, Top.root) /\ opened' = Below
  <2>1. Good2(variables', opened')
    BY <1>2, <1>3, PopBody DEF Inv, Top, Below
  <2> QED
    BY <2>1 DEF Inv
<1>4. CASE UNCHANGED variables /\ opened' = SetTop(e)
  <2>1. e.root = Top.root /\ e.kind = "func"
    BY DEF Entry
  <2> HIDE DEF e
  <2>2. Good2(variables, opened')
    BY <1>1, <1>2, <1>4, <2>1, SetLastGood DEF Inv, SetTop, Below, Top, Becomes
  <2> QED
    BY <1>4, <2>2 DEF Inv
<1> QED
  BY <1>3, <1>4 DEF ArgumentsEnd

LEMMA CallStep == ASSUME Inv, CallStatement PROVE Inv'
BY StatementGood DEF CallStatement

LEMMA AssignStep == ASSUME Inv, Assign PROVE Inv'
<1>1. \E r : Statement(r)
  BY DEF Assign
<1> QED
  BY <1>1, StatementGood DEF Assign

LEMMA DeclareStep == ASSUME Inv, Declare PROVE Inv'
<1>1. At("decl")
  BY DEF Declare
<1>2. PICK d : \/ Bad(d)
               \/ /\ Finished(opened, d.node, d.next)
                  /\ variables' = Append(variables, Declared(d.node, Root))
  BY DEF Declare
<1>3. CASE Bad(d)
  BY <1>3, BadGood
<1>4. CASE /\ Finished(opened, d.node, d.next)
           /\ variables' = Append(variables, Declared(d.node, Root))
  <2> DEFINE v == Declared(d.node, Root)
  <2>1. v.id = Len(variables) /\ v.root = Root
    BY DEF Declared, Variable, NextId
  <2> HIDE DEF v
  <2>2. PICK k \in DOMAIN opened :
            /\ opened[k].root = Root /\ Root # GlobalScope
            /\ \A i \in DOMAIN opened : opened[i].root # GlobalScope => i <= k
    BY <1>1, RootFacts
  <2>3. k \in OwnersIn(v, opened)
    BY <2>1, <2>2 DEF OwnersIn
  <2>4. Good2(variables', opened)
    BY <1>4, <2>1, <2>2, <2>3, AddVariable DEF Inv, v
  <2>5. Good2(variables', opened')
    BY <1>1, <1>4, <2>4, AtFacts, FinishedGood
  <2> QED
    BY <2>5 DEF Inv
<1> QED
  BY <1>2, <1>3, <1>4

LEMMA ReturnStep == ASSUME Inv, Return PROVE Inv'
<1>1. At("return")
  BY DEF Return
<1>2. \/ \E e : Bad(e)
      \/ \E e, p : Open(opened, "return", ReturnNode(e), p)
      \/ \E r : Statement(r)
  BY DEF Return
<1>3. opened # <<>> /\ Top.kind # "arguments"
  BY <1>1, AtFacts DEF BodyKind
<1> QED
  BY <1>1, <1>2, <1>3, BadGood, OpenTopGood, StatementGood

LEMMA IfStep == ASSUME Inv, If PROVE Inv'
<1>1. At("if")
  BY DEF If
<1>2. \/ \E e : Bad(e)
      \/ \E n, p : Open(opened, "if", n, p)
  BY DEF If
<1>3. opened # <<>> /\ Top.kind # "arguments"
  BY <1>1, AtFacts DEF BodyKind
<1> QED
  BY <1>2, <1>3, BadGood, OpenTopGood

\* The head of a for loop, without a variable.
LEMMA ForStartStep == ASSUME Inv, ForStart PROVE Inv'
<1> DEFINE e == Entry("condition", GlobalScope, ForNode(None), <<>>)
<1>1. e.kind = "condition" /\ e.root = GlobalScope
  BY DEF Entry
<1>2. Len(opened) > 0 /\ opened[1].kind = "func"
  BY AtFacts DEF ForStart
<1>3. opened' = Append(opened, e) /\ UNCHANGED variables
  BY DEF ForStart
<1> HIDE DEF e
<1>4. Good2(variables, opened')
  BY <1>1, <1>2, <1>3, PushGood DEF Inv, OpenKind, BodyKind, At1
<1> QED
  BY <1>3, <1>4 DEF Inv

\* What is no type is no declaration either.
LEMMA NoDeclaration ==
    ASSUME ForVariable, ~AtLoopVariable
    PROVE  Fail
<1> DEFINE ty == TypeAt(position + 2)
           d == IF ~Is(position + 1, "(") THEN Fails(position + 1)
                ELSE Then(ty, LAMBDA r : ForDeclaration(r))
<1>1. Fails(position + 1).failed /\ ~Crashed(Fails(position + 1))
  BY DEF Fails, Gives, Crashed
<1>2. ASSUME Is(position + 1, "(") PROVE d.failed /\ ~Crashed(d)
  <2>1. Tok(position + 2).t \notin TypeToken
    BY <1>2 DEF ForVariable, AtLoopVariable
  <2>2. ty.failed /\ ~Crashed(ty)
    BY <2>1 DEF TypeAt, Fails, Gives, Crashed
  <2>3. ForDeclaration(ty) = ty
    BY <2>2 DEF ForDeclaration
  <2>4. d = CHOOSE x \in {IF Crashed(v) THEN v ELSE ForDeclaration(v) : v \in {ty}} : TRUE
    BY <1>2 DEF Then
  <2>5. {IF Crashed(v) THEN v ELSE ForDeclaration(v) : v \in {ty}} = {ty}
    BY <2>2, <2>3
  <2>6. d = ty
    BY <2>4, <2>5
  <2> QED
    BY <2>2, <2>6
<1>3. d.failed /\ ~Crashed(d)
  BY <1>1, <1>2
<1> HIDE DEF d
<1>4. ~Good(d) /\ (Bad(d) => Fail)
  BY <1>3 DEF Good, Bad
<1> QED
  BY <1>4 DEF ForVariable, d

LEMMA ForVariableStep == ASSUME Inv, ForVariable, ~AtLoopVariable PROVE Inv'
BY NoDeclaration, FailGood

LEMMA ForRestGood ==
    ASSUME Inv, opened # <<>>, Top.kind = "condition", NEW c, NEW p, ForRest(c, p)
    PROVE  Inv'
<1> DEFINE node == [Top.node EXCEPT !.kids[2] = c]
           e == Entry("step", GlobalScope, node, <<>>)
<1>1. CASE Open(Below, "for", node, p + 1)
  BY <1>1, OpenBelowGood
<1>2. CASE opened' = SetTop(e) /\ UNCHANGED variables
  <2>1. e.kind = "step" /\ e.root = GlobalScope
    BY DEF Entry
  <2>2. Top.root = GlobalScope /\ Len(opened) > 0
    BY TopFacts
  <2> HIDE DEF e
  <2>3. Good2(variables, opened')
    BY <1>2, <2>1, <2>2, SetLastGood DEF Inv, SetTop, Below, Top, Becomes
  <2> QED
    BY <1>2, <2>3 DEF Inv
<1> QED
  BY <1>1, <1>2 DEF ForRest

LEMMA ForConditionStep == ASSUME Inv, ForCondition PROVE Inv'
<1>1. opened # <<>> /\ Top.kind = "condition"
  BY DEF ForCondition
<1>2. \/ \E c, p : ForRest(c, p)
      \/ \E e : Bad(e)
      \/ Fail
      \/ \E p : /\ Finished(Below, ForNode(None), p)
                /\ variables' = variables \/ variables' = FreeLast(variables)
  BY DEF ForCondition
<1>3. ASSUME NEW p, Finished(Below, ForNode(None), p),
             variables' = variables \/ variables' = FreeLast(variables)
      PROVE  Inv'
  <2>1. Len(opened) > 1 /\ Top.root = GlobalScope
    BY <1>1, TopFacts DEF At1
  <2>2. Good2(variables, Below) /\ Len(Below) > 0
    BY <1>1, <2>1, TopFacts, PopHead, PopConstructs DEF Inv, Good2, Below, Top
  <2>3. Good2(variables', Below)
    BY <1>3, <2>2, FreeLastGood
  <2>4. Good2(variables', opened')
    BY <1>3, <2>2, <2>3, FinishedGood
  <2> QED
    BY <2>4 DEF Inv
<1> QED
  BY <1>1, <1>2, <1>3, ForRestGood, BadGood, FailGood

LEMMA ForBodyStep == ASSUME Inv, ForBody PROVE Inv'
<1>1. opened # <<>> /\ Top.kind = "stepped"
  BY DEF ForBody
<1>2. Open(Below, "for", Top.node, position + 1) \/ Fail
  BY DEF ForBody
<1> QED
  BY <1>1, <1>2, OpenBelowGood, FailGood

LEMMA EndBodyStep == ASSUME Inv, EndBody PROVE Inv'
<1>1. opened # <<>> /\ Top.kind \in BodyKind /\ variables' = ClearScope(variables, Top.root)
  BY DEF EndBody, InBody
<1>2. Len(opened) > 0 /\ Len(opened) \in Nat /\ Top.root \in Address
  BY <1>1, TopFacts
<1>3. Good2(variables', Below)
  BY <1>1, <1>2, PopBody DEF Inv, Top, Below
<1>4. CASE opened' = Below
  BY <1>3, <1>4 DEF Inv
<1>5. CASE Top.kind # "func" /\ Finished(Below, Closed(Top), position + 1)
  <2>1. Len(opened) > 1
    BY <1>1, <1>5, TopFacts DEF BodyKind, At1
  <2>2. Len(Below) > 0
    BY <1>2, <2>1, PopConstructs DEF Inv, Good2, Below
  <2>3. Good2(variables', opened')
    BY <1>3, <1>5, <2>2, FinishedGood
  <2> QED
    BY <2>3 DEF Inv
<1> QED
  BY <1>4, <1>5 DEF EndBody

LEMMA InvStep == ASSUME Inv, [Next]_vars, ~AtLoopVariable PROVE Inv'
<1>1. CASE UNCHANGED vars
  BY <1>1 DEF vars, Inv
<1>2. CASE MissingBrace \/ UnknownStatement
  BY <1>2, FailGood DEF MissingBrace, UnknownStatement
<1>3. CASE Empty \/ StructStatement \/ Finish
  BY <1>3 DEF Empty, StructStatement, Finish, Crash, Inv
<1> QED
  BY <1>1, <1>2, <1>3, FunctionHeadStep, ArgumentStep, ArgumentsEndStep, CallStep, AssignStep,
     DeclareStep, ReturnStep, IfStep, ForStartStep, ForVariableStep, ForConditionStep,
     ForBodyStep, EndBodyStep DEF Next, Step, Stopped

LEMMA InvInit == ASSUME Init PROVE Inv
<1>1. variables = <<>> /\ opened = <<>>
  BY DEF Init
<1>2. DOMAIN variables = {} /\ DOMAIN opened = {} /\ IsSeq(variables) /\ IsSeq(opened)
  BY <1>1, EmptySeq
<1> QED
  BY <1>2 DEF Inv, Good2, Constructs, Table

LEMMA InvTable == ASSUME Inv PROVE TableIsScopes
<1>1. \A v : Owners(v) = OwnersIn(v, opened)
  BY DEF Owners, OwnersIn
<1> QED
  BY <1>1 DEF Inv, Good2, Table, TableIsScopes

\* For every source and every choice of addresses: as long as no for loop
\* declares a variable, every variable in the table belongs to a body that is
\* being parsed, has its position as identifier and lies above the variables of
\* the bodies around its own.
THEOREM TableCorrect == Spec => ScopesUnlessLoopVariable
<1>1. Init => Inv
  BY InvInit
<1>2. Inv /\ ~AtLoopVariable /\ [Next]_vars => Inv'
  BY InvStep
<1>3. Inv => TableIsScopes
  BY InvTable
<1> QED
  BY <1>1, <1>2, <1>3, PTL DEF Spec, ScopesUnlessLoopVariable

(***************************************************************************)
(* The scopes of the abstract specification, of any table and any stack.   *)
(***************************************************************************)
ScopeList(os, vs) == [k \in DOMAIN os |-> Scope(os[k], vs)]

LEMMA ScopesSeq ==
    ASSUME NEW os, NEW vs, IsSeq(os)
    PROVE  IsSeq(ScopesOf(os, vs))
<1>1. Len(os) \in Nat
  BY SeqFacts
<1>2. Selected(ScopeList(os, vs), Scoped(os))[Len(os)] \in Seq(ValuesOf(ScopeList(os, vs), Scoped(os)))
  BY <1>1, SelectedSeq
<1> QED
  BY <1>2 DEF ScopesOf, ScopeList, IsSeq

\* What is bound under a root does not depend on other variables above.
LEMMA BoundPrefix ==
    ASSUME NEW vs, IsSeq(vs), NEW ws, IsSeq(ws), NEW root, Len(vs) <= Len(ws),
           \A i \in DOMAIN vs : ws[i].root = vs[i].root /\ Binding(ws[i]) = Binding(vs[i]),
           \A i \in DOMAIN ws : i > Len(vs) => ws[i].root # root
    PROVE  Bound(root, ws) = Bound(root, vs)
<1> DEFINE n == Len(vs)
           g == [i \in DOMAIN vs |-> Binding(vs[i])]
           h == [i \in DOMAIN ws |-> Binding(ws[i])]
           K == {i \in DOMAIN vs : vs[i].root = root}
           M == {i \in DOMAIN ws : ws[i].root = root}
<1>1. n \in Nat /\ DOMAIN vs = 1 .. n /\ Len(ws) \in Nat /\ DOMAIN ws = 1 .. Len(ws)
  BY SeqFacts
<1>2. Alike(h, M, g, K, n)
  BY <1>1 DEF Alike
<1>3. Selected(h, M)[n] = Selected(g, K)[n]
  <2> HIDE DEF g, h, K, M
  <2> QED
    BY <1>1, <1>2, SelectedSame
<1>4. NoneBetween(M, n, Len(ws))
  BY <1>1 DEF NoneBetween
<1>5. Selected(h, M)[Len(ws)] = Selected(h, M)[n]
  <2> HIDE DEF g, h, K, M
  <2> QED
    BY <1>1, <1>4, SelectedNoMore
<1> QED
  BY <1>3, <1>5 DEF Bound

\* Nothing is bound under a root that no variable has.
LEMMA BoundNone ==
    ASSUME NEW vs, IsSeq(vs), NEW root, \A i \in DOMAIN vs : vs[i].root # root
    PROVE  Bound(root, vs) = <<>>
<1> DEFINE g == [i \in DOMAIN vs |-> Binding(vs[i])]
           K == {i \in DOMAIN vs : vs[i].root = root}
<1>1. Len(vs) \in Nat /\ DOMAIN vs = 1 .. Len(vs) /\ 0 \in Nat /\ 0 <= Len(vs)
  BY SeqFacts
<1>2. NoneBetween(K, 0, Len(vs))
  BY <1>1 DEF NoneBetween
<1>3. Selected(g, K)[Len(vs)] = Selected(g, K)[0] /\ Selected(g, K)[0] = <<>>
  <2> HIDE DEF g, K
  <2> QED
    BY <1>1, <1>2, SelectedNoMore, SelectedZero
<1> QED
  BY <1>3 DEF Bound

LEMMA BoundMore ==
    ASSUME NEW vs, IsSeq(vs), NEW v
    PROVE  Bound(v.root, Append(vs, v)) = Append(Bound(v.root, vs), Binding(v))
<1> DEFINE n == Len(vs)
           ws == Append(vs, v)
           g == [i \in DOMAIN vs |-> Binding(vs[i])]
           h == [i \in DOMAIN ws |-> Binding(ws[i])]
           K == {i \in DOMAIN vs : vs[i].root = v.root}
           M == {i \in DOMAIN ws : ws[i].root = v.root}
<1>1. /\ n \in Nat /\ DOMAIN vs = 1 .. n /\ Len(ws) = n + 1 /\ DOMAIN ws = 1 .. n + 1
      /\ \A i \in DOMAIN vs : ws[i] = vs[i]
      /\ ws[n + 1] = v
  BY SeqFacts, AppendSeq
<1> HIDE DEF ws
<1>2. Alike(h, M, g, K, n)
  BY <1>1 DEF Alike
<1>3. Selected(h, M)[n] = Selected(g, K)[n]
  <2> HIDE DEF g, h, K, M
  <2> QED
    BY <1>1, <1>2, SelectedSame
<1>4. n + 1 \in M /\ h[n + 1] = Binding(v)
  BY <1>1
<1>5. Selected(h, M)[n + 1] = Append(Selected(h, M)[n], h[n + 1])
  <2> HIDE DEF g, h, K, M
  <2> QED
    BY <1>1, <1>4, SelectedNext
<1>6. Bound(v.root, ws) = Selected(h, M)[n + 1] /\ Bound(v.root, vs) = Selected(g, K)[n]
  BY <1>1 DEF Bound
<1> QED
  BY <1>3, <1>4, <1>5, <1>6 DEF ws

(***************************************************************************)
(* What the changes of the stack and of the table are for the scopes.      *)
(***************************************************************************)
\* The scopes up to a position are those of the constructs up to there.
ScopesAlike(os, vs, st, ws, n) ==
    \A k \in 1 .. n : /\ os[k].root # GlobalScope <=> st[k].root # GlobalScope
                      /\ os[k].root # GlobalScope => Scope(os[k], vs) = Scope(st[k], ws)

LEMMA ScopesAgree ==
    ASSUME NEW os, NEW vs, NEW st, NEW ws, NEW n \in Nat,
           IsSeq(os), IsSeq(st), n <= Len(os), n <= Len(st), ScopesAlike(os, vs, st, ws, n)
    PROVE  Selected(ScopeList(os, vs), Scoped(os))[n] = Selected(ScopeList(st, ws), Scoped(st))[n]
<1>1. DOMAIN os = 1 .. Len(os) /\ DOMAIN st = 1 .. Len(st) /\ Len(os) \in Nat /\ Len(st) \in Nat
  BY SeqFacts
<1>2. \A k \in 1 .. n : k \in DOMAIN os /\ k \in DOMAIN st
  BY <1>1
<1>3. Alike(ScopeList(os, vs), Scoped(os), ScopeList(st, ws), Scoped(st), n)
  BY <1>2 DEF Scoped, ScopeList, ScopesAlike, Alike
<1> QED
  BY <1>3, SelectedSame

LEMMA ScopesLike ==
    ASSUME NEW os, NEW vs, NEW st, NEW ws, IsSeq(os), IsSeq(st), Len(os) = Len(st),
           ScopesAlike(os, vs, st, ws, Len(os))
    PROVE  ScopesOf(os, vs) = ScopesOf(st, ws)
<1>1. Len(os) \in Nat /\ Len(os) <= Len(os) /\ Len(os) <= Len(st)
  BY SeqFacts
<1>2. Selected(ScopeList(os, vs), Scoped(os))[Len(os)] = Selected(ScopeList(st, ws), Scoped(st))[Len(os)]
  BY <1>1, ScopesAgree
<1> QED
  BY <1>2 DEF ScopesOf, ScopeList

\* A construct on top: a scope, or none.
LEMMA ScopesPushed ==
    ASSUME NEW os, NEW vs, NEW e, IsSeq(os)
    PROVE  ScopesOf(Append(os, e), vs) = IF e.root # GlobalScope
                                         THEN Append(ScopesOf(os, vs), Scope(e, vs))
                                         ELSE ScopesOf(os, vs)
<1> DEFINE st == Append(os, e)
           n == Len(os)
           K == Scoped(st)
           L == ScopeList(st, vs)
<1>1. /\ IsSeq(st) /\ Len(st) = n + 1 /\ DOMAIN st = 1 .. n + 1 /\ st[n + 1] = e
      /\ \A k \in 1 .. n : st[k] = os[k]
      /\ n \in Nat /\ n <= Len(st) /\ n <= Len(os) /\ DOMAIN os = 1 .. n
  BY SeqFacts, AppendSeq
<1> HIDE DEF st
<1>2. Selected(ScopeList(os, vs), Scoped(os))[n] = Selected(L, K)[n]
  <2>1. ScopesAlike(os, vs, st, vs, n)
    BY <1>1 DEF ScopesAlike
  <2> QED
    BY <1>1, <2>1, ScopesAgree
<1>3. L[n + 1] = Scope(e, vs) /\ (n + 1 \in K <=> e.root # GlobalScope)
  BY <1>1 DEF Scoped, ScopeList
<1>4. Selected(L, K)[n + 1] = IF n + 1 \in K THEN Append(Selected(L, K)[n], L[n + 1])
                              ELSE Selected(L, K)[n]
  <2> HIDE DEF L, K
  <2> QED
    BY <1>1, SelectedNext
<1>5. ScopesOf(st, vs) = Selected(L, K)[n + 1]
  BY <1>1 DEF ScopesOf, ScopeList
<1>6. ScopesOf(os, vs) = Selected(ScopeList(os, vs), Scoped(os))[n]
  BY DEF ScopesOf, ScopeList
<1> HIDE DEF L, K
<1> QED
  BY <1>2, <1>3, <1>4, <1>5, <1>6 DEF st

(***************************************************************************)
(* The steps of the abstract specification.                                *)
(***************************************************************************)
Now == IF NoLoopVariable THEN Scopes ELSE <<>>

\* A body begins, at a root that no variable has.
LEMMA OpensScope ==
    ASSUME NEW vs, NEW os, Good2(vs, os), NEW e, e.root # GlobalScope,
           \A i \in DOMAIN os : os[i].root # e.root
    PROVE  \E sees \in BOOLEAN :
              ScopesOf(Append(os, e), vs) = Append(ScopesOf(os, vs), Lexical!Opened(sees))
<1>1. \A i \in DOMAIN vs : vs[i].root # e.root
  BY DEF Good2, Table, OwnersIn
<1>2. Bound(e.root, vs) = <<>>
  BY <1>1, BoundNone DEF Good2, Table
<1>3. Scope(e, vs) = Lexical!Opened(e.kind \notin {"func", "arguments"})
  BY <1>2 DEF Scope, Lexical!Opened
<1>4. ScopesOf(Append(os, e), vs) = Append(ScopesOf(os, vs), Scope(e, vs))
  BY ScopesPushed DEF Good2, Constructs
<1> QED
  BY <1>3, <1>4

\* A body ends: what is bound in the others stays.
LEMMA ClosesScope ==
    ASSUME NEW vs, NEW os, Good2(vs, os), Len(os) > 0, os[Len(os)].root \in Address
    PROVE  LET left == ScopesOf(SubSeq(os, 1, Len(os) - 1), ClearScope(vs, os[Len(os)].root))
           IN  /\ ScopesOf(os, vs) # <<>>
               /\ left = SubSeq(ScopesOf(os, vs), 1, Len(ScopesOf(os, vs)) - 1)
<1> DEFINE n == Len(os)
           root == os[n].root
           rest == SubSeq(os, 1, n - 1)
           less == ClearScope(vs, root)
<1>1. /\ IsSeq(os) /\ n \in Nat /\ IsSeq(rest) /\ Len(rest) = n - 1 /\ DOMAIN rest = 1 .. n - 1
      /\ DOMAIN os = 1 .. n
      /\ \A i \in 1 .. n - 1 : rest[i] = os[i] /\ (os[i].root = root => root = GlobalScope)
      /\ os = Append(rest, os[n])
  BY PopConstructs, TopOnRest DEF Good2, Constructs
<1>2. root # GlobalScope
  BY AddressAssumption
<1>3. IsSeq(vs) /\ Len(vs) \in Nat /\ DOMAIN vs = 1 .. Len(vs)
  BY SeqFacts DEF Good2, Table
<1>4. PICK m \in 1 .. Len(vs) + 1 : OfRoot(vs, root) = m .. Len(vs)
  BY OwnSuffix
<1>5. /\ IsSeq(less) /\ Len(less) = m - 1 /\ DOMAIN less = 1 .. m - 1
      /\ \A i \in DOMAIN less : less[i] = vs[i]
  <2>0. m \in Int /\ Len(vs) \in Int
    BY <1>3
  <2>1. Cardinality(m .. Len(vs)) = IF m > Len(vs) THEN 0 ELSE Len(vs) - m + 1
    BY <2>0, FS_Interval
  <2>2. less = SubSeq(vs, 1, m - 1) /\ m - 1 \in 0 .. Len(vs)
    <3>1. Len(vs) - Cardinality(OfRoot(vs, root)) = m - 1
      BY <1>3, <1>4, <2>1
    <3> QED
      BY <1>3, <3>1 DEF ClearScope
  <2> QED
    BY <1>3, <2>2, PrefixSeq
<1> HIDE DEF rest, less
<1>6. ASSUME NEW k \in 1 .. n - 1, os[k].root # GlobalScope
      PROVE  Scope(rest[k], less) = Scope(os[k], vs)
  <2>1. rest[k] = os[k] /\ os[k].root # root
    BY <1>1, <1>2
  <2>2. \A i \in DOMAIN vs : i > Len(less) => vs[i].root = root
    <3> SUFFICES ASSUME NEW i \in DOMAIN vs, i > Len(less) PROVE vs[i].root = root
      OBVIOUS
    <3>1. i \in OfRoot(vs, root)
      BY <1>3, <1>4, <1>5
    <3> QED
      BY <3>1 DEF OfRoot
  <2>3. Len(less) <= Len(vs) /\ \A i \in DOMAIN less : /\ vs[i].root = less[i].root
                                                       /\ Binding(vs[i]) = Binding(less[i])
    BY <1>3, <1>5
  <2>4. \A i \in DOMAIN vs : i > Len(less) => vs[i].root # os[k].root
    BY <2>1, <2>2
  <2>5. Bound(os[k].root, vs) = Bound(os[k].root, less)
    BY <1>3, <1>5, <2>3, <2>4, BoundPrefix
  <2> QED
    BY <2>1, <2>5 DEF Scope
<1>7. ScopesOf(rest, less) = ScopesOf(rest, vs)
  <2>1. ScopesAlike(rest, less, rest, vs, Len(rest))
    BY <1>1, <1>6 DEF ScopesAlike
  <2> QED
    BY <1>1, <2>1, ScopesLike
<1>8. ScopesOf(os, vs) = Append(ScopesOf(rest, vs), Scope(os[n], vs))
  <2>1. ScopesOf(Append(rest, os[n]), vs) = Append(ScopesOf(rest, vs), Scope(os[n], vs))
    BY <1>1, <1>2, ScopesPushed
  <2> QED
    BY <1>1, <2>1
<1>9. IsSeq(ScopesOf(rest, vs))
  BY <1>1, ScopesSeq
<1> QED
  BY <1>7, <1>8, <1>9, PrefixOfAppend DEF rest, less

\* A variable of the innermost body is declared.
LEMMA DeclaresInScope ==
    ASSUME NEW vs, NEW os, NEW v, NEW k, Good2(vs, os),
           k \in OwnersIn(v, os), \A i \in DOMAIN os : os[i].root # GlobalScope => i <= k
    PROVE  /\ ScopesOf(os, vs) # <<>>
           /\ ScopesOf(os, Append(vs, v)) =
                [ScopesOf(os, vs) EXCEPT ![Len(ScopesOf(os, vs))].vars = Append(@, Binding(v))]
<1> DEFINE ws == Append(vs, v)
           n == Len(os)
           rest == SubSeq(os, 1, k - 1)
           low == SubSeq(os, 1, k)
           Up(us) == Selected(ScopeList(os, us), Scoped(os))
<1>1. /\ IsSeq(vs) /\ Len(vs) \in Nat /\ DOMAIN vs = 1 .. Len(vs)
      /\ IsSeq(ws) /\ Len(ws) = Len(vs) + 1 /\ DOMAIN ws = 1 .. Len(vs) + 1
      /\ \A i \in DOMAIN vs : ws[i] = vs[i]
      /\ ws[Len(vs) + 1] = v
  BY SeqFacts, AppendSeq DEF Good2, Table
<1>2. /\ IsSeq(os) /\ n \in Nat /\ DOMAIN os = 1 .. n /\ k \in 1 .. n
      /\ os[k].root = v.root /\ v.root # GlobalScope
      /\ \A i \in 1 .. n : os[i].root = v.root => i = k
  BY SeqFacts DEF Good2, Constructs, OwnersIn
<1> HIDE DEF ws
<1>3. ASSUME NEW i \in 1 .. k - 1 PROVE Scope(os[i], ws) = Scope(os[i], vs)
  <2>1. v.root # os[i].root
    BY <1>2
  <2>2. \A j \in DOMAIN ws : j > Len(vs) => ws[j].root # os[i].root
    BY <1>1, <2>1
  <2>3. Len(vs) <= Len(ws) /\ \A j \in DOMAIN vs : /\ ws[j].root = vs[j].root
                                                   /\ Binding(ws[j]) = Binding(vs[j])
    BY <1>1
  <2>4. Bound(os[i].root, ws) = Bound(os[i].root, vs)
    BY <1>1, <2>2, <2>3, BoundPrefix
  <2> QED
    BY <2>4 DEF Scope
<1>4. Up(ws)[k - 1] = Up(vs)[k - 1]
  <2>1. ScopesAlike(os, ws, os, vs, k - 1)
    BY <1>3 DEF ScopesAlike
  <2>2. k - 1 \in Nat /\ k - 1 <= Len(os)
    BY <1>2
  <2> QED
    BY <1>2, <2>1, <2>2, ScopesAgree
<1>5. ASSUME NEW us PROVE /\ ScopesOf(os, us) = Append(Up(us)[k - 1], Scope(os[k], us))
                          /\ IsSeq(Up(us)[k - 1])
  <2> DEFINE L == ScopeList(os, us)
             K == Scoped(os)
  <2>1. k \in K /\ L[k] = Scope(os[k], us) /\ NoneBetween(K, k, n)
    BY <1>2 DEF Scoped, ScopeList, NoneBetween
  <2>2. k - 1 \in Nat /\ k \in Nat /\ (k - 1) + 1 = k /\ k <= n
    BY <1>2
  <2>3. ScopesOf(os, us) = Selected(L, K)[n]
    BY DEF ScopesOf, ScopeList
  <2> HIDE DEF L, K
  <2>4. Selected(L, K)[n] = Selected(L, K)[k]
    BY <1>2, <2>1, <2>2, SelectedNoMore
  <2>5. Selected(L, K)[k] = Append(Selected(L, K)[k - 1], L[k])
    <3>1. PICK j \in Nat : j = k - 1
      BY <2>2
    <3>2. Selected(L, K)[j + 1] = IF j + 1 \in K THEN Append(Selected(L, K)[j], L[j + 1])
                                  ELSE Selected(L, K)[j]
      BY SelectedNext
    <3>3. k = j + 1
      BY <2>2, <3>1
    <3> QED
      BY <2>1, <3>1, <3>2, <3>3
  <2>6. Selected(L, K)[k - 1] \in Seq(ValuesOf(L, K))
    BY <2>2, SelectedSeq
  <2> QED
    BY <2>1, <2>3, <2>4, <2>5, <2>6 DEF IsSeq, L, K
<1>6. PICK s : s = Up(vs)[k - 1] /\ IsSeq(s)
  BY <1>5
<1>7. /\ ScopesOf(os, vs) = Append(s, Scope(os[k], vs))
      /\ ScopesOf(os, ws) = Append(s, Scope(os[k], ws))
  BY <1>4, <1>5, <1>6
<1>8. Scope(os[k], ws) = [Scope(os[k], vs) EXCEPT !.vars = Append(@, Binding(v))]
  <2>1. Bound(v.root, ws) = Append(Bound(v.root, vs), Binding(v))
    BY <1>1, BoundMore DEF ws
  <2>2. Bound(os[k].root, ws) = Append(Bound(os[k].root, vs), Binding(v))
    BY <1>2, <2>1
  <2>3. ASSUME NEW x, NEW y, NEW c
        PROVE  [sees |-> x, vars |-> Append(y, c)]
                 = [[sees |-> x, vars |-> y] EXCEPT !.vars = Append(@, c)]
    OBVIOUS
  <2> QED
    BY <2>2, <2>3 DEF Scope
<1>9. ASSUME NEW a, NEW b, b = [a EXCEPT !.vars = Append(@, Binding(v))]
      PROVE  /\ Append(s, a) # <<>>
             /\ Append(s, b) =
                  [Append(s, a) EXCEPT ![Len(Append(s, a))].vars = Append(@, Binding(v))]
  <2>1. PICK T : s \in Seq(T)
    BY <1>6 DEF IsSeq
  <2>2. s \in Seq(T \cup {a, b})
    BY <2>1
  <2>3. /\ Len(Append(s, a)) = Len(s) + 1 /\ Append(s, a)[Len(s) + 1] = a
        /\ Append(s, a) \in Seq(T \cup {a, b}) /\ Append(s, b) \in Seq(T \cup {a, b})
    BY <2>2
  <2>4. Append(s, b) = [Append(s, a) EXCEPT ![Len(s) + 1] = b]
    <3> DEFINE p == Append(s, a)
               q == Append(s, b)
               f == [p EXCEPT ![Len(s) + 1] = b]
               S == T \cup {a, b}
    <3>1. /\ p \in Seq(S) /\ Len(s) + 1 \in 1 .. Len(p) /\ b \in S
          /\ q \in Seq(S) /\ Len(q) = Len(p) /\ Len(p) = Len(s) + 1
          /\ \A i \in 1 .. Len(q) : q[i] = IF i = Len(s) + 1 THEN b ELSE p[i]
      BY <2>2
    <3> HIDE DEF p, q, S
    <3>2. f \in Seq(S) /\ Len(f) = Len(p) /\ \A i \in 1 .. Len(p) : f[i] = IF i = Len(s) + 1 THEN b ELSE p[i]
      BY <3>1, ChangedSequence
    <3>3. \A i \in 1 .. Len(q) : q[i] = f[i]
      BY <3>1, <3>2
    <3> HIDE DEF f
    <3>4. q = f
      BY <3>1, <3>2, <3>3, SameSequence
    <3> QED
      BY <3>4 DEF p, q, f
  <2>5. Append(s, a) # <<>>
    BY <2>3
  <2> QED
    BY <1>9, <2>3, <2>4, <2>5
<1> QED
  BY <1>7, <1>8, <1>9 DEF ws

(***************************************************************************)
(* What an action of the parser does to the scopes.                        *)
(***************************************************************************)
Moves(s, t) ==
    \/ t = s
    \/ \E sees \in BOOLEAN : t = Append(s, Lexical!Opened(sees))
    \/ /\ s # <<>>
       /\ \E id \in Words, val \in Identifiers :
            t = [s EXCEPT ![Len(s)].vars = Append(@, [id |-> id, val |-> val])]
    \/ s # <<>> /\ t = SubSeq(s, 1, Len(s) - 1)

\* No head of a for loop has a variable.
Heads(os) == \A k \in DOMAIN os : os[k].kind = "condition" => os[k].node.kids[1] = None

Ready ==
    /\ Inv
    /\ Heads(opened)
    /\ tokens \in Source /\ tokens \in Seq(Token)
    /\ opened # <<>> => tokens # <<>>

\* The construct on top comes further.
LEMMA SetLastScopes ==
    ASSUME NEW vs, NEW os, NEW e, Constructs(os), Len(os) > 0,
           e.root = os[Len(os)].root, Becomes(os[Len(os)].kind, e.kind)
    PROVE  ScopesOf(Append(SubSeq(os, 1, Len(os) - 1), e), vs) = ScopesOf(os, vs)
<1> DEFINE rest == SubSeq(os, 1, Len(os) - 1)
           top == os[Len(os)]
<1>1. IsSeq(os) /\ IsSeq(rest) /\ os = Append(rest, top)
  BY TopOnRest DEF Constructs
<1>2. Len(os) \in DOMAIN os
  BY SeqFacts DEF Constructs
<1>3. top.root # GlobalScope => top.kind \in BodyKind \cup {"arguments"}
  BY <1>2 DEF Constructs
<1> HIDE DEF rest, top
<1>4. top.root # GlobalScope => Scope(e, vs) = Scope(top, vs)
  BY <1>3 DEF Scope, Becomes, BodyKind, top
<1>5. ScopesOf(Append(rest, e), vs) = IF e.root # GlobalScope
                                      THEN Append(ScopesOf(rest, vs), Scope(e, vs))
                                      ELSE ScopesOf(rest, vs)
  BY <1>1, ScopesPushed
<1>6. ScopesOf(Append(rest, top), vs) = IF top.root # GlobalScope
                                        THEN Append(ScopesOf(rest, vs), Scope(top, vs))
                                        ELSE ScopesOf(rest, vs)
  BY <1>1, ScopesPushed
<1>7. e.root = top.root
  BY DEF top
<1>8. ScopesOf(Append(rest, e), vs) = ScopesOf(Append(rest, top), vs)
  BY <1>4, <1>5, <1>6, <1>7
<1> QED
  BY <1>1, <1>8 DEF rest

LEMMA SetLastHeads ==
    ASSUME NEW os, NEW e, Constructs(os), Len(os) > 0, Heads(os),
           e.kind = "condition" => e.node = os[Len(os)].node /\ os[Len(os)].kind = "condition"
    PROVE  Heads(Append(SubSeq(os, 1, Len(os) - 1), e))
<1> DEFINE rest == SubSeq(os, 1, Len(os) - 1)
           st == Append(rest, e)
<1>1. /\ IsSeq(rest) /\ Len(rest) = Len(os) - 1 /\ Len(os) \in Nat /\ DOMAIN os = 1 .. Len(os)
      /\ DOMAIN rest = 1 .. Len(os) - 1
      /\ \A i \in DOMAIN rest : rest[i] = os[i]
  BY PopConstructs DEF Constructs
<1> HIDE DEF rest
<1>2. /\ DOMAIN st = 1 .. Len(os) /\ st[Len(os)] = e
      /\ \A i \in DOMAIN rest : st[i] = rest[i]
  BY <1>1, AppendSeq
<1> HIDE DEF st
<1>3. Heads(st)
  BY <1>1, <1>2 DEF Heads
<1> QED
  BY <1>3 DEF st, rest

LEMMA PopHeads ==
    ASSUME NEW os, Constructs(os), Len(os) > 0, Heads(os)
    PROVE  Heads(SubSeq(os, 1, Len(os) - 1))
BY PopConstructs DEF Heads

LEMMA PushHeads ==
    ASSUME NEW os, IsSeq(os), Heads(os), NEW e, e.kind = "condition" => e.node.kids[1] = None
    PROVE  Heads(Append(os, e))
<1>1. /\ DOMAIN os = 1 .. Len(os) /\ DOMAIN Append(os, e) = 1 .. Len(os) + 1 /\ Len(os) \in Nat
      /\ \A i \in DOMAIN os : Append(os, e)[i] = os[i]
      /\ Append(os, e)[Len(os) + 1] = e
  BY SeqFacts, AppendSeq
<1> QED
  BY <1>1 DEF Heads

LEMMA FinishedScopes ==
    ASSUME NEW vs, NEW st, Constructs(st), Len(st) > 0, Heads(st), NEW n, NEW p, Finished(st, n, p)
    PROVE  ScopesOf(opened', vs) = ScopesOf(st, vs) /\ Heads(opened')
<1> DEFINE e == st[Len(st)]
           rest == SubSeq(st, 1, Len(st) - 1)
           further == Entry("stepped", e.root, [e.node EXCEPT !.kids[3] = n], e.stats)
           longer == Entry(e.kind, e.root, e.node, Append(e.stats, n))
<1>1. \/ e.kind = "step" /\ opened' = Append(rest, further)
      \/ opened' = Append(rest, longer)
      \/ opened' = st
  BY DEF Finished
<1>2. /\ further.root = e.root /\ further.kind = "stepped"
      /\ longer.root = e.root /\ longer.kind = e.kind /\ longer.node = e.node
  BY DEF Entry
<1> HIDE DEF further, longer
<1>3. CASE e.kind = "step" /\ opened' = Append(rest, further)
  BY <1>2, <1>3, SetLastScopes, SetLastHeads DEF Becomes
<1>4. CASE opened' = Append(rest, longer)
  BY <1>2, <1>4, SetLastScopes, SetLastHeads DEF Becomes
<1> QED
  BY <1>1, <1>3, <1>4

(***************************************************************************)
(* Tokens.                                                                 *)
(***************************************************************************)
LEMMA TokFacts ==
    ASSUME tokens \in Source, tokens \in Seq(Token), tokens # <<>>, NEW p \in Nat \ {0}
    PROVE  Tok(p).s \in Words
<1> DEFINE q == IF Ended(p) THEN Len(tokens) ELSE p
<1>1. q \in DOMAIN tokens /\ Tok(p) = tokens[q]
  BY DEF Ended, Tok
<1> QED
  BY <1>1 DEF Words

LEMMA NoLoopVariableHere ==
    ASSUME Ready, NoLoopVariable, position \in Nat \ {0}
    PROVE  ~AtLoopVariable
<1> SUFFICES ASSUME AtLoopVariable PROVE FALSE
  OBVIOUS
<1> DEFINE n == Len(tokens)
<1>1. n \in Nat /\ n # 0 /\ DOMAIN tokens = 1 .. n
  <2>1. tokens # <<>> /\ tokens \in Seq(Token)
    BY DEF Ready, AtLoopVariable, At
  <2> QED
    BY <2>1
<1>2. /\ StatementAt(position) = "for"
      /\ Is(position + 1, "(") /\ Tok(position + 2).t \in TypeToken
  BY DEF AtLoopVariable, At
<1>3. Tok(position).t = "for"
  BY <1>2 DEF StatementAt
<1>4. Tok(position + 1).t = "(" /\ Tok(position + 2).t \notin {"for", "("}
  BY <1>2 DEF Is, TypeToken
<1>5. CASE position + 2 > n
  BY <1>1, <1>3, <1>4, <1>5 DEF Tok, Ended
<1>6. CASE position + 2 <= n
  <2>1. position \in DOMAIN tokens /\ position + 2 \in DOMAIN tokens
    BY <1>1, <1>6
  <2>2. /\ tokens[position].t = "for" /\ tokens[position + 1].t = "("
        /\ tokens[position + 2].t \in TypeToken
    BY <1>1, <1>2, <1>3, <1>4, <1>6 DEF Tok, Ended
  <2> QED
    BY <2>1, <2>2 DEF NoLoopVariable
<1> QED
  BY <1>1, <1>5, <1>6

\* After a type comes a position that is there.
LEMMA TypeEnds ==
    ASSUME tokens \in Seq(Token), NEW p \in Nat \ {0}, Good(TypeAt(p))
    PROVE  TypeAt(p).next \in Nat \ {0}
<1> DEFINE S == {q \in (p + 1)..(p + Len(tokens)) : ~Is(q, "*")}
<1>1. S \in SUBSET Nat /\ \A q \in S : q # 0
  OBVIOUS
<1> HIDE DEF S
<1>2. Tok(p).t \in TypeToken /\ FirstOr0(S) # 0 /\ TypeAt(p).next = FirstOr0(S)
  BY DEF TypeAt, S, Good, Fails, Gives, Faults, Crashed
<1>3. S # {} /\ FirstOr0(S) = First(S)
  BY <1>2 DEF FirstOr0
<1>4. First(S) \in S
  <2>1. \E i \in S : \A j \in S : i <= j
    BY <1>1, <1>3, LeastNumber
  <2> QED
    BY <2>1 DEF First
<1> QED
  BY <1>1, <1>2, <1>3, <1>4

\* What Then gives.
LEMMA DeclarationNames ==
    ASSUME NEW type, NEW p, Good(Declaration(type, p))
    PROVE  Declaration(type, p).node.op = Tok(p).s
<1> DEFINE v == Expression(p + 2)
           Go(r) == IF r.failed \/ IsBase(r.node.type, "void") \/ ~TypeEquals(type, r.node.type)
                    THEN Fails(r.next)
                    ELSE Gives(NewNode("decl", Tok(p).s, NextId(variables), 0, type, <<>>, <<r.node>>),
                               r.next, FALSE)
           d == CHOOSE x \in {IF Crashed(r) THEN r ELSE Go(r) : r \in {v}} : TRUE
<1>1. Fails(p).failed
  BY DEF Fails, Gives
<1>2. Declaration(type, p) = IF IsBase(type, "void") \/ ~Is(p, "word") \/ ~Is(p + 1, "=") THEN Fails(p) ELSE d
  BY DEF Declaration, Then
<1>3. Declaration(type, p) = d
  BY <1>1, <1>2 DEF Good
<1> HIDE DEF Go, v
<1>4. d = IF Crashed(v) THEN v ELSE Go(v)
  <2>1. {IF Crashed(r) THEN r ELSE Go(r) : r \in {v}} = {IF Crashed(v) THEN v ELSE Go(v)}
    OBVIOUS
  <2> QED
    BY <2>1
<1>5. d = Go(v)
  BY <1>3, <1>4 DEF Good
<1>6. ~Go(v).failed
  BY <1>3, <1>5 DEF Good
<1>7. Go(v).node.op = Tok(p).s
  BY <1>6 DEF Go, Fails, Gives, NewNode
<1> QED
  BY <1>3, <1>5, <1>7

(***************************************************************************)
(* The actions.                                                            *)
(***************************************************************************)
Parses == Ready /\ NoLoopVariable /\ position \in Nat \ {0} /\ Len(variables') <= MaxVariables + 1

Done == Moves(Scopes, Scopes') /\ Heads(opened')

LEMMA StandsStill ==
    ASSUME Ready, UNCHANGED <<variables, opened>>
    PROVE  Done
BY DEF Done, Moves, Scopes, Ready

LEMMA FailDone ==
    ASSUME Ready, Fail
    PROVE  Done
BY StandsStill DEF Fail

LEMMA BadDone ==
    ASSUME Ready, NEW r, Bad(r)
    PROVE  Done
BY StandsStill DEF Bad, Crash, Fail

LEMMA ReadyFacts ==
    ASSUME Ready
    PROVE  /\ Good2(variables, opened) /\ Constructs(opened) /\ IsSeq(opened) /\ Heads(opened)
           /\ IsSeq(variables) /\ Len(variables) \in Nat
BY SeqFacts DEF Ready, Inv, Good2, Constructs, Table

LEMMA StatementDone ==
    ASSUME Ready, NEW kind, At(kind), NEW r, Statement(r)
    PROVE  Done
<1>1. CASE Good(r)
  <2>1. Finished(opened, r.node, r.next) /\ UNCHANGED variables
    BY <1>1 DEF Statement
  <2>2. Len(opened) > 0
    BY AtFacts DEF Ready
  <2>3. ScopesOf(opened', variables) = ScopesOf(opened, variables) /\ Heads(opened')
    BY <2>1, <2>2, ReadyFacts, FinishedScopes
  <2> QED
    BY <2>1, <2>3 DEF Done, Moves, Scopes
<1>2. CASE ~Good(r)
  BY <1>2, BadDone DEF Statement
<1> QED
  BY <1>1, <1>2

\* A body begins on the constructs st, whose scopes are those of the stack.
LEMMA OpenDone ==
    ASSUME NEW st, Good2(variables, st), Heads(st),
           ScopesOf(st, variables) = Scopes,
           \A i \in DOMAIN st : \E j \in DOMAIN opened : st[i].root = opened[j].root,
           NEW kind \in {"if", "for", "return"}, NEW node, NEW p, Open(st, kind, node, p)
    PROVE  Done
<1>1. PICK a \in NewAddress : opened' = Append(st, Entry(kind, a, node, <<>>))
  BY DEF Open
<1>2. variables' = variables
  BY DEF Open
<1> DEFINE e == Entry(kind, a, node, <<>>)
<1>3. e.kind = kind /\ e.root = a
  BY DEF Entry
<1>4. e.root # GlobalScope /\ \A i \in DOMAIN st : st[i].root # e.root
  BY <1>3, NewAddressFresh, AddressAssumption
<1> HIDE DEF e
<1>5. PICK sees \in BOOLEAN :
        ScopesOf(Append(st, e), variables) = Append(ScopesOf(st, variables), Lexical!Opened(sees))
  BY <1>4, OpensScope
<1>6. Heads(Append(st, e))
  BY <1>3, PushHeads DEF Good2, Constructs
<1>7. Scopes' = Append(Scopes, Lexical!Opened(sees))
  BY <1>1, <1>2, <1>5 DEF Scopes, e
<1> QED
  BY <1>1, <1>6, <1>7 DEF Done, Moves, e

LEMMA OpenTopDone ==
    ASSUME Ready, NEW kind \in {"if", "for", "return"}, NEW node, NEW p, Open(opened, kind, node, p)
    PROVE  Done
BY OpenDone, ReadyFacts DEF Scopes

\* The head of a for loop makes place for its body.
LEMMA BelowFacts ==
    ASSUME Ready, opened # <<>>, Top.root = GlobalScope
    PROVE  /\ Good2(variables, Below) /\ Heads(Below) /\ ScopesOf(Below, variables) = Scopes
           /\ \A i \in DOMAIN Below : \E j \in DOMAIN opened : Below[i].root = opened[j].root
<1>1. Len(opened) > 0
  BY TopFacts DEF Ready
<1>2. Good2(variables, Below)
  BY <1>1, PopHead DEF Ready, Inv, Below, Top
<1>3. Heads(Below)
  BY <1>1, ReadyFacts, PopHeads DEF Below
<1>4. \A i \in DOMAIN Below : \E j \in DOMAIN opened : Below[i].root = opened[j].root
  BY <1>1, ReadyFacts, PopConstructs DEF Below
<1>5. IsSeq(Below) /\ opened = Append(Below, Top)
  BY <1>1, ReadyFacts, TopOnRest DEF Below, Top
<1>6. ScopesOf(Append(Below, Top), variables) = ScopesOf(Below, variables)
  BY <1>5, ScopesPushed
<1> QED
  BY <1>2, <1>3, <1>4, <1>5, <1>6 DEF Scopes

LEMMA OpenBelowDone ==
    ASSUME Ready, opened # <<>>, Top.kind \in {"condition", "stepped"},
           NEW node, NEW p, Open(Below, "for", node, p)
    PROVE  Done
<1>1. Top.root = GlobalScope
  BY TopFacts DEF Ready
<1> QED
  BY <1>1, BelowFacts, OpenDone

LEMMA FunctionHeadDone == ASSUME Ready, FunctionHead PROVE Done
<1> DEFINE ty == TypeAt(position)
           p == ty.next
           Built(a) == Entry("arguments", a, Leaf("func", Tok(p).s, Len(functions), 0, ty.node.type), <<>>)
<1>1. CASE Fail \/ Bad(ty) \/ Crash("returns nothing")
  BY <1>1, FailDone, BadDone, StandsStill DEF Crash
<1>2. CASE (\E a \in NewAddress : opened' = <<Built(a)>>) /\ UNCHANGED variables
  <2>1. PICK a \in NewAddress : opened' = <<Built(a)>>
    BY <1>2
  <2> DEFINE e == Built(a)
  <2>2. e.kind = "arguments" /\ e.root = a /\ a \in Address
    BY NewAddressFresh DEF Entry
  <2> HIDE DEF Built
  <2>3. opened = <<>> /\ DOMAIN opened = {} /\ <<e>> = Append(opened, e)
    <3>1. opened = <<>>
      BY DEF FunctionHead
    <3> HIDE DEF e
    <3>2. <<e>> \in Seq({e}) /\ Append(<<>>, e) \in Seq({e})
      OBVIOUS
    <3>3. Len(<<e>>) = Len(Append(<<>>, e)) /\ \A i \in 1 .. Len(<<e>>) : <<e>>[i] = Append(<<>>, e)[i]
      OBVIOUS
    <3>4. <<e>> = Append(<<>>, e)
      BY <3>2, <3>3, SameSequence
    <3> QED
      BY <3>1, <3>4, EmptySeq
  <2>4. opened' = Append(opened, e) /\ variables' = variables
    BY <1>2, <2>1, <2>3
  <2>5. e.root # GlobalScope /\ \A i \in DOMAIN opened : opened[i].root # e.root
    BY <2>2, <2>3, AddressAssumption
  <2> HIDE DEF e
  <2>6. PICK sees \in BOOLEAN :
          ScopesOf(Append(opened, e), variables) = Append(Scopes, Lexical!Opened(sees))
    BY <2>5, ReadyFacts, OpensScope DEF Scopes
  <2>7. Heads(Append(opened, e))
    BY <2>2, ReadyFacts, PushHeads
  <2>8. Scopes' = Append(Scopes, Lexical!Opened(sees))
    BY <2>4, <2>6 DEF Scopes
  <2> QED
    BY <2>4, <2>7, <2>8 DEF Done, Moves
<1> QED
  BY <1>1, <1>2 DEF FunctionHead

\* A declaration, in the innermost scope.
LEMMA DeclaresDone ==
    ASSUME Parses, NEW v, NEW k, NEW st,
           v.id = Len(variables), v.name \in Words,
           k \in OwnersIn(v, opened), \A i \in DOMAIN opened : opened[i].root # GlobalScope => i <= k,
           variables' = Append(variables, v), opened' = st,
           ScopesOf(st, variables') = ScopesOf(opened, variables'), Heads(st)
    PROVE  Done
<1>1. /\ ScopesOf(opened, variables) # <<>>
      /\ ScopesOf(opened, Append(variables, v)) =
            [ScopesOf(opened, variables) EXCEPT ![Len(ScopesOf(opened, variables))].vars =
                Append(@, Binding(v))]
  BY ReadyFacts, DeclaresInScope DEF Parses
<1>2. Len(variables') = Len(variables) + 1 /\ Len(variables) \in Nat
  BY ReadyFacts, AppendSeq DEF Parses
<1>3. v.id \in Identifiers
  BY <1>2, VariablesAssumption DEF Parses, Identifiers
<1>4. Binding(v) = [id |-> v.name, val |-> v.id]
  BY DEF Binding
<1>5. Scopes' = ScopesOf(opened, Append(variables, v))
  BY DEF Scopes
<1>6. Scopes # <<>> /\ Scopes' = [Scopes EXCEPT ![Len(Scopes)].vars =
                                      Append(@, [id |-> v.name, val |-> v.id])]
  BY <1>1, <1>4, <1>5 DEF Scopes
<1>7. Moves(Scopes, Scopes')
  BY <1>3, <1>6 DEF Moves
<1> QED
  BY <1>7 DEF Done

LEMMA DeclareDone == ASSUME Parses, Declare PROVE Done
<1> DEFINE ty == TypeAt(position)
           Go(r) == IF r.failed THEN r ELSE Declaration(r.node.type, r.next)
           d == CHOOSE x \in {IF Crashed(r) THEN r ELSE Go(r) : r \in {ty}} : TRUE
           v == Declared(d.node, Root)
<1>1. Ready /\ At("decl")
  BY DEF Declare, Parses
<1>2. \/ ~Good(d) /\ Bad(d)
      \/ Good(d) /\ Finished(opened, d.node, d.next) /\ variables' = Append(variables, v)
  BY DEF Declare, Then
<1>3. CASE Bad(d)
  BY <1>1, <1>3, BadDone
<1>4. CASE Good(d) /\ Finished(opened, d.node, d.next) /\ variables' = Append(variables, v)
  <2>1. d = IF Crashed(ty) THEN ty ELSE Go(ty)
    <3> HIDE DEF Go, ty
    <3>1. {IF Crashed(r) THEN r ELSE Go(r) : r \in {ty}} = {IF Crashed(ty) THEN ty ELSE Go(ty)}
      OBVIOUS
    <3> QED
      BY <3>1
  <2>2. Good(ty) /\ d = Declaration(ty.node.type, ty.next)
    BY <1>4, <2>1 DEF Good
  <2>3. d.node.op = Tok(ty.next).s
    BY <1>4, <2>2, DeclarationNames
  <2>4. tokens # <<>> /\ tokens \in Source /\ tokens \in Seq(Token)
    BY <1>1 DEF Ready, At
  <2>5. ty.next \in Nat \ {0}
    BY <2>2, <2>4, TypeEnds DEF Parses
  <2>6. v.name \in Words
    BY <2>3, <2>4, <2>5, TokFacts DEF Declared, Variable
  <2>7. v.id = Len(variables) /\ v.root = Root
    BY DEF Declared, Variable, NextId
  <2>8. PICK k \in DOMAIN opened :
            /\ opened[k].root = Root /\ Root # GlobalScope
            /\ \A i \in DOMAIN opened : opened[i].root # GlobalScope => i <= k
    BY <1>1, RootFacts DEF Ready
  <2> HIDE DEF v
  <2>9. k \in OwnersIn(v, opened)
    BY <2>7, <2>8 DEF OwnersIn
  <2>10. Len(opened) > 0
    BY <1>1, AtFacts DEF Ready
  <2>11. ScopesOf(opened', variables') = ScopesOf(opened, variables') /\ Heads(opened')
    BY <1>1, <1>4, <2>10, ReadyFacts, FinishedScopes
  <2> QED
    BY <1>4, <2>6, <2>7, <2>8, <2>9, <2>11, DeclaresDone
<1> QED
  BY <1>2, <1>3, <1>4

LEMMA ArgumentDone == ASSUME Parses, Argument PROVE Done
<1> DEFINE ty == TypeAt(position)
           v == Variable(Tok(ty.next).s, NextId(variables), Top.root, ty.node.type)
           e == Entry("arguments", Top.root, WithParameter(Top.node, v), <<>>)
<1>1. Ready /\ InArguments
  BY DEF Argument, Parses
<1>2. \/ Fail
      \/ Bad(ty)
      \/ Good(ty) /\ variables' = Append(variables, v) /\ opened' = SetTop(e)
  BY DEF Argument
<1>3. CASE Good(ty) /\ variables' = Append(variables, v) /\ opened' = SetTop(e)
  <2>1. /\ Len(opened) = 1 /\ DOMAIN opened = {1} /\ Top = opened[1]
        /\ Top.root \in Address /\ Top.root # GlobalScope /\ Top.kind = "arguments"
        /\ opened # <<>>
    BY <1>1, ArgumentOwner DEF Ready, InArguments
  <2>2. tokens # <<>> /\ tokens \in Source /\ tokens \in Seq(Token)
    BY <1>1, <2>1 DEF Ready
  <2>3. v.name \in Words
    <3>1. ty.next \in Nat \ {0}
      BY <1>3, <2>2, TypeEnds DEF Parses
    <3> QED
      BY <2>2, <3>1, TokFacts DEF Variable
  <2>4. v.id = Len(variables) /\ v.root = Top.root
    BY DEF Variable, NextId
  <2>5. e.kind = "arguments" /\ e.root = Top.root
    BY DEF Entry
  <2> HIDE DEF v, e
  <2>6. 1 \in OwnersIn(v, opened) /\ \A i \in DOMAIN opened : opened[i].root # GlobalScope => i <= 1
    BY <2>1, <2>4 DEF OwnersIn
  <2>7. ScopesOf(SetTop(e), variables') = ScopesOf(opened, variables') /\ Heads(SetTop(e))
    BY <1>1, <2>1, <2>5, ReadyFacts, SetLastScopes, SetLastHeads DEF SetTop, Below, Top, Becomes
  <2> QED
    BY <1>3, <2>3, <2>4, <2>6, <2>7, DeclaresDone
<1> QED
  BY <1>1, <1>2, <1>3, FailDone, BadDone

\* A body ends, and the construct around it comes further.
LEMMA EndsScope ==
    ASSUME Ready, opened # <<>>, Top.root \in Address
    PROVE  /\ Good2(ClearScope(variables, Top.root), Below) /\ Heads(Below)
           /\ Moves(Scopes, ScopesOf(Below, ClearScope(variables, Top.root)))
<1>1. Len(opened) > 0
  BY TopFacts DEF Ready
<1>2. Good2(ClearScope(variables, Top.root), Below)
  BY <1>1, ReadyFacts, PopBody DEF Top, Below
<1>3. Heads(Below)
  BY <1>1, ReadyFacts, PopHeads DEF Below
<1>4. /\ Scopes # <<>>
      /\ ScopesOf(Below, ClearScope(variables, Top.root)) = SubSeq(Scopes, 1, Len(Scopes) - 1)
  BY <1>1, ReadyFacts, ClosesScope DEF Scopes, Top, Below
<1> QED
  BY <1>2, <1>3, <1>4 DEF Moves

LEMMA ArgumentsEndDone == ASSUME Ready, ArgumentsEnd PROVE Done
<1> DEFINE e == Entry("func", Top.root, Top.node, <<>>)
<1>1. InArguments /\ opened # <<>> /\ Top.kind = "arguments"
  BY DEF ArgumentsEnd, InArguments
<1>2. Len(opened) > 0 /\ Top.root \in Address
  BY <1>1, ArgumentOwner DEF Ready
<1>3. CASE variables' = ClearScope(variables, Top.root) /\ opened' = Below
  BY <1>1, <1>2, <1>3, EndsScope DEF Done, Scopes
<1>4. CASE UNCHANGED variables /\ opened' = SetTop(e)
  <2>1. e.root = Top.root /\ e.kind = "func"
    BY DEF Entry
  <2> HIDE DEF e
  <2>2. ScopesOf(SetTop(e), variables) = Scopes /\ Heads(SetTop(e))
    BY <1>1, <1>2, <2>1, ReadyFacts, SetLastScopes, SetLastHeads DEF SetTop, Below, Top, Becomes, Scopes
  <2> QED
    BY <1>4, <2>2 DEF Done, Moves, Scopes
<1> QED
  BY <1>3, <1>4 DEF ArgumentsEnd

LEMMA EndBodyDone == ASSUME Ready, EndBody PROVE Done
<1>1. opened # <<>> /\ Top.kind \in BodyKind /\ variables' = ClearScope(variables, Top.root)
  BY DEF EndBody, InBody
<1>2. Len(opened) > 0 /\ Len(opened) \in Nat /\ Top.root \in Address
  BY <1>1, TopFacts DEF Ready
<1>3. /\ Good2(variables', Below) /\ Heads(Below)
      /\ Moves(Scopes, ScopesOf(Below, variables'))
  BY <1>1, <1>2, EndsScope
<1>4. CASE opened' = Below
  BY <1>3, <1>4 DEF Done, Scopes
<1>5. CASE Top.kind # "func" /\ Finished(Below, Closed(Top), position + 1)
  <2>1. Len(opened) > 1
    BY <1>1, <1>5, TopFacts DEF BodyKind, At1, Ready
  <2>2. Len(Below) > 0
    BY <1>2, <2>1, ReadyFacts, PopConstructs DEF Below
  <2>3. ScopesOf(opened', variables') = ScopesOf(Below, variables') /\ Heads(opened')
    BY <1>3, <1>5, <2>2, FinishedScopes DEF Good2
  <2> QED
    BY <1>3, <2>3 DEF Done, Scopes
<1> QED
  BY <1>4, <1>5 DEF EndBody

LEMMA ReturnDone == ASSUME Ready, Return PROVE Done
<1>1. At("return")
  BY DEF Return
<1>2. \/ \E e : Bad(e)
      \/ \E e, p : Open(opened, "return", ReturnNode(e), p)
      \/ \E r : Statement(r)
  BY DEF Return
<1> QED
  BY <1>1, <1>2, BadDone, OpenTopDone, StatementDone

LEMMA IfDone == ASSUME Ready, If PROVE Done
<1>1. \/ \E e : Bad(e)
      \/ \E n, p : Open(opened, "if", n, p)
  BY DEF If
<1> QED
  BY <1>1, BadDone, OpenTopDone

LEMMA ForStartDone == ASSUME Ready, ForStart PROVE Done
<1> DEFINE e == Entry("condition", GlobalScope, ForNode(None), <<>>)
<1>1. e.root = GlobalScope /\ e.node.kids[1] = None
  BY DEF Entry, ForNode, Tree, NewNode
<1>2. opened' = Append(opened, e) /\ UNCHANGED variables
  BY DEF ForStart
<1> HIDE DEF e
<1>3. ScopesOf(Append(opened, e), variables) = Scopes /\ Heads(Append(opened, e))
  BY <1>1, ReadyFacts, ScopesPushed, PushHeads DEF Scopes
<1> QED
  BY <1>2, <1>3 DEF Done, Moves, Scopes

LEMMA ForVariableDone == ASSUME Parses, ForVariable PROVE Done
BY NoLoopVariableHere, NoDeclaration, FailDone DEF Parses

LEMMA ForRestDone ==
    ASSUME Ready, opened # <<>>, Top.kind = "condition", NEW c, NEW p, ForRest(c, p)
    PROVE  Done
<1> DEFINE node == [Top.node EXCEPT !.kids[2] = c]
           e == Entry("step", GlobalScope, node, <<>>)
<1>1. CASE Open(Below, "for", node, p + 1)
  BY <1>1, OpenBelowDone
<1>2. CASE opened' = SetTop(e) /\ UNCHANGED variables
  <2>1. e.kind = "step" /\ e.root = GlobalScope
    BY DEF Entry
  <2>2. Top.root = GlobalScope /\ Len(opened) > 0
    BY TopFacts DEF Ready
  <2> HIDE DEF e
  <2>3. ScopesOf(SetTop(e), variables) = Scopes /\ Heads(SetTop(e))
    BY <2>1, <2>2, ReadyFacts, SetLastScopes, SetLastHeads DEF SetTop, Below, Top, Becomes, Scopes
  <2> QED
    BY <1>2, <2>3 DEF Done, Moves, Scopes
<1> QED
  BY <1>1, <1>2 DEF ForRest

\* The loop has no variable whose name could be freed.
LEMMA ForConditionDone == ASSUME Ready, ForCondition PROVE Done
<1>1. opened # <<>> /\ Top.kind = "condition"
  BY DEF ForCondition
<1>2. Top.node.kids[1] = None
  <2>1. Len(opened) \in DOMAIN opened
    BY <1>1, TopFacts DEF Ready
  <2> QED
    BY <1>1, <2>1 DEF Ready, Heads, Top
<1>3. \/ \E c, p : ForRest(c, p)
      \/ \E e : Bad(e)
      \/ Fail
      \/ \E p : Finished(Below, ForNode(None), p) /\ variables' = variables
  BY <1>2 DEF ForCondition
<1>4. ASSUME NEW p, Finished(Below, ForNode(None), p), variables' = variables
      PROVE  Done
  <2>1. Len(opened) > 1 /\ Top.root = GlobalScope
    BY <1>1, TopFacts DEF At1, Ready
  <2>2. Len(Below) > 0
    BY <2>1, ReadyFacts, PopConstructs DEF Below
  <2>3. Good2(variables, Below) /\ Heads(Below) /\ ScopesOf(Below, variables) = Scopes
    BY <1>1, <2>1, BelowFacts
  <2>4. ScopesOf(opened', variables) = ScopesOf(Below, variables) /\ Heads(opened')
    BY <1>4, <2>2, <2>3, FinishedScopes DEF Good2
  <2> QED
    BY <1>4, <2>3, <2>4 DEF Done, Moves, Scopes
<1> QED
  BY <1>1, <1>3, <1>4, ForRestDone, BadDone, FailDone

LEMMA ForBodyDone == ASSUME Ready, ForBody PROVE Done
<1>1. opened # <<>> /\ Top.kind = "stepped"
  BY DEF ForBody
<1>2. Open(Below, "for", Top.node, position + 1) \/ Fail
  BY DEF ForBody
<1> QED
  BY <1>1, <1>2, OpenBelowDone, FailDone

LEMMA AssignDone == ASSUME Ready, Assign PROVE Done
<1>1. \E r : Statement(r)
  BY DEF Assign
<1> QED
  BY <1>1, StatementDone DEF Assign

LEMMA StepDone == ASSUME Parses, [Next]_vars PROVE Done
<1>1. Ready
  BY DEF Parses
<1>2. CASE UNCHANGED vars
  BY <1>1, <1>2, StandsStill DEF vars
<1>3. CASE MissingBrace \/ UnknownStatement
  BY <1>1, <1>3, FailDone DEF MissingBrace, UnknownStatement
<1>4. CASE Empty \/ StructStatement \/ Finish
  BY <1>1, <1>4, StandsStill DEF Empty, StructStatement, Finish, Crash
<1>5. CASE CallStatement
  BY <1>1, <1>5, StatementDone DEF CallStatement
<1> QED
  BY <1>1, <1>2, <1>3, <1>4, <1>5, FunctionHeadDone, ArgumentDone, ArgumentsEndDone, AssignDone,
     DeclareDone, ReturnDone, IfDone, ForStartDone, ForVariableDone, ForConditionDone,
     ForBodyDone, EndBodyDone DEF Next, Step, Stopped

LEMMA TokensKeptStep ==
    ASSUME [Next]_vars
    PROVE  tokens' = tokens /\ (opened = <<>> /\ opened' # <<>> => tokens # <<>>)
<1>1. CASE UNCHANGED vars
  BY <1>1 DEF vars
<1>2. CASE Next
  <2>1. tokens' = tokens
    BY <1>2 DEF Next, Step, Stopped, vars, Frame, FunctionHead, Argument, ArgumentsEnd, CallStatement,
       Assign, Declare, Return, If, ForStart, ForVariable, ForCondition, ForBody, EndBody,
       MissingBrace, UnknownStatement, StructStatement, Empty, Finish
  <2>2. ASSUME opened = <<>>, opened' # <<>> PROVE FunctionHead
    BY <1>2, <2>2 DEF Next, Step, Stopped, vars, Argument, ArgumentsEnd, InArguments, CallStatement,
       Assign, Declare, Return, If, ForStart, ForVariable, ForCondition, ForBody, EndBody, InBody, At,
       MissingBrace, UnknownStatement, StructStatement, Empty, Finish, Fail, Crash
  <2> QED
    BY <2>1, <2>2 DEF FunctionHead
<1> QED
  BY <1>1, <1>2

\* The positions the parser reads at are positions, and the identifiers of the
\* abstract specification are enough.
WithinBounds == position \in Nat \ {0} /\ Len(variables) <= MaxVariables + 1

Refines == tokens \in Source /\ (NoLoopVariable => Ready)

LEMMA RefinesInit == ASSUME Init PROVE Refines /\ Now = <<>>
<1>1. tokens \in Source /\ tokens \in Seq(Token) /\ opened = <<>> /\ variables = <<>>
  BY SourceAssumption DEF Init
<1>2. Ready
  BY <1>1, InvInit, EmptySeq DEF Ready, Heads
<1>3. ScopesOf(<<>>, <<>>) = <<>>
  BY EmptySeq, SelectedZero DEF ScopesOf
<1> QED
  BY <1>1, <1>2, <1>3 DEF Refines, Now, Scopes

LEMMA RefinesStep ==
    ASSUME Refines, WithinBounds, WithinBounds', [Next]_vars
    PROVE  Refines' /\ [Lexical!Next]_Now
<1>1. tokens' = tokens /\ (opened = <<>> /\ opened' # <<>> => tokens # <<>>)
  BY TokensKeptStep
<1>2. NoLoopVariable' = NoLoopVariable
  BY <1>1 DEF NoLoopVariable
<1>3. CASE ~NoLoopVariable
  BY <1>1, <1>2, <1>3 DEF Refines, Now
<1>4. CASE NoLoopVariable
  <2>1. Parses
    BY <1>4 DEF Parses, Refines, WithinBounds
  <2>2. Done
    BY <2>1, StepDone
  <2>3. Inv'
    BY <2>1, NoLoopVariableHere, InvStep DEF Parses, Ready
  <2>4. Ready'
    BY <1>1, <2>1, <2>2, <2>3 DEF Parses, Ready, Done, Heads
  <2>5. Now = Scopes /\ Now' = Scopes'
    BY <1>2, <1>4 DEF Now
  <2>6. Moves(Now, Now')
    BY <2>2, <2>5 DEF Done
  <2>7. [Lexical!Next]_Now
    <3>1. CASE \E sees \in BOOLEAN : Now' = Append(Now, Lexical!Opened(sees))
      BY <3>1 DEF Lexical!Next, Lexical!Open, Now
    <3>2. CASE /\ Now # <<>>
               /\ \E id \in Words, val \in Identifiers :
                    Now' = [Now EXCEPT ![Len(Now)].vars = Append(@, [id |-> id, val |-> val])]
      BY <3>2 DEF Lexical!Next, Lexical!Declare, Now
    <3>3. CASE Now # <<>> /\ Now' = SubSeq(Now, 1, Len(Now) - 1)
      BY <3>3 DEF Lexical!Next, Lexical!Close, Now
    <3> QED
      BY <2>6, <3>1, <3>2, <3>3 DEF Moves
  <2> QED
    BY <1>1, <1>2, <2>4, <2>7 DEF Refines
<1> QED
  BY <1>3, <1>4

\* For every source, every choice of addresses and whatever its expressions
\* are, the table, its root links and cwr_parser_clear_scope implement a stack
\* of lexical scopes.
THEOREM ScopesCorrect == Spec /\ []WithinBounds => ImplementsLexicalScopes
<1>1. Init => Refines /\ Lexical!Init
  BY RefinesInit DEF Lexical!Init, Now
<1>2. Refines /\ WithinBounds /\ WithinBounds' /\ [Next]_vars => Refines' /\ [Lexical!Next]_Now
  BY RefinesStep
<1>3. [Lexical!Next]_Now => [Lexical!Next]_(IF NoLoopVariable THEN Scopes ELSE <<>>)
  BY DEF Now
<1> QED
  BY <1>1, <1>2, <1>3, PTL DEF Spec, ImplementsLexicalScopes, Lexical!Spec
=============================================================================
