--------------------------- MODULE CwrMemoryProofs --------------------------
(***************************************************************************)
(* The memory of the interpreter, for every plain program, while no        *)
(* allocation has failed: nothing freed is read or freed again, no freed   *)
(* value is held, counts are exact, each buffer has one owner and no block *)
(* is lost.                                                                *)
(*                                                                         *)
(* Memorised is inductive relative to the invariants of CwrScopeProofs.    *)
(* Its core, Kept, says who holds each pointer: variables count their      *)
(* value, and one that no variable has is held by one frame.  First the    *)
(* lemmas on what the operators of CwrValue do to such a store, then one   *)
(* lemma per action of the evaluator.  The last part does the same for     *)
(* Accounted, which says that somebody holds every block.                  *)
(***************************************************************************)
EXTENDS CwrScopeProofs, FiniteSetTheorems

(***************************************************************************)
(* Counting the variables that have a value.                               *)
(***************************************************************************)
Having(vs, a) == {i \in DOMAIN vs : vs[i].val = a}

LEMMA CountType ==
    ASSUME NEW T, NEW vs \in Seq(T), NEW a
    PROVE  /\ IsFiniteSet(Having(vs, a)) /\ References(vs, a) = Cardinality(Having(vs, a))
           /\ References(vs, a) \in Nat
           /\ References(vs, a) = 0 <=> \A i \in DOMAIN vs : vs[i].val # a
<1>1. References(vs, a) = Cardinality(Having(vs, a))
  BY DEF References, Having
<1>2. Len(vs) \in Nat /\ DOMAIN vs = 1 .. Len(vs)
  OBVIOUS
<1>3. IsFiniteSet(1 .. Len(vs))
  BY <1>2, FS_Interval
<1>4. Having(vs, a) \in SUBSET (1 .. Len(vs))
  BY <1>2 DEF Having
<1>5. IsFiniteSet(Having(vs, a))
  BY <1>3, <1>4, FS_Subset
<1>6. Cardinality(Having(vs, a)) \in Nat
  BY <1>5, FS_CardinalityType
<1>7. Cardinality(Having(vs, a)) = 0 <=> Having(vs, a) = {}
  BY <1>5, FS_EmptySet
<1>8. Having(vs, a) = {} <=> \A i \in DOMAIN vs : vs[i].val # a
  BY DEF Having
<1> QED
  BY <1>1, <1>5, <1>6, <1>7, <1>8

\* One variable more, and one less.
Longer(vs, ws, x) == /\ DOMAIN ws = 1 .. Len(vs) + 1 /\ ws[Len(vs) + 1] = x
                     /\ \A i \in 1 .. Len(vs) : ws[i] = vs[i]

LEMMA AppendLonger ==
    ASSUME NEW T, NEW vs \in Seq(T), NEW x \in T, NEW ws, ws = Append(vs, x)
    PROVE  ws \in Seq(T) /\ Longer(vs, ws, x)
BY DEF Longer

LEMMA FrontLonger ==
    ASSUME NEW T, NEW vs \in Seq(T), vs # <<>>, NEW ws, ws = SubSeq(vs, 1, Len(vs) - 1)
    PROVE  ws \in Seq(T) /\ Longer(ws, vs, vs[Len(vs)])
<1>1. PICK n \in Nat : n = Len(vs) /\ n >= 1
  OBVIOUS
<1>2. ws \in Seq(T) /\ Len(ws) = n - 1 /\ \A i \in 1 .. n - 1 : ws[i] = vs[i]
  BY <1>1
<1>3. DOMAIN vs = 1 .. n /\ n = Len(ws) + 1
  BY <1>1, <1>2
<1>4. \A i \in 1 .. Len(ws) : vs[i] = ws[i]
  BY <1>1, <1>2
<1> QED
  BY <1>1, <1>2, <1>3, <1>4 DEF Longer

LEMMA CountLonger ==
    ASSUME NEW T, NEW vs \in Seq(T), NEW ws \in Seq(T), NEW x, Longer(vs, ws, x), NEW a
    PROVE  /\ x.val = a => References(ws, a) = References(vs, a) + 1
           /\ x.val # a => References(ws, a) = References(vs, a)
<1> DEFINE n == Len(vs) + 1
<1>1. /\ Len(vs) \in Nat /\ DOMAIN vs = 1 .. Len(vs)
      /\ DOMAIN ws = 1 .. n /\ ws[n] = x /\ \A i \in 1 .. Len(vs) : ws[i] = vs[i]
  BY DEF Longer
<1>2. n \notin Having(vs, a)
  BY <1>1 DEF Having
<1>3. IsFiniteSet(Having(vs, a)) /\ References(vs, a) = Cardinality(Having(vs, a))
      /\ References(ws, a) = Cardinality(Having(ws, a)) /\ References(vs, a) \in Nat
  BY <1>1, CountType
<1>4. CASE x.val = a
  <2>1. Having(ws, a) = Having(vs, a) \cup {n}
    BY <1>1, <1>4 DEF Having
  <2> HIDE DEF n
  <2> QED
    BY <1>2, <1>3, <1>4, <2>1, FS_AddElement
<1>5. CASE x.val # a
  <2>1. Having(ws, a) = Having(vs, a)
    BY <1>1, <1>5 DEF Having
  <2> QED
    BY <1>3, <1>5, <2>1
<1> QED
  BY <1>4, <1>5

\* A variable gets another value.
Replaced(vs, ws, i) == /\ i \in DOMAIN vs /\ DOMAIN ws = DOMAIN vs
                       /\ \A j \in DOMAIN vs \ {i} : ws[j] = vs[j]

LEMMA CountReplace ==
    ASSUME NEW T, NEW vs \in Seq(T), NEW ws \in Seq(T), NEW i, Replaced(vs, ws, i),
           NEW old, old = vs[i].val, NEW v, v = ws[i].val, old # v, NEW a
    PROVE  /\ a = v => References(ws, a) = References(vs, a) + 1
           /\ a = old => References(ws, a) = References(vs, a) - 1
           /\ a # v /\ a # old => References(ws, a) = References(vs, a)
<1>1. IsFiniteSet(Having(vs, a)) /\ References(vs, a) = Cardinality(Having(vs, a))
      /\ References(ws, a) = Cardinality(Having(ws, a)) /\ References(vs, a) \in Nat
  BY CountType
<1>2. CASE a = v
  <2>1. Having(ws, a) = Having(vs, a) \cup {i} /\ i \notin Having(vs, a)
    BY <1>2 DEF Having, Replaced
  <2> QED
    BY ZenonT(40), <1>1, <1>2, <2>1, FS_AddElement
<1>3. CASE a = old
  <2>1. Having(ws, a) = Having(vs, a) \ {i} /\ i \in Having(vs, a)
    BY <1>3 DEF Having, Replaced
  <2> QED
    BY <1>1, <1>3, <2>1, FS_RemoveElement
<1>4. CASE a # v /\ a # old
  <2>1. Having(ws, a) = Having(vs, a)
    BY <1>4 DEF Having, Replaced
  <2> QED
    BY <1>1, <1>4, <2>1
<1> QED
  BY <1>2, <1>3, <1>4

\* What no variable has stays so, and what one has is not touched.
Releases(m, n) == \A a \in Addr : Unheld(m, a) => Unheld(n, a)
Spares(m, n) == \A a \in Addr : Live(m, a) /\ ~Unheld(m, a) => n.cells[a] = m.cells[a]
ReleasesBut(m, n, v) == \A a \in Addr : Unheld(m, a) /\ a # v => Unheld(n, a)

\* The holders of v share it with a variable.
Shared(S, V, ws, v) == \A s \in S : V[s] = v => \E i \in DOMAIN ws : ws[i].val = v

(***************************************************************************)
(* What the operations of the heap do to a store.  The assumptions name    *)
(* the memory before and after, the variables and the holders.             *)
(***************************************************************************)
\* The counts of what no variable has.
LEMMA UnheldRaw ==
    ASSUME NEW m, NEW T, NEW vs \in Seq(T), Counted(m, vs), NEW a, IsRaw(m, a)
    PROVE  Unheld(m, a)
<1>1. \A i \in DOMAIN vs : vs[i].val # a
  BY DEF Counted, IsValue, IsRaw
<1>2. References(vs, a) = 0
  BY <1>1, CountType
<1> QED
  BY <1>2 DEF Counted, IsRaw, Live, Unheld

\* A new block, held by nobody before: t gets it, the other holders stay.
Blank(c) == c.type # "free" /\ c.refs = 0 /\ ~c.isref /\ c.buf = NULL
Extended(S, V, t, W, v) == t \notin S /\ W[t] = v /\ \A s \in S : W[s] = V[s]

LEMMA StorePut ==
    ASSUME NEW m \in Memory, CanMalloc(m), NEW c \in Cell, Blank(c),
           NEW T, NEW vs \in Seq(T), NEW S, NEW V, Store(m, vs, S, V),
           NEW t, c.type = "block" <=> t[2] = 0, NEW W, Extended(S, V, t, W, New(m)),
           NEW n, n = Put(m, c)
    PROVE  Store(n, vs, S \cup {t}, W)
<1>0. /\ c.type # "free" /\ c.refs = 0 /\ ~c.isref /\ c.buf = NULL
      /\ t \notin S /\ W[t] = New(m) /\ \A s \in S : W[s] = V[s]
  BY DEF Blank, Extended
<1> USE <1>0
<1> DEFINE b == New(m)
<1>1. b \in Addr /\ ~Live(m, b)
  BY NewFree
<1>2. n.fault = m.fault /\ \A a \in Addr : n.cells[a] = IF a = b THEN c ELSE m.cells[a]
  BY <1>1 DEF Put, Memory
<1> HIDE DEF b
<1>3. \A a \in Addr : Live(m, a) => Live(n, a) /\ n.cells[a] = m.cells[a] /\ a # b
  BY <1>1, <1>2 DEF Live
<1>4. Live(n, b) /\ n.cells[b] = c
  BY <1>1, <1>2 DEF Live
<1>5. \A a \in Addr : Live(n, a) => a = b \/ (Live(m, a) /\ n.cells[a] = m.cells[a])
  BY <1>2 DEF Live
<1>6. Counted(n, vs)
  <2>1. \A i \in DOMAIN vs : IsValue(n, vs[i].val)
    BY <1>3 DEF Store, Counted, IsValue, Live
  <2>2. References(vs, b) = 0
    BY <1>1, CountType DEF Store, Counted, IsValue
  <2> QED
    BY <1>4, <1>5, <2>1, <2>2 DEF Store, Counted
<1>7. HeldOnce(n, S \cup {t}, W)
  <2>1. \A s \in S : W[s] # NULL => Live(m, W[s]) /\ W[s] # b /\ n.cells[W[s]] = m.cells[W[s]]
    BY <1>1, <1>3 DEF Store, HeldOnce, Live
  <2>2. W[t] = b
    BY DEF b
  <2>3. \A s \in S \cup {t} : W[s] # NULL =>
            Live(n, W[s]) /\ (n.cells[W[s]].type = "block" <=> s[2] = 0)
    BY <1>3, <1>4, <2>1, <2>2 DEF Store, HeldOnce, Live
  <2>4. \A s, u \in S \cup {t} : W[s] = W[u] /\ W[s] # NULL /\ Unheld(n, W[s]) => s = u
    BY <2>1, <2>2 DEF Store, HeldOnce, Unheld
  <2> QED
    BY <2>3, <2>4 DEF HeldOnce
<1>8. Owned(n, S \cup {t}, W)
  <2> SUFFICES ASSUME NEW a \in Addr, Live(n, a)
               PROVE  /\ ~n.cells[a].isref
                      /\ n.cells[a].buf # NULL =>
                        /\ IsValue(n, a) /\ IsRaw(n, n.cells[a].buf)
                        /\ \A d \in Addr \ {a} : Live(n, d) => n.cells[d].buf # n.cells[a].buf
                        /\ \A s \in S \cup {t} : W[s] # n.cells[a].buf
    BY DEF Owned
  <2>1. CASE a = b
    BY <1>4, <2>1
  <2>2. CASE a # b
    <3>1. Live(m, a) /\ n.cells[a] = m.cells[a]
      BY <1>5, <2>2
    <3>2. CASE m.cells[a].buf # NULL
      <4> DEFINE p == m.cells[a].buf
      <4>1. IsValue(m, a) /\ IsRaw(m, p) /\ p # b /\ p \in Addr
        BY <1>1, <3>1, <3>2 DEF Store, Owned, IsRaw, Live
      <4>2. \A d \in Addr \ {a} : Live(n, d) => n.cells[d].buf # p
        BY <1>4, <1>5, <3>1, <3>2 DEF Store, Owned
      <4>3. \A s \in S \cup {t} : W[s] # p
        BY <3>1, <3>2, <4>1 DEF Store, Owned, b
      <4>4. IsValue(n, a) /\ IsRaw(n, p) /\ ~n.cells[a].isref
        BY <1>3, <3>1, <4>1 DEF IsValue, IsRaw, Store, Owned
      <4> QED
        BY <3>1, <4>2, <4>3, <4>4
    <3> QED
      BY <3>1, <3>2 DEF Store, Owned
  <2> QED
    BY <2>1, <2>2
<1> QED
  BY <1>2, <1>3, <1>4, <1>6, <1>7, <1>8 DEF Store, b

\* Blocks that no holder has and no other value owns are freed.
LEMMA StoreFreed ==
    ASSUME NEW m, NEW T, NEW vs \in Seq(T), NEW S, NEW V, Store(m, vs, S, V),
           NEW D \in SUBSET Addr, NEW n,
           \A a \in Addr : n.cells[a] = IF a \in D THEN FreeCell ELSE m.cells[a],
           \A a \in D : Live(m, a) => Unheld(m, a),
           NEW R \in SUBSET S, \A s \in R : V[s] \notin D,
           \A a \in Addr \ D : Live(m, a) => m.cells[a].buf \notin D
    PROVE  Store(n, vs, R, V)
<1>1. \A a \in Addr : Live(n, a) => a \notin D /\ Live(m, a) /\ n.cells[a] = m.cells[a]
  BY DEF Live, FreeCell, NewCell
<1>2. \A a \in Addr : Live(m, a) /\ a \notin D => Live(n, a) /\ n.cells[a] = m.cells[a]
  BY DEF Live
<1>3. Counted(n, vs)
  <2>1. \A i \in DOMAIN vs : vs[i].val \notin D
    <3> SUFFICES ASSUME NEW i \in DOMAIN vs, vs[i].val \in D PROVE FALSE
      OBVIOUS
    <3>1. References(vs, vs[i].val) # 0
      BY CountType
    <3>2. Live(m, vs[i].val) /\ m.cells[vs[i].val].refs = References(vs, vs[i].val)
      BY DEF Store, Counted, IsValue
    <3> QED
      BY <3>1, <3>2 DEF Unheld
  <2>2. \A i \in DOMAIN vs : IsValue(n, vs[i].val)
    BY <1>2, <2>1 DEF Store, Counted, IsValue, Live
  <2> QED
    BY <1>1, <2>2 DEF Store, Counted
<1>4. HeldOnce(n, R, V)
  BY <1>2 DEF Store, HeldOnce, Live, Unheld
<1>5. Owned(n, R, V)
  <2> SUFFICES ASSUME NEW a \in Addr, Live(n, a)
               PROVE  /\ ~n.cells[a].isref
                      /\ n.cells[a].buf # NULL =>
                        /\ IsValue(n, a) /\ IsRaw(n, n.cells[a].buf)
                        /\ \A d \in Addr \ {a} : Live(n, d) => n.cells[d].buf # n.cells[a].buf
                        /\ \A s \in R : V[s] # n.cells[a].buf
    BY DEF Owned
  <2>1. Live(m, a) /\ n.cells[a] = m.cells[a] /\ a \notin D
    BY <1>1
  <2>2. CASE m.cells[a].buf # NULL
    <3>1. IsRaw(m, m.cells[a].buf) /\ IsValue(m, a) /\ m.cells[a].buf \notin D
          /\ m.cells[a].buf \in Addr
      BY <2>1, <2>2 DEF Store, Owned, IsRaw, Live
    <3>2. IsRaw(n, n.cells[a].buf) /\ IsValue(n, a)
      BY <1>2, <2>1, <3>1 DEF IsRaw, IsValue
    <3>3. \A d \in Addr \ {a} : Live(n, d) => n.cells[d].buf # n.cells[a].buf
      BY <1>1, <2>1, <2>2 DEF Store, Owned
    <3>4. \A s \in R : V[s] # n.cells[a].buf
      BY <2>1, <2>2 DEF Store, Owned
    <3> QED
      BY <2>1, <3>2, <3>3, <3>4 DEF Store, Owned
  <2> QED
    BY <2>1, <2>2 DEF Store, Owned
<1> QED
  BY <1>3, <1>4, <1>5 DEF Store

\* A store depends on the content of the blocks only.
LEMMA StoreSame ==
    ASSUME NEW m, NEW vs, NEW S, NEW V, Store(m, vs, S, V), NEW n, n.cells = m.cells
    PROVE  Store(n, vs, S, V)
<1>1. \A a : Live(n, a) <=> Live(m, a)
  BY DEF Live
<1>2. Counted(n, vs)
  BY <1>1 DEF Store, Counted, IsValue
<1>3. HeldOnce(n, S, V)
  BY <1>1 DEF Store, HeldOnce, Unheld
<1>4. Owned(n, S, V)
  BY <1>1 DEF Store, Owned, IsValue, IsRaw
<1> QED
  BY <1>2, <1>3, <1>4 DEF Store

LEMMA StoreLess ==
    ASSUME NEW m, NEW vs, NEW S, NEW V, Store(m, vs, S, V), NEW R \in SUBSET S
    PROVE  Store(m, vs, R, V)
<1>1. HeldOnce(m, R, V)
  BY DEF Store, HeldOnce
<1>2. Owned(m, R, V)
  BY DEF Store, Owned
<1> QED
  BY <1>1, <1>2 DEF Store

\* A read finds what is there, or a null pointer.
LEMMA TouchCells ==
    ASSUME NEW m \in Memory, NEW a, a = NULL \/ Live(m, a), NEW n, n = Touch(m, a)
    PROVE  /\ n.cells = m.cells /\ (Unfreed(m) => Unfreed(n))
           /\ n.fault = "none" => m.fault = "none" /\ Live(m, a)
BY DEF Touch, Raise, Memory, Unfreed

\* The destruction of a value nobody has: its block, and the one it owns, are free.
LEMMA DestroyShape ==
    ASSUME NEW m \in Memory, NEW a \in Addr, IsValue(m, a), ~m.cells[a].isref,
           m.cells[a].buf = NULL \/ (IsRaw(m, m.cells[a].buf) /\ m.cells[a].buf # a),
           NEW n, n = InstanceDestroy(m, a)
    PROVE  /\ n.fault = m.fault
           /\ \E D \in SUBSET {a, m.cells[a].buf} : /\ a \in D /\ NULL \notin D
                /\ \A x \in Addr : n.cells[x] = IF x \in D THEN FreeCell ELSE m.cells[x]
<1> DEFINE b == m.cells[a].buf
<1>1. a # NULL /\ Live(m, a)
  BY AddrAssumption DEF IsValue
<1> DEFINE k == IF m.cells[a].type \in {"pointer", "array"}
                THEN ArrayDestroy(m, m.cells[a]) ELSE m
<1>2. n = Free(k, a)
  BY <1>1 DEF InstanceDestroy
<1>3. k = m \/ (b # NULL /\ k = Free(m, b))
  BY DEF ArrayDestroy, Free
<1>4. CASE k = m
  <2>1. n = [m EXCEPT !.cells[a] = FreeCell]
    BY <1>1, <1>2, <1>4 DEF Free
  <2>2. n.fault = m.fault /\ \A x \in Addr : n.cells[x] = IF x \in {a} THEN FreeCell ELSE m.cells[x]
    BY <2>1 DEF Memory
  <2> QED
    BY <1>1, <2>2
<1>5. CASE b # NULL /\ k = Free(m, b)
  <2>1. b \in Addr /\ Live(m, b) /\ b # a
    BY <1>5 DEF IsRaw, Live
  <2>2. k = [m EXCEPT !.cells[b] = FreeCell]
    BY <1>5, <2>1 DEF Free
  <2>3. /\ k.fault = m.fault
        /\ \A x \in Addr : k.cells[x] = IF x = b THEN FreeCell ELSE m.cells[x]
        /\ DOMAIN k.cells = Addr
    BY <2>1, <2>2 DEF Memory
  <2>4. Live(k, a)
    BY <1>1, <2>1, <2>3 DEF Live
  <2>5. k \in Memory
    BY <2>2, <2>1, FreeCellType DEF Memory
  <2>6. n = [k EXCEPT !.cells[a] = FreeCell]
    BY <1>1, <1>2, <2>4 DEF Free
  <2>7. /\ n.fault = k.fault
        /\ \A x \in Addr : n.cells[x] = IF x = a THEN FreeCell ELSE k.cells[x]
    BY <2>5, <2>6 DEF Memory
  <2>8. \A x \in Addr : n.cells[x] = IF x \in {a, b} THEN FreeCell ELSE m.cells[x]
    BY <2>3, <2>7
  <2> QED
    BY <1>5, <1>1, <2>3, <2>7, <2>8
<1> HIDE DEF k
<1> QED
  BY <1>3, <1>4, <1>5

\* The result that s holds is destroyed, unless a variable has it.
LEMMA StoreDestroy ==
    ASSUME NEW m \in Memory, NEW T, NEW vs \in Seq(T), NEW S, NEW V, Store(m, vs, S, V),
           NEW s \in S, s[2] # 0, NEW n, n = RuntimeDestroy(m, V[s])
    PROVE  /\ Store(n, vs, S \ {s}, V) /\ (Unfreed(m) => Unfreed(n))
           /\ n.fault = "none" => m.fault = "none" /\ IsValue(m, V[s])
           /\ Releases(m, n)
           /\ Spares(m, n)
<1> DEFINE a == V[s]
<1>1. CASE a = NULL
  <2>1. ~Live(m, a)
    BY <1>1, AddrAssumption DEF Live
  <2>2. n = Touch(m, a)
    BY <2>1 DEF RuntimeDestroy, InstanceDestroy
  <2>3. n.cells = m.cells /\ (Unfreed(m) => Unfreed(n)) /\ n.fault # "none"
    BY <1>1, <2>1, <2>2, TouchCells
  <2>4. Store(n, vs, S \ {s}, V)
    BY <2>3, StoreSame, StoreLess
  <2> QED
    BY <2>3, <2>4 DEF Unheld, Releases, Spares
<1>2. CASE a # NULL
  <2>1. a \in Addr /\ IsValue(m, a) /\ m.cells[a].refs = References(vs, a)
        /\ References(vs, a) \in Nat
    BY <1>2, CountType DEF Store, HeldOnce, Counted, IsValue, Live
  <2>2. CASE m.cells[a].refs > 0
    <3>1. n = m
      BY <2>1, <2>2 DEF RuntimeDestroy, IsValue
    <3> QED
      BY <2>1, <3>1, StoreLess DEF Releases, Spares
  <2>3. CASE m.cells[a].refs = 0
    <3>1. n = InstanceDestroy(m, a)
      BY <2>3 DEF RuntimeDestroy
    <3>2. ~m.cells[a].isref
          /\ (m.cells[a].buf = NULL \/ (IsRaw(m, m.cells[a].buf) /\ m.cells[a].buf # a))
      BY <2>1 DEF Store, Owned, IsRaw, IsValue
    <3> HIDE DEF a
    <3>3. /\ n.fault = m.fault
          /\ \E D \in SUBSET {a, m.cells[a].buf} : /\ a \in D /\ NULL \notin D
                /\ \A x \in Addr : n.cells[x] = IF x \in D THEN FreeCell ELSE m.cells[x]
      BY <2>1, <3>1, <3>2, DestroyShape
    <3>4. PICK D \in SUBSET {a, m.cells[a].buf} : /\ a \in D /\ NULL \notin D
                /\ \A x \in Addr : n.cells[x] = IF x \in D THEN FreeCell ELSE m.cells[x]
      BY <3>3
    <3>5. D \in SUBSET Addr
      BY <2>1, <3>2, <3>4 DEF IsRaw, Live
    <3>6. \A x \in D : Unheld(m, x)
      <4>1. Unheld(m, a)
        BY <2>3 DEF Unheld
      <4>2. IsRaw(m, m.cells[a].buf) => Unheld(m, m.cells[a].buf)
        BY UnheldRaw DEF Store
      <4> QED
        BY <3>2, <3>4, <4>1, <4>2
    <3>7. \A u \in S \ {s} : V[u] \notin D
      <4>1. \A u \in S \ {s} : V[u] # a
        BY <1>2, <2>3 DEF Store, HeldOnce, Unheld, a
      <4>2. \A u \in S : V[u] # NULL => V[u] # m.cells[a].buf
        BY <2>1 DEF Store, Owned, IsValue
      <4> QED
        BY <3>4, <4>1, <4>2
    <3>8. \A x \in Addr \ D : Live(m, x) => m.cells[x].buf \notin D
      <4> SUFFICES ASSUME NEW x \in Addr, x \notin D, Live(m, x), m.cells[x].buf \in D
                   PROVE  FALSE
        OBVIOUS
      <4>1. m.cells[x].buf # NULL /\ IsRaw(m, m.cells[x].buf)
        BY <3>4 DEF Store, Owned
      <4>2. m.cells[x].buf # a
        BY <2>1, <4>1 DEF IsRaw, IsValue
      <4>3. m.cells[x].buf = m.cells[a].buf /\ x # a
        BY <3>4, <4>2
      <4> QED
        BY <2>1, <4>1, <4>3 DEF Store, Owned, IsValue
    <3>9. Store(n, vs, S \ {s}, V)
      BY <3>4, <3>5, <3>6, <3>7, <3>8, StoreFreed
    <3>10. Releases(m, n)
      BY <3>4 DEF Unheld, FreeCell, NewCell, Releases, Spares
    <3>11. \A x \in Addr : ~Unheld(m, x) => n.cells[x] = m.cells[x]
      BY <3>4, <3>6
    <3> QED
      BY <2>1, <3>3, <3>9, <3>10, <3>11 DEF Unfreed, a, Releases, Spares
  <2>4. m.cells[a].refs = 0 \/ m.cells[a].refs > 0
    BY <2>1
  <2> QED
    BY <2>2, <2>3, <2>4
<1> QED
  BY <1>1, <1>2

\* The arguments array that s holds is freed.
LEMMA StoreFree ==
    ASSUME NEW m \in Memory, NEW T, NEW vs \in Seq(T), NEW S, NEW V, Store(m, vs, S, V),
           NEW s \in S, s[2] = 0, NEW n, n = Free(m, V[s])
    PROVE  /\ Store(n, vs, S \ {s}, V) /\ (Unfreed(m) => Unfreed(n))
           /\ Releases(m, n) /\ Spares(m, n)
<1> DEFINE a == V[s]
<1>1. CASE a = NULL
  BY <1>1, StoreLess DEF Free, Releases, Spares
<1>2. CASE a # NULL
  <2>1. a \in Addr /\ IsRaw(m, a)
    BY <1>2 DEF Store, HeldOnce, IsRaw, Live
  <2>2. Unheld(m, a)
    BY <2>1, UnheldRaw DEF Store
  <2>3. n = [m EXCEPT !.cells[a] = FreeCell]
    BY <1>2, <2>1 DEF Free, IsRaw
  <2>4. n.fault = m.fault /\ \A x \in Addr : n.cells[x] = IF x \in {a} THEN FreeCell ELSE m.cells[x]
    BY <2>1, <2>3 DEF Memory
  <2>5. \A u \in S \ {s} : V[u] \notin {a}
    BY <1>2, <2>2 DEF Store, HeldOnce
  <2>6. \A x \in Addr \ {a} : Live(m, x) => m.cells[x].buf \notin {a}
    BY <1>2 DEF Store, Owned
  <2>7. Store(n, vs, S \ {s}, V)
    BY ZenonT(40), <2>1, <2>2, <2>4, <2>5, <2>6, StoreFreed
  <2>8. Releases(m, n)
    BY <2>4 DEF Unheld, FreeCell, NewCell, Releases, Spares
  <2> QED
    BY <2>2, <2>4, <2>7, <2>8 DEF Releases, Spares, Unfreed
<1> QED
  BY <1>1, <1>2

\* The characters of a string get the value that owns them: s held them, t
\* holds the value.
LEMMA StoreArray ==
    ASSUME NEW m \in Memory, CanMalloc(m), NEW elem \in ValueType, NEW cap \in Nat,
           NEW T, NEW vs \in Seq(T), NEW S, NEW V, Store(m, vs, S, V),
           NEW s \in S, s[2] = 0, V[s] \in Pointers, NEW t, t[2] # 0,
           NEW W, Extended(S, V, t, W, New(m)),
           NEW n, n = Put(m, Array(elem, cap, V[s]))
    PROVE  Store(n, vs, (S \ {s}) \cup {t}, W)
<1> DEFINE b == New(m)
           p == V[s]
           c == Array(elem, cap, p)
           R == (S \ {s}) \cup {t}
<1>1. b \in Addr /\ ~Live(m, b)
  BY NewFree
<1>2. n.fault = m.fault /\ \A a \in Addr : n.cells[a] = IF a = b THEN c ELSE m.cells[a]
  BY <1>1 DEF Put, Memory
<1>3. c.type = "array" /\ c.refs = 0 /\ ~c.isref /\ c.buf = p
  BY DEF Array, NewCell
<1>4. p # NULL => IsRaw(m, p) /\ Unheld(m, p) /\ p \in Addr /\ p # b
  <2>1. p # NULL => IsRaw(m, p) /\ p \in Addr /\ p # b
    BY <1>1 DEF Store, HeldOnce, IsRaw, Live
  <2> QED
    BY <2>1, UnheldRaw DEF Store
<1>5. t \notin S /\ W[t] = b /\ \A u \in S : W[u] = V[u]
  BY DEF Extended
<1> HIDE DEF b, c
<1>6. \A a \in Addr : Live(m, a) => Live(n, a) /\ n.cells[a] = m.cells[a] /\ a # b
  BY <1>1, <1>2 DEF Live
<1>7. Live(n, b) /\ n.cells[b] = c
  BY <1>1, <1>2, <1>3 DEF Live
<1>8. \A a \in Addr : Live(n, a) => a = b \/ (Live(m, a) /\ n.cells[a] = m.cells[a])
  BY <1>2 DEF Live
<1>9. Counted(n, vs)
  <2>1. \A i \in DOMAIN vs : IsValue(n, vs[i].val)
    BY <1>6 DEF Store, Counted, IsValue, Live
  <2>2. References(vs, b) = 0
    BY <1>1, CountType DEF Store, Counted, IsValue
  <2> QED
    BY <1>3, <1>7, <1>8, <2>1, <2>2 DEF Store, Counted
<1>10. HeldOnce(n, R, W)
  <2>1. \A u \in S : W[u] # NULL => Live(m, W[u]) /\ W[u] # b /\ n.cells[W[u]] = m.cells[W[u]]
    BY <1>1, <1>5, <1>6 DEF Store, HeldOnce, Live
  <2>2. \A u \in R : W[u] # NULL => Live(n, W[u]) /\ (n.cells[W[u]].type = "block" <=> u[2] = 0)
    BY <1>3, <1>5, <1>6, <1>7, <2>1 DEF Store, HeldOnce, Live
  <2>3. \A u, w \in R : W[u] = W[w] /\ W[u] # NULL /\ Unheld(n, W[u]) => u = w
    BY <1>5, <2>1 DEF Store, HeldOnce, Unheld
  <2> QED
    BY <2>2, <2>3 DEF HeldOnce
<1>11. \A u \in R : p # NULL => W[u] # p
  BY <1>4, <1>5 DEF Store, HeldOnce
<1>12. \A a \in Addr : Live(m, a) /\ p # NULL => m.cells[a].buf # p
  BY DEF Store, Owned
<1>13. Owned(n, R, W)
  <2> SUFFICES ASSUME NEW a \in Addr, Live(n, a)
               PROVE  /\ ~n.cells[a].isref
                      /\ n.cells[a].buf # NULL =>
                        /\ IsValue(n, a) /\ IsRaw(n, n.cells[a].buf)
                        /\ \A d \in Addr \ {a} : Live(n, d) => n.cells[d].buf # n.cells[a].buf
                        /\ \A u \in R : W[u] # n.cells[a].buf
    BY DEF Owned
  <2>1. CASE a = b
    <3>1. p # NULL => IsRaw(n, p)
      BY <1>4, <1>6 DEF IsRaw
    <3>2. IsValue(n, b)
      BY <1>3, <1>7 DEF IsValue
    <3> QED
      BY <1>3, <1>7, <1>8, <1>11, <1>12, <2>1, <3>1, <3>2
  <2>2. CASE a # b
    <3>1. Live(m, a) /\ n.cells[a] = m.cells[a]
      BY <1>8, <2>2
    <3>2. CASE m.cells[a].buf # NULL
      <4> DEFINE q == m.cells[a].buf
      <4>1. IsValue(m, a) /\ IsRaw(m, q) /\ q # b /\ q \in Addr /\ q # p
        BY <1>1, <1>12, <3>1, <3>2 DEF Store, Owned, IsRaw, Live
      <4>2. \A d \in Addr \ {a} : Live(n, d) => n.cells[d].buf # q
        BY <1>3, <1>7, <1>8, <3>1, <3>2, <4>1 DEF Store, Owned
      <4>3. \A u \in R : W[u] # q
        BY <1>5, <3>1, <3>2, <4>1 DEF Store, Owned
      <4>4. IsValue(n, a) /\ IsRaw(n, q) /\ ~n.cells[a].isref
        BY <1>6, <3>1, <4>1 DEF IsValue, IsRaw, Store, Owned
      <4> QED
        BY <3>1, <4>2, <4>3, <4>4
    <3> QED
      BY <3>1, <3>2 DEF Store, Owned
  <2> QED
    BY <2>1, <2>2
<1> QED
  BY <1>2, <1>3, <1>6, <1>7, <1>9, <1>10, <1>13 DEF Store, Unheld, b

\* Results change hands: t now holds what h[t] held, nothing, or a value that a
\* variable has.
LEMMA StoreMoved ==
    ASSUME NEW m, NEW vs, NEW S, NEW V, Store(m, vs, S, V), NEW R, NEW W, NEW h,
           \A t \in R : \/ W[t] = NULL
                        \/ t[2] # 0 /\ IsValue(m, W[t]) /\ ~Unheld(m, W[t])
                        \/ h[t] \in S /\ W[t] = V[h[t]] /\ (t[2] = 0 <=> h[t][2] = 0),
           \A t, u \in R : h[t] = h[u] => t = u
    PROVE  Store(m, vs, R, W)
<1>1. HeldOnce(m, R, W)
  <2>1. \A t \in R : W[t] # NULL => Live(m, W[t]) /\ (m.cells[W[t]].type = "block" <=> t[2] = 0)
    BY DEF Store, HeldOnce, IsValue
  <2>2. \A t, u \in R : W[t] = W[u] /\ W[t] # NULL /\ Unheld(m, W[t]) => t = u
    BY DEF Store, HeldOnce
  <2> QED
    BY <2>1, <2>2 DEF HeldOnce
<1>2. Owned(m, R, W)
  BY DEF Store, Owned, IsValue, IsRaw
<1> QED
  BY <1>1, <1>2 DEF Store

\* Nothing but the counts differs.
Recounted(m, n) == \A a \in Addr : \E k : n.cells[a] = [m.cells[a] EXCEPT !.refs = k]
SameLife(m, n) == \A a : (Live(n, a) <=> Live(m, a)) /\ (IsValue(n, a) <=> IsValue(m, a))

\* The counts follow the variables.
LEMMA StoreRecount ==
    ASSUME NEW m, NEW T, NEW vs, NEW S, NEW V, Store(m, vs, S, V), NEW n, NEW ws,
           m \in Memory, Recounted(m, n), Counted(n, ws),
           \A a \in Addr : Unheld(n, a) /\ ~Unheld(m, a) => \A s \in S : V[s] # a
    PROVE  Store(n, ws, S, V)
<1>1. \A a \in Addr : /\ n.cells[a].type = m.cells[a].type
                      /\ n.cells[a].buf = m.cells[a].buf
                      /\ n.cells[a].isref = m.cells[a].isref
  BY ZenonT(40) DEF Memory, Cell, Recounted
<1>2. \A a : Live(n, a) <=> Live(m, a)
  BY <1>1 DEF Live
<1>3. HeldOnce(n, S, V)
  <2>1. \A s \in S : V[s] # NULL => V[s] \in Addr
    BY DEF Store, HeldOnce, Live
  <2> QED
    BY <1>1, <1>2, <2>1 DEF Store, HeldOnce
<1>4. \A a : (IsValue(n, a) <=> IsValue(m, a)) /\ (IsRaw(n, a) <=> IsRaw(m, a))
  BY <1>1, <1>2 DEF IsValue, IsRaw, Live
<1>5. Owned(n, S, V)
  BY <1>1, <1>2, <1>4 DEF Store, Owned
<1> QED
  BY <1>3, <1>5 DEF Store

\* A count one up, or one down.
Counting(m, a, k) == [m EXCEPT !.cells[a].refs = @ + k]

Elsewhere(m, n, a) == \A x \in Addr \ {a} : n.cells[x] = m.cells[x]

LEMMA CountingShape ==
    ASSUME NEW m \in Memory, NEW a \in Addr, NEW k \in Int, NEW n, n = Counting(m, a, k)
    PROVE  /\ n \in Memory /\ n.fault = m.fault /\ n.cells[a].refs = m.cells[a].refs + k
           /\ Elsewhere(m, n, a) /\ Recounted(m, n) /\ SameLife(m, n)
<1>1. m.cells[a] \in Cell /\ m.cells[a].refs \in Int
  BY DEF Memory, Cell
<1>2. /\ n.fault = m.fault /\ n.cells[a] = [m.cells[a] EXCEPT !.refs = @ + k]
      /\ \A x \in Addr \ {a} : n.cells[x] = m.cells[x]
  BY DEF Counting, Memory
<1>3. n \in Memory
  BY SMTT(30), <1>1 DEF Counting, Memory, Cell
<1>4. Recounted(m, n)
  <2> SUFFICES ASSUME NEW x \in Addr PROVE \E j : n.cells[x] = [m.cells[x] EXCEPT !.refs = j]
    BY DEF Recounted
  <2>1. CASE x = a
    <3>1. n.cells[x] = [m.cells[x] EXCEPT !.refs = m.cells[x].refs + k]
      BY <1>2, <2>1
    <3> QED
      BY <3>1
  <2>2. CASE x # a
    <3>1. m.cells[x] \in Cell
      BY DEF Memory
    <3>2. n.cells[x] = [m.cells[x] EXCEPT !.refs = m.cells[x].refs]
      BY <1>2, <2>2, <3>1 DEF Cell
    <3> QED
      BY <3>2
  <2> QED
    BY <2>1, <2>2
<1>5. \A x \in Addr : n.cells[x].type = m.cells[x].type
  BY <1>1, <1>2 DEF Memory, Cell
<1>6. n.cells[a].refs = m.cells[a].refs + k
  BY <1>1, <1>2 DEF Cell
<1>7. SameLife(m, n)
  BY <1>5 DEF Live, IsValue, SameLife
<1> QED
  BY <1>2, <1>3, <1>4, <1>6, <1>7 DEF Elsewhere

\* A value gets a variable more.
LEMMA StoreAdd ==
    ASSUME NEW m \in Memory, NEW T, NEW vs \in Seq(T), NEW S, NEW V, Store(m, vs, S, V),
           NEW ws \in Seq(T), NEW x, Longer(vs, ws, x), NEW v, v = x.val, IsValue(m, v),
           NEW n, n = AddReference(m, v)
    PROVE  /\ Store(n, ws, S, V) /\ n.fault = m.fault /\ n \in Memory
           /\ ~Unheld(n, v) /\ IsValue(n, v)
           /\ \A a \in Addr : Unheld(m, a) /\ a # v => Unheld(n, a)
<1>1. v \in Addr /\ Live(m, v)
  BY DEF IsValue, Live
<1>2. n = Counting(m, v, 1)
  BY <1>1 DEF AddReference, Counting
<1>3. ASSUME NEW a
      PROVE  /\ v = a => References(ws, a) = References(vs, a) + 1
             /\ v # a => References(ws, a) = References(vs, a)
             /\ References(vs, a) \in Nat
  BY CountLonger, CountType
<1>5. /\ n \in Memory /\ n.fault = m.fault /\ n.cells[v].refs = m.cells[v].refs + 1
      /\ (\A a \in Addr \ {v} : n.cells[a] = m.cells[a])
      /\ Recounted(m, n) /\ SameLife(m, n)
  <2>1. PICK k \in Int : k = 1
    OBVIOUS
  <2>2. n = Counting(m, v, k)
    BY <1>2, <2>1
  <2>3. n.cells[v].refs = m.cells[v].refs + k
    BY <1>1, <2>2, CountingShape
  <2>4. n \in Memory /\ n.fault = m.fault /\ Recounted(m, n) /\ SameLife(m, n)
    BY <1>1, <2>2, CountingShape
  <2>5. Elsewhere(m, n, v)
    BY <1>1, <2>2, CountingShape
  <2> QED
    BY <2>1, <2>3, <2>4, <2>5 DEF Elsewhere
<1>6. Counted(n, ws)
  <2>1. \A i \in DOMAIN ws : IsValue(m, ws[i].val)
    <3>1. \A i \in DOMAIN ws : (i \in DOMAIN vs /\ ws[i] = vs[i]) \/ ws[i] = x
      BY DEF Longer
    <3> QED
      BY <3>1 DEF Store, Counted
  <2>2. \A a \in Addr : Live(m, a) => n.cells[a].refs = References(ws, a)
    BY <1>3, <1>5 DEF Store, Counted, SameLife
  <2> QED
    BY <1>5, <2>1, <2>2 DEF Counted, SameLife
<1>7. ~Unheld(n, v)
  BY <1>1, <1>3, <1>5 DEF Store, Counted, Unheld
<1>8. \A a \in Addr : Unheld(n, a) => Unheld(m, a)
  BY <1>5, <1>7 DEF Unheld
<1>9. Store(n, ws, S, V)
  BY <1>5, <1>6, <1>8, StoreRecount
<1> QED
  BY <1>5, <1>7, <1>9 DEF Unheld, SameLife

\* What is left when the count of a value reaches zero is freed.
LEMMA StoreLast ==
    ASSUME NEW m \in Memory, NEW T, NEW vs \in Seq(T), NEW S, NEW V, Store(m, vs, S, V),
           NEW a \in Addr, IsValue(m, a), Unheld(m, a), \A s \in S : V[s] # a,
           NEW n, n = InstanceDestroy(m, a)
    PROVE  /\ Store(n, vs, S, V) /\ n.fault = m.fault
           /\ Releases(m, n)
<1> DEFINE b == m.cells[a].buf
<1>1. ~m.cells[a].isref /\ (b = NULL \/ (IsRaw(m, b) /\ b # a /\ b \in Addr))
  BY DEF Store, Owned, IsRaw, IsValue, Live
<1>2. /\ n.fault = m.fault
      /\ \E D \in SUBSET {a, m.cells[a].buf} : /\ a \in D /\ NULL \notin D
            /\ \A x \in Addr : n.cells[x] = IF x \in D THEN FreeCell ELSE m.cells[x]
  BY <1>1, DestroyShape
<1>3. PICK D \in SUBSET {a, b} : /\ a \in D /\ NULL \notin D
            /\ \A x \in Addr : n.cells[x] = IF x \in D THEN FreeCell ELSE m.cells[x]
  BY <1>2
<1>4. D \in SUBSET Addr
  BY <1>1, <1>3
<1>5. \A x \in D : Unheld(m, x)
  <2>1. IsRaw(m, b) => Unheld(m, b)
    BY UnheldRaw DEF Store
  <2> QED
    BY <1>1, <1>3, <2>1
<1>6. \A u \in S : V[u] \notin D
  <2>1. \A u \in S : V[u] # NULL => V[u] # b
    BY DEF Store, Owned, IsValue
  <2> QED
    BY <1>3, <2>1
<1>7. \A x \in Addr \ D : Live(m, x) => m.cells[x].buf \notin D
  <2> SUFFICES ASSUME NEW x \in Addr, x \notin D, Live(m, x), m.cells[x].buf \in D
               PROVE  FALSE
    OBVIOUS
  <2>1. m.cells[x].buf # NULL /\ IsRaw(m, m.cells[x].buf)
    BY <1>3 DEF Store, Owned
  <2>2. m.cells[x].buf # a
    BY <2>1 DEF IsRaw, IsValue
  <2>3. m.cells[x].buf = b /\ x # a
    BY <1>3, <2>2
  <2> QED
    BY <2>1, <2>3 DEF Store, Owned, IsValue
<1>8. Store(n, vs, S, V)
  BY <1>3, <1>4, <1>5, <1>6, <1>7, StoreFreed
<1>9. Releases(m, n)
  BY <1>3 DEF Unheld, FreeCell, NewCell, Releases, Spares
<1> QED
  BY <1>2, <1>8, <1>9

\* The last variable is dropped: nobody holds its value but another variable.
LEMMA StoreDrop ==
    ASSUME NEW m \in Memory, NEW T, NEW vs \in Seq(T), NEW ws \in Seq(T), NEW x,
           Longer(ws, vs, x), NEW v, v = x.val, NEW S, NEW V, Store(m, vs, S, V),
           Shared(S, V, ws, v),
           NEW n, n = RemoveReference(m, v)
    PROVE  /\ Store(n, ws, S, V) /\ n.fault = m.fault
           /\ Releases(m, n)
<1>1. IsValue(m, v) /\ Live(m, v) /\ v \in Addr
  <2>1. Len(ws) + 1 \in DOMAIN vs /\ vs[Len(ws) + 1] = x
    BY DEF Longer
  <2> QED
    BY <2>1 DEF Store, Counted, IsValue, Live
<1>2. ASSUME NEW a
      PROVE  /\ v = a => References(ws, a) = References(vs, a) - 1
             /\ v # a => References(ws, a) = References(vs, a)
             /\ References(vs, a) \in Nat /\ References(ws, a) \in Nat
             /\ References(ws, a) = 0 <=> \A i \in DOMAIN ws : ws[i].val # a
  <2>1. /\ x.val = a => References(vs, a) = References(ws, a) + 1
        /\ x.val # a => References(vs, a) = References(ws, a)
    BY CountLonger
  <2>2. References(vs, a) \in Nat
    BY CountType
  <2>3. References(ws, a) \in Nat /\ (References(ws, a) = 0 <=> \A i \in DOMAIN ws : ws[i].val # a)
    BY CountType
  <2> QED
    BY <2>1, <2>2, <2>3
<1>3. DOMAIN ws = 1 .. Len(ws) /\ \A i \in DOMAIN ws : i \in DOMAIN vs /\ ws[i] = vs[i]
  BY DEF Longer
<1> DEFINE k == Counting(m, v, -1)
<1>5. n = IF k.cells[v].refs <= 0 THEN InstanceDestroy(k, v) ELSE k
  <2>1. [m EXCEPT !.cells[v].refs = @ - 1] = k
    <3>1. m.cells[v].refs \in Int
      BY <1>1 DEF Memory, Cell
    <3>2. m.cells[v].refs - 1 = m.cells[v].refs + (-1)
      BY <3>1
    <3> QED
      BY <3>2 DEF Counting
  <2> QED
    BY <1>1, <2>1 DEF RemoveReference
<1>6. /\ k \in Memory /\ k.fault = m.fault /\ k.cells[v].refs = m.cells[v].refs + (-1)
      /\ (\A a \in Addr \ {v} : k.cells[a] = m.cells[a])
      /\ Recounted(m, k) /\ SameLife(m, k)
  <2>1. PICK j \in Int : j = -1
    OBVIOUS
  <2>2. k = Counting(m, v, j)
    BY <2>1
  <2> HIDE DEF k
  <2>3. k.cells[v].refs = m.cells[v].refs + j
    BY <1>1, <2>2, CountingShape
  <2>4. k \in Memory /\ k.fault = m.fault /\ Recounted(m, k) /\ SameLife(m, k)
    BY <1>1, <2>2, CountingShape
  <2>5. Elsewhere(m, k, v)
    BY <1>1, <2>2, CountingShape
  <2> QED
    BY <2>1, <2>3, <2>4, <2>5 DEF Elsewhere
<1> HIDE DEF k
<1>7. Counted(k, ws)
  <2>1. \A i \in DOMAIN ws : IsValue(k, ws[i].val)
    BY <1>3, <1>6 DEF Store, Counted, SameLife
  <2>2. ASSUME NEW a \in Addr, Live(m, a) PROVE k.cells[a].refs = References(ws, a)
    <3>1. m.cells[a].refs = References(vs, a)
      BY <2>2 DEF Store, Counted
    <3>2. CASE a = v
      BY <1>2, <1>6, <3>1, <3>2
    <3>3. CASE a # v
      BY <1>2, <1>6, <3>1, <3>3
    <3> QED
      BY <3>2, <3>3
  <2> QED
    BY <1>6, <2>1, <2>2 DEF Counted, SameLife
<1>8. m.cells[v].refs = References(vs, v) /\ m.cells[v].refs # 0
  BY <1>1, <1>2 DEF Store, Counted
<1>9. \A a \in Addr : Unheld(k, a) /\ ~Unheld(m, a) => \A s \in S : V[s] # a
  <2> SUFFICES ASSUME Unheld(k, v), NEW s \in S, V[s] = v PROVE FALSE
    BY <1>6 DEF Unheld
  <2>1. References(ws, v) = 0
    BY <1>1, <1>6, <1>7 DEF Counted, Unheld, SameLife
  <2> QED
    BY <1>2, <2>1 DEF Shared
<1>10. Store(k, ws, S, V)
  BY <1>6, <1>7, <1>9, StoreRecount
<1>11. Releases(m, k)
  BY <1>6, <1>8 DEF Unheld, Releases, Spares
<1>12. CASE k.cells[v].refs <= 0
  <2>1. Unheld(k, v)
    BY <1>1, <1>2, <1>6, <1>7, <1>12 DEF Counted, Unheld, SameLife
  <2>2. \A s \in S : V[s] # v
    BY <1>1, <1>8, <1>9, <2>1 DEF Unheld
  <2>3. IsValue(k, v) /\ n = InstanceDestroy(k, v) /\ k \in Memory
    BY <1>1, <1>5, <1>6, <1>12 DEF SameLife
  <2>4. Store(n, ws, S, V) /\ n.fault = k.fault
    BY <1>1, <1>10, <2>1, <2>2, <2>3, StoreLast
  <2>5. Releases(k, n)
    BY <1>1, <1>10, <2>1, <2>2, <2>3, StoreLast
  <2> QED
    BY <1>6, <1>11, <2>4, <2>5 DEF Releases, Spares
<1>13. CASE ~(k.cells[v].refs <= 0)
  BY <1>5, <1>6, <1>10, <1>11, <1>13
<1> QED
  BY <1>12, <1>13

\* A variable gets the value v: its old value is dropped, and nobody else holds
\* that but another variable.
LEMMA StoreAssign ==
    ASSUME NEW m \in Memory, NEW T, NEW vs \in Seq(T), NEW ws \in Seq(T), NEW i,
           Replaced(vs, ws, i),
           NEW old, old = vs[i].val, NEW v, v = ws[i].val, IsValue(m, v),
           NEW S, NEW V, Store(m, vs, S, V),
           Shared(S, V, ws, old),
           NEW held, held = AddReference(m, v), NEW n, n = RemoveReference(held, old)
    PROVE  /\ Store(n, ws, S, V) /\ n.fault = m.fault
           /\ ReleasesBut(m, n, v)
<1> DEFINE x == vs[i]
           y == ws[i]
<1>1. x \in T /\ y \in T /\ x.val = old /\ y.val = v /\ i \in DOMAIN ws
  BY DEF Replaced
<1>2. PICK us : us = Append(vs, y)
  OBVIOUS
<1>3. PICK us2 : us2 = Append(ws, x)
  OBVIOUS
<1>4. us \in Seq(T) /\ Longer(vs, us, y) /\ us2 \in Seq(T) /\ Longer(ws, us2, x)
  BY <1>1, <1>2, <1>3, AppendLonger
<1>5. ASSUME NEW a PROVE References(us2, a) = References(us, a)
  <2>1. /\ y.val = a => References(us, a) = References(vs, a) + 1
        /\ y.val # a => References(us, a) = References(vs, a)
        /\ References(vs, a) \in Nat
    BY <1>4, CountLonger, CountType
  <2>2. /\ x.val = a => References(us2, a) = References(ws, a) + 1
        /\ x.val # a => References(us2, a) = References(ws, a)
    BY <1>4, CountLonger
  <2>3. CASE old = v
    <3>1. Having(ws, a) = Having(vs, a)
      BY <2>3 DEF Having, Replaced
    <3>2. References(ws, a) = References(vs, a)
      BY <3>1 DEF References, Having
    <3> QED
      BY <1>1, <2>1, <2>2, <2>3, <3>2
  <2>4. CASE old # v
    <3>2. /\ a = v => References(ws, a) = References(vs, a) + 1
          /\ a = old => References(ws, a) = References(vs, a) - 1
          /\ a # v /\ a # old => References(ws, a) = References(vs, a)
      BY <2>4, CountReplace
    <3> QED
      BY <1>1, <2>1, <2>2, <2>4, <3>2
  <2> QED
    BY <2>3, <2>4
<1>6. /\ Store(held, us, S, V) /\ held.fault = m.fault /\ held \in Memory
      /\ ~Unheld(held, v) /\ IsValue(held, v)
  BY <1>1, <1>4, StoreAdd
<1>7. \A a \in Addr : Unheld(m, a) /\ a # v => Unheld(held, a)
  BY <1>1, <1>4, StoreAdd
<1>8. Store(held, us2, S, V)
  <2>1. \A j \in DOMAIN us2 : IsValue(held, us2[j].val)
    <3> SUFFICES ASSUME NEW j \in DOMAIN us2 PROVE IsValue(held, us2[j].val)
      OBVIOUS
    <3>1. DOMAIN vs = 1 .. Len(vs) /\ DOMAIN ws = 1 .. Len(ws) /\ Len(vs) = Len(ws)
      BY DEF Replaced
    <3>2. \A k \in DOMAIN vs : k \in DOMAIN us /\ us[k] = vs[k]
      BY <1>4, <3>1 DEF Longer
    <3>3. (j \in DOMAIN ws /\ us2[j] = ws[j]) \/ us2[j] = x
      BY <1>4, <3>1 DEF Longer
    <3>4. us2[j] = x \/ us2[j].val = v \/ (j \in DOMAIN vs /\ us2[j] = vs[j])
      BY <3>3 DEF Replaced
    <3> QED
      BY <1>1, <1>6, <3>2, <3>4 DEF Store, Counted, Replaced
  <2>2. Counted(held, us2)
    BY <1>5, <1>6, <2>1 DEF Store, Counted
  <2> QED
    BY <1>6, <2>2 DEF Store
<1>9. x.val = old /\ old = x.val
  BY <1>1
<1> HIDE DEF x, y
<1>10. Store(n, ws, S, V) /\ n.fault = held.fault
  BY <1>4, <1>6, <1>8, <1>9, StoreDrop
<1>11. Releases(held, n)
  BY <1>4, <1>6, <1>8, <1>9, StoreDrop
<1> QED
  BY <1>6, <1>7, <1>10, <1>11 DEF Releases, ReleasesBut

(***************************************************************************)
(* The holders after a step.                                               *)
(***************************************************************************)
LEMMA HolderIn ==
    ASSUME NEW s
    PROVE  s \in Holders <=>
              \/ \E n \in DOMAIN stack : \E k \in HeldAt(stack[n]) \cup {0} : s = <<n, k>>
              \/ phase = "run" /\ stack = <<>> /\ s = <<0, 1>>
<1>1. ASSUME NEW n \in DOMAIN stack, NEW k \in HeldAt(stack[n]) \cup {0}, s = <<n, k>>
      PROVE  s \in InFrames
  <2>1. s \in {n} \X (HeldAt(stack[n]) \cup {0})
    BY <1>1
  <2> QED
    BY <2>1 DEF InFrames
<1>2. s \in Returned <=> phase = "run" /\ stack = <<>> /\ s = <<0, 1>>
  BY DEF Returned
<1>3. ASSUME s \in InFrames
      PROVE  \E n \in DOMAIN stack : \E k \in HeldAt(stack[n]) \cup {0} : s = <<n, k>>
  BY <1>3 DEF InFrames
<1> QED
  BY <1>1, <1>2, <1>3 DEF Holders

LEMMA HeldAtType ==
    ASSUME NEW f \in Frame
    PROVE  HeldAt(f) \subseteq DOMAIN f.got /\ HeldAt(f) \subseteq Nat \ {0}
<1>1. f.got \in Seq(Pointers) /\ f.i \in Nat
  BY DEF Frame
<1>2. DOMAIN f.got = 1 .. Len(f.got) /\ Len(f.got) \in Nat
  BY <1>1
<1> QED
  BY <1>1, <1>2 DEF HeldAt

LEMMA FrameAt ==
    ASSUME TypeOK
    PROVE  /\ DOMAIN stack = 1 .. Len(stack) /\ Len(stack) \in Nat
           /\ \A n \in DOMAIN stack : stack[n] \in Frame
           /\ stack # <<>> => Len(stack) \in DOMAIN stack /\ Top = stack[Len(stack)] /\ Len(stack) >= 1
<1>1. stack \in Seq(Frame)
  BY DEF TypeOK
<1> QED
  BY <1>1 DEF Top

\* The running frame goes on as f, perhaps below a new one.
Moved(f) == \/ stack' = SetTop(f)
            \/ \E n, chain, b : stack' = Append(SetTop(f), NewFrame(n, chain, b))

LEMMA MovedShape ==
    ASSUME TypeOK, stack # <<>>, NEW f \in Frame, Moved(f)
    PROVE  /\ DOMAIN stack' \in {1 .. Len(stack), 1 .. Len(stack) + 1}
           /\ stack' # <<>>
           /\ \A j \in 1 .. Len(stack) - 1 : stack'[j] = stack[j]
           /\ stack'[Len(stack)] = f
           /\ Len(stack) + 1 \in DOMAIN stack' =>
                LET g == stack'[Len(stack) + 1]
                IN  g.pc = "start" /\ g.got = <<>> /\ g.blk = NULL
<1>1. PICK n \in Nat : n = Len(stack) /\ n >= 1
  BY FrameAt
<1>2. CASE stack' = SetTop(f)
  <2>1. /\ DOMAIN stack' = 1 .. n /\ Len(stack') = n
        /\ \A j \in 1 .. n : stack'[j] = IF j = n THEN f ELSE stack[j]
    BY <1>1, <1>2, SetTopShape
  <2> QED
    BY <1>1, <2>1
<1>3. CASE \E k, chain, b : stack' = Append(SetTop(f), NewFrame(k, chain, b))
  <2>1. PICK k, chain, b : stack' = Append(SetTop(f), NewFrame(k, chain, b))
    BY <1>3
  <2>2. PICK g : g = NewFrame(k, chain, b)
    OBVIOUS
  <2>3. g.pc = "start" /\ g.got = <<>> /\ g.blk = NULL
    BY <2>2 DEF NewFrame
  <2>4. stack' = Append(SetTop(f), g)
    BY <2>1, <2>2
  <2>5. /\ DOMAIN stack' = 1 .. Len(stack) + 1 /\ Len(stack') = Len(stack) + 1
        /\ \A j \in 1 .. Len(stack) : stack'[j] = IF j = Len(stack) THEN f ELSE stack[j]
        /\ stack'[Len(stack) + 1] = g
    BY <2>4, PushShape
  <2> QED
    BY <1>1, <2>3, <2>5
<1> QED
  BY <1>2, <1>3 DEF Moved

\* Who holds what then.
LEMMA HoldersMoved ==
    ASSUME TypeOK, stack # <<>>, NEW f \in Frame, Moved(f), NEW s \in Holders',
           NEW n, n = Len(stack)
    PROVE  \/ s \in Holders /\ s[1] \in 1 .. n - 1 /\ Holding(s)' = Holding(s)
           \/ s = <<n, 0>> /\ Holding(s)' = f.blk
           \/ \E k \in HeldAt(f) : s = <<n, k>> /\ Holding(s)' = f.got[k]
           \/ s = <<n + 1, 0>> /\ Holding(s)' = NULL
<1>1. n \in Nat /\ n >= 1 /\ DOMAIN stack = 1 .. n /\ \A j \in 1 .. n : stack[j] \in Frame
  BY FrameAt
<1>2. /\ DOMAIN stack' \in {1 .. n, 1 .. n + 1} /\ stack' # <<>>
      /\ \A j \in 1 .. n - 1 : stack'[j] = stack[j]
      /\ stack'[n] = f
      /\ n + 1 \in DOMAIN stack' =>
            LET g == stack'[n + 1] IN g.pc = "start" /\ g.got = <<>> /\ g.blk = NULL
  BY MovedShape
<1>3. PICK j \in DOMAIN stack' : \E k \in HeldAt(stack'[j]) \cup {0} : s = <<j, k>>
  BY <1>2 DEF Holders, InFrames, Returned
<1>4. PICK k \in HeldAt(stack'[j]) \cup {0} : s = <<j, k>>
  BY <1>3
<1>5. j \in 1 .. n - 1 \/ j = n \/ j = n + 1
  BY <1>1, <1>2
<1>6. s[1] = j /\ s[2] = k /\ j # 0
  BY <1>1, <1>2, <1>4
<1>7. Holding(s)' = IF k = 0 THEN stack'[j].blk ELSE stack'[j].got[k]
  BY <1>6 DEF Holding
<1>8. CASE j \in 1 .. n - 1
  <2>1. stack'[j] = stack[j] /\ j \in DOMAIN stack
    BY <1>1, <1>2, <1>8
  <2>2. s \in Holders
    BY <1>4, <2>1, HolderIn
  <2>3. Holding(s)' = Holding(s)
    BY <1>6, <1>7, <2>1 DEF Holding
  <2> QED
    BY <1>6, <1>8, <2>2, <2>3
<1>9. CASE j = n
  <2>1. HeldAt(f) \subseteq Nat \ {0}
    BY HeldAtType
  <2> QED
    BY <1>2, <1>4, <1>7, <1>9, <2>1
<1>10. CASE j = n + 1
  <2>1. HeldAt(stack'[j]) = {}
    BY <1>2, <1>3, <1>10 DEF HeldAt
  <2> QED
    BY <1>2, <1>3, <1>4, <1>7, <1>10, <2>1
<1> QED
  BY <1>5, <1>8, <1>9, <1>10

\* The holders below the running frame are kept, with what they hold.
Low(R, W) == \A s \in Holders : s[1] \in 1 .. Len(stack) - 1 => s \in R /\ W[s] = Holding(s)

LEMMA StoreMove ==
    ASSUME TypeOK, stack # <<>>, NEW f \in Frame, Moved(f), NEW m, NEW vs, NEW R, NEW W,
           Store(m, vs, R, W), Low(R, W), NEW n, n = Len(stack),
           f.blk = NULL \/ (<<n, 0>> \in R /\ W[<<n, 0>>] = f.blk),
           \A k \in HeldAt(f) : \/ f.got[k] = NULL
                                \/ <<n, k>> \in R /\ W[<<n, k>>] = f.got[k]
                                \/ IsValue(m, f.got[k]) /\ ~Unheld(m, f.got[k])
    PROVE  Store(m, vs, Holders', [s \in Holders' |-> Holding(s)'])
<1> DEFINE V == [s \in Holders' |-> Holding(s)']
           h == [s \in Holders' |-> s]
<1>1. ASSUME NEW t \in Holders'
      PROVE  \/ V[t] = NULL
             \/ t[2] # 0 /\ IsValue(m, V[t]) /\ ~Unheld(m, V[t])
             \/ h[t] \in R /\ V[t] = W[h[t]] /\ (t[2] = 0 <=> h[t][2] = 0)
  <2>0. V[t] = Holding(t)' /\ h[t] = t
    OBVIOUS
  <2>1. \/ t \in Holders /\ t[1] \in 1 .. n - 1 /\ Holding(t)' = Holding(t)
        \/ t = <<n, 0>> /\ Holding(t)' = f.blk
        \/ \E k \in HeldAt(f) : t = <<n, k>> /\ Holding(t)' = f.got[k]
        \/ t = <<n + 1, 0>> /\ Holding(t)' = NULL
    BY HoldersMoved
  <2> HIDE DEF V, h
  <2>2. CASE t \in Holders /\ t[1] \in 1 .. n - 1 /\ Holding(t)' = Holding(t)
    BY <2>0, <2>2 DEF Low
  <2>3. CASE t = <<n, 0>> /\ Holding(t)' = f.blk
    BY <2>0, <2>3
  <2>4. CASE \E k \in HeldAt(f) : t = <<n, k>> /\ Holding(t)' = f.got[k]
    <3>1. PICK k \in HeldAt(f) : t = <<n, k>> /\ Holding(t)' = f.got[k]
      BY <2>4
    <3>2. t[2] # 0
      BY <3>1, HeldAtType
    <3> QED
      BY <2>0, <3>1, <3>2
  <2> QED
    BY <2>0, <2>1, <2>2, <2>3, <2>4
<1>2. \A t, u \in Holders' : h[t] = h[u] => t = u
  OBVIOUS
<1> HIDE DEF V, h
<1>3. Store(m, vs, Holders', V)
  BY <1>1, <1>2, StoreMoved
<1> QED
  BY <1>3 DEF V

\* What is below the running frame is as it should be.
Under == \A j \in 1 .. Len(stack) - 1 : Proper(mem', variables'.insts, stack[j])

\* The running frame goes on.
LEMMA MoveKept ==
    ASSUME TypeOK, TypeOK', stack # <<>>, NEW f, Moved(f), NEW R, NEW W,
           Store(mem', variables'.insts, R, W), Low(R, W), NEW n, n = Len(stack),
           f.blk = NULL \/ (<<n, 0>> \in R /\ W[<<n, 0>>] = f.blk),
           \A k \in HeldAt(f) : \/ f.got[k] = NULL
                                \/ <<n, k>> \in R /\ W[<<n, k>>] = f.got[k]
                                \/ IsValue(mem', f.got[k]) /\ ~Unheld(mem', f.got[k]),
           Under, Proper(mem', variables'.insts, f)
    PROVE  Kept'
<1>1. n \in Nat /\ n >= 1
  BY FrameAt
<1>2. /\ stack' # <<>> /\ stack'[n] = f /\ n \in DOMAIN stack'
      /\ DOMAIN stack' \in {1 .. n, 1 .. n + 1}
      /\ \A j \in 1 .. n - 1 : stack'[j] = stack[j]
      /\ n + 1 \in DOMAIN stack' => stack'[n + 1].pc = "start" /\ stack'[n + 1].got = <<>>
  <2>1. CASE stack' = SetTop(f)
    <3>1. /\ DOMAIN stack' = 1 .. n /\ Len(stack') = n
          /\ \A j \in 1 .. n : stack'[j] = IF j = n THEN f ELSE stack[j]
      BY <2>1, SetTopShape
    <3> QED
      BY <1>1, <3>1
  <2>2. CASE \E k, chain, b : stack' = Append(SetTop(f), NewFrame(k, chain, b))
    <3>1. PICK k, chain, b : stack' = Append(SetTop(f), NewFrame(k, chain, b))
      BY <2>2
    <3>2. PICK g : g = NewFrame(k, chain, b)
      OBVIOUS
    <3>3. g.pc = "start" /\ g.got = <<>>
      BY <3>2 DEF NewFrame
    <3>4. /\ DOMAIN stack' = 1 .. Len(stack) + 1 /\ Len(stack') = Len(stack) + 1
          /\ \A j \in 1 .. Len(stack) : stack'[j] = IF j = Len(stack) THEN f ELSE stack[j]
          /\ stack'[Len(stack) + 1] = g
      BY <3>1, <3>2, PushShape
    <3> QED
      BY <1>1, <3>3, <3>4
  <2> QED
    BY <2>1, <2>2 DEF Moved
<1>3. f \in Frame
  BY SMTT(30), <1>2 DEF TypeOK
<1>4. Store(mem', variables'.insts, Holders', [s \in Holders' |-> Holding(s)'])
  BY <1>3, StoreMove
<1>5. ASSUME NEW j \in DOMAIN stack'
      PROVE  Proper(mem', variables'.insts, stack'[j])
  <2>1. CASE j \in 1 .. n - 1
    <3>1. stack'[j] = stack[j] /\ j \in 1 .. Len(stack) - 1
      BY <1>2, <2>1
    <3>2. Proper(mem', variables'.insts, stack[j])
      BY <3>1 DEF Under
    <3> QED
      BY <3>1, <3>2
  <2>2. CASE j = n
    BY <1>2, <2>2
  <2>3. CASE j = n + 1
    <3>1. PICK g : g = stack'[j]
      OBVIOUS
    <3>2. g.pc = "start" /\ g.got = <<>>
      BY <1>2, <1>5, <2>3, <3>1
    <3>3. DOMAIN g.got = {}
      BY <3>2
    <3>4. Proper(mem', variables'.insts, g)
      BY <3>2, <3>3 DEF Proper
    <3> QED
      BY <3>1, <3>4
  <2> QED
    BY <1>1, <1>2, <2>1, <2>2, <2>3
<1> QED
  BY <1>2, <1>4, <1>5 DEF Kept

\* The running frame gives v to the one below it.
LEMMA HoldersPopped ==
    ASSUME TypeOK, stack # <<>>, NEW v, Return(v), NEW s \in Holders', NEW n, n = Len(stack),
           \A j \in 1 .. n - 1 : stack[j].pc # "drop"
    PROVE  \/ s \in Holders /\ s[1] \in 1 .. n - 1 /\ Holding(s)' = Holding(s)
           \/ /\ s[2] # 0 /\ Holding(s)' = v /\ ~(s \in Holders /\ s[1] \in 1 .. n - 1)
              /\ \A t \in Holders' : t = s \/ (t \in Holders /\ t[1] \in 1 .. n - 1)
<1>1. n \in Nat /\ n >= 1 /\ DOMAIN stack = 1 .. n /\ stack \in Seq(Frame)
      /\ \A j \in 1 .. n : stack[j] \in Frame
  BY FrameAt DEF TypeOK
<1>2. CASE n = 1
  <2>1. stack' = <<>> /\ result' = v
    BY <1>2 DEF Return
  <2>2. DOMAIN stack' = {}
    BY <2>1
  <2>3. \A t \in Holders' : t = <<0, 1>>
    BY <2>2 DEF Holders, InFrames, Returned
  <2>4. Holding(s)' = v
    BY <2>1, <2>3 DEF Holding
  <2>5. s[1] = 0 /\ s[2] # 0
    BY <2>3
  <2> QED
    BY <1>2, <2>3, <2>4, <2>5
<1>3. CASE n # 1
  <2> DEFINE k == Len(stack[n - 1].got) + 1
  <2>0. Len(stack) # 0 /\ Len(stack) # 1 /\ Len(stack) - 1 # 0
    BY <1>1, <1>3
  <2>1. stack' = Popped(stack, v)
    BY <2>0 DEF Return, Popped
  <2>2. /\ DOMAIN stack' = 1 .. n - 1 /\ stack' # <<>>
        /\ \A j \in 1 .. n - 1 : stack'[j] = IF j = n - 1 THEN Given(stack[j], v) ELSE stack[j]
    <3>1. /\ Len(stack') = Len(stack) - 1 /\ DOMAIN stack' = 1 .. Len(stack) - 1
          /\ \A j \in 1 .. Len(stack) - 1 :
                stack'[j] = IF j = Len(stack) - 1 THEN Given(stack[j], v) ELSE stack[j]
      <4>1. stack \in Seq(Frame)
        BY <1>1
      <4> QED
        BY <2>0, <2>1, <4>1, PopNext
    <3> QED
      BY <1>1, <1>3, <3>1
  <2>3. PICK p \in Frame : p = stack[n - 1]
    BY <1>1, <1>3
  <2>4. p.got \in Seq(Pointers)
    BY DEF Frame
  <2>5. PICK q : q = stack'[n - 1]
    OBVIOUS
  <2>6. q = [p EXCEPT !.got = Append(p.got, v)] /\ p.pc # "drop"
    <3>1. n - 1 \in 1 .. n - 1
      BY <1>1, <1>3
    <3>2. q = Given(p, v)
      BY <2>2, <2>3, <2>5, <3>1
    <3> QED
      BY <2>3, <3>1, <3>2 DEF Given
  <2>7. q.pc = p.pc /\ q.got = Append(p.got, v) /\ q.blk = p.blk
    BY <2>6 DEF Frame
  <2>8. PICK u : u = Append(p.got, v)
    OBVIOUS
  <2>9. DOMAIN u = 1 .. k /\ u[k] = v /\ DOMAIN p.got = 1 .. k - 1
        /\ \A i \in 1 .. k - 1 : u[i] = p.got[i]
    <3> DEFINE T == Pointers \cup {v}
    <3>1. p.got \in Seq(T) /\ v \in T
      BY <2>4
    <3> HIDE DEF T
    <3> QED
      BY <2>3, <2>8, <3>1
  <2>10. k \in Nat \ {0}
    BY <2>3, <2>4
  <2>11. HeldAt(q) = 1 .. k /\ HeldAt(p) = 1 .. k - 1
    BY <2>6, <2>7, <2>8, <2>9 DEF HeldAt
  <2> HIDE DEF k
  <2>12. ASSUME NEW t \in Holders'
         PROVE  \/ t \in Holders /\ t[1] \in 1 .. n - 1 /\ Holding(t)' = Holding(t)
                \/ t = <<n - 1, k>> /\ Holding(t)' = v
    <3>1. PICK j \in DOMAIN stack' : \E i \in HeldAt(stack'[j]) \cup {0} : t = <<j, i>>
      BY <2>2 DEF Holders, InFrames, Returned
    <3>2. PICK i \in HeldAt(stack'[j]) \cup {0} : t = <<j, i>>
      BY <3>1
    <3>3. t[1] = j /\ t[2] = i /\ j # 0 /\ j \in 1 .. n - 1
      BY <1>1, <2>2, <3>2
    <3>4. Holding(t)' = IF i = 0 THEN stack'[j].blk ELSE stack'[j].got[i]
      BY <3>3 DEF Holding
    <3>5. Holding(t) = IF i = 0 THEN stack[j].blk ELSE stack[j].got[i]
      BY <3>3 DEF Holding
    <3>6. CASE j # n - 1
      <4>1. stack'[j] = stack[j] /\ j \in DOMAIN stack
        BY <1>1, <2>2, <3>3, <3>6
      <4>2. t \in Holders
        BY <3>2, <4>1, HolderIn
      <4> QED
        BY <3>3, <3>4, <3>5, <4>1, <4>2
    <3>7. CASE j = n - 1 /\ i # k
      <4>1. i \in HeldAt(p) \cup {0} /\ j \in DOMAIN stack /\ stack[j] = p
        BY <1>1, <2>3, <2>5, <2>10, <2>11, <3>2, <3>3, <3>7
      <4>2. t \in Holders
        BY <3>2, <4>1, HolderIn
      <4>3. i # 0 => i \in 1 .. k - 1
        BY <2>11, <4>1
      <4>4. stack'[j] = q /\ q.blk = p.blk /\ q.got = u
        BY <2>5, <2>7, <2>8, <3>7
      <4>5. i # 0 => u[i] = p.got[i]
        BY <2>9, <4>3
      <4>6. Holding(t)' = Holding(t)
        BY <3>4, <3>5, <4>1, <4>4, <4>5
      <4> QED
        BY <3>3, <4>2, <4>6
    <3>8. CASE j = n - 1 /\ i = k
      BY <2>5, <2>7, <2>8, <2>9, <2>10, <3>2, <3>4, <3>8
    <3> QED
      BY <3>6, <3>7, <3>8
  <2>13. \/ s \in Holders /\ s[1] \in 1 .. n - 1 /\ Holding(s)' = Holding(s)
         \/ s = <<n - 1, k>> /\ Holding(s)' = v
    BY <2>12
  <2>14. <<n - 1, k>>[2] # 0
    BY <2>10
  <2>15. <<n - 1, k>> \notin Holders
    <3>1. ASSUME NEW j \in DOMAIN stack, NEW i \in HeldAt(stack[j]) \cup {0}, <<n - 1, k>> = <<j, i>>
          PROVE  FALSE
      <4>1. j = n - 1 /\ i = k
        BY <3>1
      <4> QED
        BY <2>3, <2>10, <2>11, <4>1
    <3> QED
      BY <3>1, HolderIn
  <2> QED
    BY <2>12, <2>13, <2>14, <2>15
<1> QED
  BY <1>2, <1>3

\* Where the value that is given was.
Source(R, W, n, v) == {t \in R : t[2] # 0 /\ t[1] \notin 1 .. n - 1 /\ W[t] = v}

LEMMA StorePop ==
    ASSUME TypeOK, stack # <<>>, NEW v, Return(v), NEW m, NEW vs, NEW R, NEW W,
           Store(m, vs, R, W), Low(R, W), NEW n, n = Len(stack),
           \A j \in 1 .. n - 1 : stack[j].pc # "drop",
           \/ v = NULL
           \/ IsValue(m, v) /\ ~Unheld(m, v)
           \/ Source(R, W, n, v) # {}
    PROVE  Store(m, vs, Holders', [s \in Holders' |-> Holding(s)'])
<1>0. PICK x : /\ Source(R, W, n, v) # {} => x \in Source(R, W, n, v)
               /\ Source(R, W, n, v) = {} => x = <<n, 0>>
  <2>1. CASE Source(R, W, n, v) = {}
    BY <2>1
  <2>2. CASE Source(R, W, n, v) # {}
    BY <2>2
  <2> QED
    BY <2>1, <2>2
<1>1. x[1] \notin 1 .. n - 1
  <2>1. n \in Nat
    BY FrameAt
  <2> QED
    BY <1>0, <2>1 DEF Source
<1> DEFINE V == [s \in Holders' |-> Holding(s)']
           below(s) == s \in Holders /\ s[1] \in 1 .. n - 1
           h == [s \in Holders' |-> IF below(s) THEN s ELSE x]
<1>2. ASSUME NEW t \in Holders'
      PROVE  /\ V[t] = Holding(t)' /\ h[t] = IF below(t) THEN t ELSE x
             /\ \/ below(t) /\ Holding(t)' = Holding(t)
                \/ /\ ~below(t) /\ t[2] # 0 /\ Holding(t)' = v
                   /\ \A u \in Holders' : t = u \/ below(u)
  <2>1. \/ t \in Holders /\ t[1] \in 1 .. n - 1 /\ Holding(t)' = Holding(t)
        \/ /\ t[2] # 0 /\ Holding(t)' = v /\ ~(t \in Holders /\ t[1] \in 1 .. n - 1)
           /\ \A u \in Holders' : u = t \/ (u \in Holders /\ u[1] \in 1 .. n - 1)
    BY HoldersPopped
  <2> QED
    BY <2>1
<1> HIDE DEF V, h
<1>3. ASSUME NEW t \in Holders'
      PROVE  \/ V[t] = NULL
             \/ t[2] # 0 /\ IsValue(m, V[t]) /\ ~Unheld(m, V[t])
             \/ h[t] \in R /\ V[t] = W[h[t]] /\ (t[2] = 0 <=> h[t][2] = 0)
  <2>1. CASE below(t)
    BY <1>2, <2>1 DEF Low
  <2>2. CASE ~below(t)
    <3>1. V[t] = v /\ h[t] = x /\ t[2] # 0
      BY <1>2, <2>2
    <3>2. CASE Source(R, W, n, v) # {}
      <4>1. x \in R /\ x[2] # 0 /\ W[x] = v
        BY <1>0, <3>2 DEF Source
      <4> QED
        BY <3>1, <4>1
    <3> QED
      BY <3>1, <3>2
  <2> QED
    BY <2>1, <2>2
<1>4. ASSUME NEW t \in Holders', NEW u \in Holders', h[t] = h[u]
      PROVE  t = u
  <2>1. CASE below(t) /\ below(u)
    BY <1>2, <1>4, <2>1
  <2>2. CASE below(t) /\ ~below(u)
    BY <1>1, <1>2, <1>4, <2>2
  <2>3. CASE ~below(t) /\ below(u)
    BY <1>1, <1>2, <1>4, <2>3
  <2>4. CASE ~below(t) /\ ~below(u)
    BY <1>2, <2>4
  <2> QED
    BY <2>1, <2>2, <2>3, <2>4
<1>5. Store(m, vs, Holders', V)
  BY <1>3, <1>4, StoreMoved
<1> QED
  BY <1>5 DEF V

\* What the frame below may be given.
Welcome(v) == \/ Loose(mem', v)
              \/ /\ Len(stack) # 1 /\ ~Fresh(stack[Len(stack) - 1])
                 /\ stack[Len(stack) - 1].node.kind \in Operators =>
                        Sees(variables'.insts, stack[Len(stack) - 1], v)

LEMMA GivenProper ==
    ASSUME NEW m, NEW vs, NEW f \in Frame, Proper(m, vs, f), NEW v, NEW h, h = Given(f, v),
           \/ Loose(m, v)
           \/ ~Fresh(f) /\ (f.node.kind \in Operators => Sees(vs, f, v))
    PROVE  Proper(m, vs, h)
<1>1. PICK u : u = Append(f.got, v)
  OBVIOUS
<1>2. /\ h.node = f.node /\ h.pc = f.pc /\ h.i = f.i /\ h.chain = f.chain /\ h.got = u
  BY <1>1 DEF Given, Frame
<1>3. \A k \in DOMAIN u : u[k] = v \/ (k \in DOMAIN f.got /\ u[k] = f.got[k])
  <2> DEFINE T == Pointers \cup {v}
  <2>1. f.got \in Seq(T) /\ v \in T
    BY DEF Frame
  <2> HIDE DEF T
  <2> QED
    BY <1>1, <2>1
<1>4. Fresh(h) <=> Fresh(f)
  BY <1>2 DEF Fresh, InAt
<1>5. ASSUME NEW w
      PROVE  Sees(vs, h, w) <=> Sees(vs, f, w)
  BY <1>2 DEF Sees
<1>6. h.pc \notin {"slot", "target", "unwind"}
  BY <1>2 DEF Proper
<1>7. ASSUME Fresh(f), NEW k \in DOMAIN h.got
      PROVE  Loose(m, h.got[k])
  <2>1. \A j \in DOMAIN f.got : Loose(m, f.got[j])
    BY <1>7 DEF Proper
  <2>2. Loose(m, v)
    BY <1>7
  <2> QED
    BY <1>2, <1>3, <2>1, <2>2
<1>8. ASSUME f.node.kind \in Operators, NEW k \in DOMAIN h.got
      PROVE  Loose(m, h.got[k]) \/ Sees(vs, h, h.got[k])
  <2>1. \A j \in DOMAIN f.got : Loose(m, f.got[j]) \/ Sees(vs, f, f.got[j])
    BY <1>8 DEF Proper
  <2>2. Loose(m, v) \/ Sees(vs, f, v)
    BY <1>8
  <2>3. \/ h.got[k] = v
        \/ \E j \in DOMAIN f.got : h.got[k] = f.got[j]
    BY <1>2, <1>3
  <2> QED
    BY <1>5, <2>1, <2>2, <2>3
<1> QED
  BY <1>2, <1>4, <1>6, <1>7, <1>8 DEF Proper

\* The running frame returns.
LEMMA PopKept ==
    ASSUME TypeOK, stack # <<>>, NEW v, Return(v), NEW R, NEW W,
           Store(mem', variables'.insts, R, W), Low(R, W), NEW n, n = Len(stack),
           \A j \in 1 .. n - 1 : stack[j].pc # "drop",
           \/ v = NULL
           \/ IsValue(mem', v) /\ ~Unheld(mem', v)
           \/ Source(R, W, n, v) # {},
           Under, Welcome(v)
    PROVE  Kept'
<1>1. n \in Nat /\ n >= 1 /\ DOMAIN stack = 1 .. n /\ stack \in Seq(Frame)
      /\ \A j \in 1 .. n : stack[j] \in Frame
  BY FrameAt DEF TypeOK
<1>2. Store(mem', variables'.insts, Holders', [s \in Holders' |-> Holding(s)'])
  BY StorePop
<1>3. CASE n = 1
  <2>1. stack' = <<>> /\ result' = v
    BY <1>3 DEF Return
  <2>2. DOMAIN stack' = {}
    BY <2>1
  <2>3. Loose(mem', v)
    BY <1>3 DEF Welcome
  <2> QED
    BY <1>2, <2>1, <2>2, <2>3 DEF Kept
<1>4. CASE n # 1
  <2>0. Len(stack) # 0 /\ Len(stack) # 1 /\ Len(stack) - 1 # 0
    BY <1>1, <1>4
  <2>1. stack' = Popped(stack, v)
    BY <2>0 DEF Return, Popped
  <2>2. /\ DOMAIN stack' = 1 .. n - 1 /\ stack' # <<>>
        /\ \A j \in 1 .. n - 1 : stack'[j] = IF j = n - 1 THEN Given(stack[j], v) ELSE stack[j]
    <3>1. /\ Len(stack') = Len(stack) - 1 /\ DOMAIN stack' = 1 .. Len(stack) - 1
          /\ \A j \in 1 .. Len(stack) - 1 :
                stack'[j] = IF j = Len(stack) - 1 THEN Given(stack[j], v) ELSE stack[j]
      <4>1. stack \in Seq(Frame)
        BY <1>1
      <4> QED
        BY <2>0, <2>1, <4>1, PopNext
    <3> QED
      BY <1>1, <1>4, <3>1
  <2>3. ASSUME NEW j \in DOMAIN stack'
        PROVE  Proper(mem', variables'.insts, stack'[j])
    <3>1. Proper(mem', variables'.insts, stack[j]) /\ j \in 1 .. n - 1
      BY <2>2 DEF Under
    <3>2. CASE j = n - 1
      <4>1. PICK f \in Frame : f = stack[j]
        BY <1>1, <3>1
      <4>2. PICK h : h = Given(f, v)
        OBVIOUS
      <4>3. \/ Loose(mem', v)
            \/ ~Fresh(f) /\ (f.node.kind \in Operators => Sees(variables'.insts, f, v))
        BY <3>2, <4>1 DEF Welcome
      <4>4. Proper(mem', variables'.insts, f)
        BY <3>1, <4>1
      <4>5. Proper(mem', variables'.insts, h)
        BY <4>2, <4>3, <4>4, GivenProper
      <4> QED
        BY <2>2, <3>1, <3>2, <4>1, <4>2, <4>5
    <3>3. CASE j # n - 1
      BY <2>2, <3>1, <3>3
    <3> QED
      BY <3>2, <3>3
  <2> QED
    BY <1>2, <2>2, <2>3 DEF Kept
<1> QED
  BY <1>3, <1>4

(***************************************************************************)
(* A step of a plain program in which nothing fails.                       *)
(***************************************************************************)
Calmly(quiet) == /\ TypeOK /\ TypeOK' /\ Plain(quiet) /\ Core(quiet) /\ Kept /\ Steady
                 /\ ~failed' /\ failures' = 0

\* What it is to show.
Safely == Unfreed(mem') /\ (mem'.fault = "none" => Kept')

Held0 == [s \in Holders |-> Holding(s)]

LEMMA BelowWaits ==
    ASSUME TypeOK, NEW quiet, Core(quiet), NEW j \in 1 .. Len(stack) - 1
    PROVE  /\ stack[j].pc # "drop" /\ HeldAt(stack[j]) = DOMAIN stack[j].got
           /\ WaitsFor(stack[j], stack[j + 1])
           /\ \A k \in DOMAIN stack[j].got :
                \/ stack[j].node.kind \in Operators \/ Fresh(stack[j])
                \/ stack[j].pc = "target"
<1>1. DOMAIN stack = 1 .. Len(stack) /\ Len(stack) \in Nat
  BY FrameAt
<1>2. j \in DOMAIN stack /\ j + 1 \in DOMAIN stack
  BY <1>1
<1>3. PICK f \in Frame : f = stack[j]
  BY <1>2 DEF TypeOK
<1>4. WaitsFor(f, stack[j + 1])
  BY <1>2, <1>3 DEF Core, Stacked, Frames
<1>5. f.pc # "drop"
  BY <1>4 DEF WaitsFor, Waits, InAt, Pair
<1>6. HeldAt(f) = DOMAIN f.got
  BY <1>5 DEF HeldAt
<1>7. f.got # <<>> => \/ f.node.kind \in Operators \/ Fresh(f)
                      \/ f.pc = "target"
  <2>1. f.got # <<>> => \/ InAt(f, {"call"}, "arguments") \/ InAt(f, Pair, "right")
                        \/ InAt(f, {"return"}, "body") \/ InAt(f, {"assign"}, "target")
    <3>1. f.got # <<>> => \E k : Waits(f, k)
      BY <1>4 DEF WaitsFor
    <3> QED
      BY <3>1 DEF Waits
  <2> QED
    BY <2>1 DEF InAt, Pair, Operators, Fresh
<1>8. \A k \in DOMAIN f.got : f.got # <<>>
  OBVIOUS
<1> QED
  BY <1>3, <1>4, <1>5, <1>6, <1>7, <1>8

\* The running activation and the memory.
LEMMA CalmFacts ==
    ASSUME NEW quiet, Calmly(quiet), Running
    PROVE  /\ stack # <<>> /\ Top \in Frame /\ Top.node \in Node /\ Ready(Top, quiet)
           /\ Parsed(Top.node) /\ PlainNode(Top.node) /\ Tame(quiet)
           /\ Top.got \in Seq(Pointers)
           /\ Store(mem, variables.insts, Holders, Held0)
           /\ Proper(mem, variables.insts, Top)
           /\ mem \in Memory /\ mem' \in Memory /\ mem.fault = "none" /\ Unfreed(mem)
           /\ variables.insts \in Seq(VariableInstance)
           /\ \A j \in 1 .. Len(stack) - 1 : stack[j].pc # "drop"
<1>1. TypeOK /\ TypeOK' /\ Plain(quiet) /\ Core(quiet) /\ Kept /\ mem.fault = "none"
  BY DEF Calmly, Steady, Sane
<1>2. Tame(quiet)
  BY <1>1 DEF Plain
<1>3. /\ stack # <<>> /\ Top \in Frame /\ Top.node \in Node /\ Ready(Top, quiet)
      /\ Parsed(Top.node)
  BY <1>1, <1>2, TopFacts
<1>4. PlainNode(Top.node)
  BY <1>1, <1>3 DEF Plain
<1>5. Top.got \in Seq(Pointers)
  BY <1>3 DEF Frame
<1>6. Store(mem, variables.insts, Holders, Held0)
  BY <1>1 DEF Kept, Held0
<1>7. Proper(mem, variables.insts, Top)
  BY <1>1, <1>3, FrameAt DEF Kept
<1>8. mem \in Memory /\ mem' \in Memory /\ variables.insts \in Seq(VariableInstance)
  BY <1>1 DEF TypeOK
<1>9. Unfreed(mem)
  BY <1>1 DEF Unfreed
<1> QED
  BY <1>1, <1>2, <1>3, <1>4, <1>5, <1>6, <1>7, <1>8, <1>9, BelowWaits

LEMMA SlotIn ==
    ASSUME NEW quiet, Calmly(quiet), Running, NEW k \in HeldAt(Top) \cup {0}
    PROVE  /\ <<Len(stack), k>> \in Holders
           /\ Held0[<<Len(stack), k>>] = IF k = 0 THEN Top.blk ELSE Top.got[k]
<1>1. TypeOK /\ stack # <<>>
  BY CalmFacts DEF Calmly
<1>2. Len(stack) \in DOMAIN stack /\ Top = stack[Len(stack)] /\ Len(stack) # 0
  BY <1>1, FrameAt
<1>3. <<Len(stack), k>> \in Holders
  BY <1>2, HolderIn
<1>4. PICK s : s = <<Len(stack), k>>
  OBVIOUS
<1>5. s[1] = Len(stack) /\ s[2] = k
  BY <1>4
<1>6. Holding(s) = IF k = 0 THEN Top.blk ELSE Top.got[k]
  BY <1>2, <1>5 DEF Holding
<1> QED
  BY <1>3, <1>4, <1>6 DEF Held0

LEMMA ProperKept ==
    ASSUME NEW m, NEW n, Releases(m, n), NEW vs, NEW f \in Frame, Proper(m, vs, f)
    PROVE  Proper(n, vs, f)
<1>1. f.got \in Seq(Pointers)
  BY DEF Frame
<1>2. \A k \in DOMAIN f.got : f.got[k] \in Pointers
  BY <1>1
<1>3. ASSUME NEW v \in Pointers, Loose(m, v)
      PROVE  Loose(n, v)
  BY <1>3 DEF Loose, Releases, Pointers
<1> QED
  BY <1>2, <1>3 DEF Proper

LEMMA UnderKept ==
    ASSUME NEW quiet, Calmly(quiet), Running, UNCHANGED variables, Releases(mem, mem')
    PROVE  Under
<1>1. ASSUME NEW j \in 1 .. Len(stack) - 1
      PROVE  Proper(mem', variables'.insts, stack[j])
  <2>1. j \in DOMAIN stack /\ stack[j] \in Frame
    BY FrameAt DEF Calmly
  <2>2. Proper(mem, variables.insts, stack[j])
    BY <2>1 DEF Calmly, Kept
  <2> QED
    BY <2>1, <2>2, ProperKept
<1> QED
  BY <1>1 DEF Under

LEMMA SameReleases ==
    ASSUME NEW m, NEW n, n.cells = m.cells
    PROVE  Releases(m, n)
BY DEF Releases, Unheld

\* What the running frame f keeps of the results it had.
Keeping(f, R) ==
    /\ f.blk = NULL \/ (f.blk = Top.blk /\ <<Len(stack), 0>> \in R)
    /\ \A k \in HeldAt(f) : /\ k \in HeldAt(Top) /\ f.got[k] = Top.got[k]
                            /\ f.got[k] = NULL \/ <<Len(stack), k>> \in R

\* The holders R are left, those of the frames below among them.
Lower(R) == R \subseteq Holders /\ \A s \in Holders : s[1] \in 1 .. Len(stack) - 1 => s \in R

\* The running frame goes on with some of its results.
LEMMA GoOn ==
    ASSUME NEW quiet, Calmly(quiet), Running, NEW f, Moved(f), UNCHANGED variables,
           Releases(mem, mem'), NEW R, Lower(R), Store(mem', variables.insts, R, Held0),
           Keeping(f, R), Proper(mem', variables.insts, f)
    PROVE  Kept'
<1>1. TypeOK /\ TypeOK' /\ stack # <<>>
  BY CalmFacts DEF Calmly
<1>2. Low(R, Held0)
  BY DEF Low, Lower, Held0
<1>3. Under
  BY UnderKept
<1>4. f.blk = NULL \/ (<<Len(stack), 0>> \in R /\ Held0[<<Len(stack), 0>>] = f.blk)
  BY SlotIn DEF Keeping
<1>5. ASSUME NEW k \in HeldAt(f)
      PROVE  \/ f.got[k] = NULL
             \/ <<Len(stack), k>> \in R /\ Held0[<<Len(stack), k>>] = f.got[k]
  <2>1. k \in HeldAt(Top) /\ f.got[k] = Top.got[k]
        /\ (f.got[k] = NULL \/ <<Len(stack), k>> \in R)
    BY DEF Keeping
  <2>2. k # 0
    BY <2>1, CalmFacts, HeldAtType
  <2>3. Held0[<<Len(stack), k>>] = Top.got[k]
    BY <2>1, <2>2, SlotIn
  <2> QED
    BY <2>1, <2>3
<1>6. Store(mem', variables'.insts, R, Held0) /\ Proper(mem', variables'.insts, f)
  OBVIOUS
<1> HIDE DEF Held0
<1> QED
  BY <1>1, <1>2, <1>3, <1>4, <1>5, <1>6, MoveKept

\* Nothing happens to the memory.
LEMMA GoOnSame ==
    ASSUME NEW quiet, Calmly(quiet), Running, NEW f, Moved(f), UNCHANGED <<variables, mem>>,
           Keeping(f, Holders), Proper(mem, variables.insts, f)
    PROVE  Safely
<1>1. Releases(mem, mem')
  BY SameReleases
<1>2. Lower(Holders)
  BY DEF Lower
<1>3. Store(mem', variables.insts, Holders, Held0) /\ Unfreed(mem')
  BY CalmFacts
<1>4. Proper(mem', variables.insts, f)
  OBVIOUS
<1>5. Kept'
  BY <1>1, <1>2, <1>3, <1>4, GoOn
<1> QED
  BY <1>3, <1>5 DEF Safely

\* The running frame returns nothing, or one of its results.
LEMMA Answer ==
    ASSUME NEW quiet, Calmly(quiet), Running, NEW v, Return(v), UNCHANGED variables,
           Releases(mem, mem'), NEW R, Lower(R), Store(mem', variables.insts, R, Held0),
           v = NULL \/ \E k \in HeldAt(Top) : <<Len(stack), k>> \in R /\ Top.got[k] = v,
           Loose(mem', v)
    PROVE  Kept'
<1>1. TypeOK /\ stack # <<>> /\ \A j \in 1 .. Len(stack) - 1 : stack[j].pc # "drop"
  BY CalmFacts DEF Calmly
<1>2. Low(R, Held0)
  BY DEF Low, Lower, Held0
<1>3. Under
  BY UnderKept
<1>4. v = NULL \/ Source(R, Held0, Len(stack), v) # {}
  <2>1. ASSUME NEW k \in HeldAt(Top), <<Len(stack), k>> \in R, Top.got[k] = v
        PROVE  <<Len(stack), k>> \in Source(R, Held0, Len(stack), v)
    <3>1. k # 0
      BY CalmFacts, HeldAtType
    <3>2. Held0[<<Len(stack), k>>] = v
      BY <2>1, <3>1, SlotIn
    <3>3. Len(stack) \in Nat
      BY <1>1, FrameAt
    <3>4. PICK s : s = <<Len(stack), k>>
      OBVIOUS
    <3>5. s[1] = Len(stack) /\ s[2] = k
      BY <3>4
    <3> QED
      BY <2>1, <3>1, <3>2, <3>3, <3>4, <3>5 DEF Source
  <2> QED
    BY <2>1
<1>5. Store(mem', variables'.insts, R, Held0) /\ Welcome(v)
  BY DEF Welcome
<1> QED
  BY <1>1, <1>2, <1>3, <1>4, <1>5, PopKept

LEMMA AnswerSame ==
    ASSUME NEW quiet, Calmly(quiet), Running, NEW v, Return(v), UNCHANGED <<variables, mem>>,
           v = NULL \/ \E k \in HeldAt(Top) : Top.got[k] = v,
           Loose(mem, v)
    PROVE  Safely
<1>1. Releases(mem, mem')
  BY SameReleases
<1>2. Lower(Holders)
  BY DEF Lower
<1>3. Store(mem', variables.insts, Holders, Held0) /\ Unfreed(mem')
  BY CalmFacts
<1>4. v = NULL \/ \E k \in HeldAt(Top) : <<Len(stack), k>> \in Holders /\ Top.got[k] = v
  BY SlotIn
<1>5. Loose(mem', v)
  OBVIOUS
<1>6. Kept'
  BY <1>1, <1>2, <1>3, <1>4, <1>5, Answer
<1> QED
  BY <1>3, <1>6 DEF Safely

LEMMA EvaluateMoved ==
    ASSUME NEW f, NEW n, NEW chain, Evaluate(f, n, chain)
    PROVE  Moved(f)
BY DEF Evaluate, Moved

LEMMA ProperEmpty ==
    ASSUME NEW f, f.got = <<>>, f.pc \notin {"slot", "target", "unwind"}, NEW m, NEW vs
    PROVE  Proper(m, vs, f)
BY DEF Proper

\* The running frame goes on without results.
LEMMA GoOnEmpty ==
    ASSUME NEW quiet, Calmly(quiet), Running, NEW f, Moved(f), UNCHANGED <<variables, mem>>,
           f.got = <<>>, f.blk \in {Top.blk, NULL},
           f.pc \notin {"slot", "target", "unwind", "drop"}
    PROVE  Safely
<1>1. <<Len(stack), 0>> \in Holders
  BY SlotIn
<1>2. HeldAt(f) = {}
  BY DEF HeldAt
<1>3. Keeping(f, Holders)
  BY <1>1, <1>2 DEF Keeping
<1>4. Proper(mem, variables.insts, f)
  BY ProperEmpty
<1> QED
  BY <1>3, <1>4, GoOnSame

\* The running frame goes on with the results it has.
LEMMA GoOnAll ==
    ASSUME NEW quiet, Calmly(quiet), Running, NEW f, Moved(f), UNCHANGED <<variables, mem>>,
           f.got = Top.got, f.blk = Top.blk, f.node = Top.node, f.chain = Top.chain,
           f.pc \notin {"slot", "target", "unwind", "drop"}, Top.pc # "drop",
           Fresh(f) => Fresh(Top)
    PROVE  Safely
<1>1. \A k \in HeldAt(Top) \cup {0} : <<Len(stack), k>> \in Holders
  BY SlotIn
<1>2. HeldAt(f) = HeldAt(Top)
  BY DEF HeldAt
<1>3. Keeping(f, Holders)
  BY <1>1, <1>2 DEF Keeping
<1>4. Proper(mem, variables.insts, Top)
  BY CalmFacts
<1>5. Proper(mem, variables.insts, f)
  BY <1>4 DEF Proper, Sees
<1> QED
  BY <1>3, <1>5, GoOnSame

LEMMA BeginSafe ==
    ASSUME NEW quiet, Calmly(quiet),
           UnaryStart \/ LeftOperand \/ BodyStatement \/ IfStart \/ ForInit \/ ForTest
           \/ ForStep \/ StatementValue
    PROVE  Safely
<1>1. /\ Running /\ UNCHANGED <<variables, mem>>
      /\ Top.pc \in {"start", "test", "iterate"} /\ Top.node.kind # "func"
  BY DEF UnaryStart, LeftOperand, BodyStatement, IfStart, ForInit, ForTest, ForStep,
         StatementValue, At_, Pair
<1>2. Top \in Frame /\ Top.got = <<>>
  BY <1>1, CalmFacts DEF Ready, Nothing
<1> DEFINE P == {"operand", "left", "condition", "test", "variable", "iterate", "body",
                 "step", "value"}
<1>3. CASE BodyStatement
  <2>1. PICK f : f = [Top EXCEPT !.pc = "result", !.i = @ + 1]
    OBVIOUS
  <2>2. f.pc = "result" /\ f.got = <<>> /\ f.blk = Top.blk
    BY <1>2, <2>1 DEF Frame
  <2>3. Moved(f)
    BY <1>3, <2>1, EvaluateMoved DEF BodyStatement
  <2> QED
    BY <1>1, <2>2, <2>3, GoOnEmpty
<1>4. CASE \E pc \in P : Moved([Top EXCEPT !.pc = pc])
  <2>1. PICK pc \in P : Moved([Top EXCEPT !.pc = pc])
    BY <1>4
  <2>2. PICK f : f = [Top EXCEPT !.pc = pc]
    OBVIOUS
  <2>3. f.pc = pc /\ f.got = <<>> /\ f.blk = Top.blk
    BY <1>2, <2>2 DEF Frame
  <2> QED
    BY <1>1, <2>1, <2>2, <2>3, GoOnEmpty
<1>5. CASE UnaryStart
  BY <1>4, <1>5, EvaluateMoved DEF UnaryStart
<1>6. CASE LeftOperand
  BY <1>4, <1>6, EvaluateMoved DEF LeftOperand
<1>7. CASE IfStart
  BY <1>4, <1>7, EvaluateMoved DEF IfStart
<1>8. CASE ForInit
  BY <1>4, <1>8, EvaluateMoved DEF ForInit, Moved
<1>9. CASE ForTest
  BY <1>4, <1>9, EvaluateMoved DEF ForTest, Moved
<1>10. CASE ForStep
  BY <1>4, <1>10, EvaluateMoved DEF ForStep
<1>11. CASE StatementValue
  BY <1>4, <1>11, EvaluateMoved DEF StatementValue
<1> QED
  BY <1>3, <1>5, <1>6, <1>7, <1>8, <1>9, <1>10, <1>11

LEMMA ContinueSafe ==
    ASSUME NEW quiet, Calmly(quiet), RightOperand \/ CallArgument \/ FunctionLeave
    PROVE  Safely
<1>0. ~failed
  BY DEF Calmly, Steady, Sane
<1>1. Running /\ UNCHANGED <<variables, mem>>
  BY DEF RightOperand, CallArgument, FunctionLeave, At_
<1>2. Top \in Frame
  BY <1>1, CalmFacts
<1>3. CASE RightOperand
  <2>1. PICK f : f = [Top EXCEPT !.pc = "right"]
    OBVIOUS
  <2>2. /\ f.got = Top.got /\ f.blk = Top.blk /\ f.node = Top.node /\ f.chain = Top.chain
        /\ f.pc = "right"
    BY <1>2, <2>1 DEF Frame
  <2>3. Moved(f) /\ Top.pc = "left"
    BY <1>0, <1>3, <2>1, EvaluateMoved DEF RightOperand, At_
  <2>4. ~Fresh(f)
    BY <2>2 DEF Fresh, InAt
  <2> QED
    BY <1>1, <2>2, <2>3, <2>4, GoOnAll
<1>4. CASE CallArgument
  <2>1. Moved(Top) /\ Top.pc = "arguments"
    BY <1>4, EvaluateMoved DEF CallArgument, At_
  <2> QED
    BY <1>1, <2>1, GoOnAll
<1>5. CASE FunctionLeave
  <2>1. PICK f : f = [Top EXCEPT !.pc = "leave", !.i = RootStart]
    OBVIOUS
  <2>2. /\ f.got = Top.got /\ f.blk = Top.blk /\ f.node = Top.node /\ f.chain = Top.chain
        /\ f.pc = "leave"
    BY <1>2, <2>1 DEF Frame
  <2>3. Moved(f) /\ Top.pc = "body" /\ Top.node.kind = "func"
    BY <1>5, <2>1 DEF FunctionLeave, At_, Moved
  <2>4. Fresh(Top)
    BY <2>3 DEF Fresh
  <2> QED
    BY <1>1, <2>2, <2>3, <2>4, GoOnAll
<1> QED
  BY <1>3, <1>4, <1>5

LEMMA OneResult ==
    ASSUME NEW quiet, Calmly(quiet), Running, One(Top), Top.pc # "drop"
    PROVE  /\ DOMAIN Top.got = {1} /\ HeldAt(Top) = {1} /\ Got(1) = Top.got[1] /\ Len(Top.got) = 1
           /\ Got(1) \in Pointers
           /\ Fresh(Top) => Loose(mem, Got(1))
<1>1. Top.got \in Seq(Pointers) /\ Len(Top.got) = 1
  BY CalmFacts DEF Ready
<1>2. DOMAIN Top.got = {1} /\ Top.got[1] \in Pointers
  BY <1>1
<1>3. Got(1) = Top.got[1] /\ HeldAt(Top) = {1}
  BY <1>2 DEF Got, HeldAt
<1>4. Fresh(Top) => Loose(mem, Top.got[1])
  BY <1>2, CalmFacts DEF Proper
<1> QED
  BY <1>1, <1>2, <1>3, <1>4

LEMMA AnswerSafe ==
    ASSUME NEW quiet, Calmly(quiet),
           CallReturn \/ FunctionReturn \/ BodyEnd \/ IfReturn \/ ForEnd \/ ForIterated
           \/ ReturnValue
    PROVE  Safely
<1>1. Running /\ UNCHANGED <<variables, mem>> /\ Top.pc # "drop"
  BY DEF CallReturn, FunctionReturn, BodyEnd, IfReturn, ForEnd, ForIterated, ReturnValue, At_
<1>2. Top \in Frame
  BY <1>1, CalmFacts
<1>3. CASE BodyEnd \/ ForEnd
  <2>1. Return(NULL) /\ Loose(mem, NULL)
    BY <1>3 DEF BodyEnd, ForEnd, Loose
  <2> QED
    BY <1>1, <2>1, AnswerSame
<1>4. ASSUME CallReturn \/ FunctionReturn \/ IfReturn \/ ForIterated \/ ReturnValue
      PROVE  /\ One(Top) /\ Fresh(Top)
             /\ Loose(mem, Got(1)) /\ HeldAt(Top) = {1} /\ Top.got[1] = Got(1)
  <2>1. One(Top) /\ Fresh(Top)
    BY <1>4 DEF CallReturn, FunctionReturn, IfReturn, ForIterated, ReturnValue, At_, One, Fresh, InAt
  <2> QED
    BY <1>1, <2>1, OneResult
<1>5. CASE Return(Got(1)) /\ (CallReturn \/ FunctionReturn \/ IfReturn \/ ForIterated \/ ReturnValue)
  BY <1>1, <1>4, <1>5, AnswerSame
<1>6. CASE CallReturn \/ FunctionReturn \/ IfReturn
  BY <1>5, <1>6 DEF CallReturn, FunctionReturn, IfReturn
<1>7. CASE ForIterated
  <2>1. CASE Got(1) # NULL
    BY <1>5, <1>7, <2>1 DEF ForIterated
  <2>2. CASE Got(1) = NULL
    <3>1. PICK f : f = [Top EXCEPT !.pc = "test", !.got = <<>>]
      OBVIOUS
    <3>2. f.got = <<>> /\ f.blk = Top.blk /\ f.pc = "test"
      BY <1>2, <3>1 DEF Frame
    <3>3. Moved(f)
      BY <1>7, <2>2, <3>1 DEF ForIterated, Moved
    <3> QED
      BY <1>1, <3>2, <3>3, GoOnEmpty
  <2> QED
    BY <2>1, <2>2
<1>8. CASE ReturnValue
  <2>1. CASE Len(Top.node.kids) = 1
    BY <1>5, <1>8, <2>1 DEF ReturnValue
  <2>2. CASE Len(Top.node.kids) # 1
    <3>1. PICK f : f = [Top EXCEPT !.pc = "body"]
      OBVIOUS
    <3>2. /\ f.got = Top.got /\ f.blk = Top.blk /\ f.node = Top.node /\ f.chain = Top.chain
          /\ f.pc = "body"
      BY <1>2, <3>1 DEF Frame
    <3>3. Moved(f)
      BY <1>8, <2>2, <3>1, EvaluateMoved DEF ReturnValue
    <3> QED
      BY <1>1, <1>4, <1>8, <3>2, <3>3, GoOnAll
  <2> QED
    BY <2>1, <2>2
<1> QED
  BY <1>3, <1>6, <1>7, <1>8

\* Without the k-th result of the running frame, or without its array.
Without(k) == Holders \ {<<Len(stack), k>>}

LEMMA WithoutLower ==
    ASSUME NEW quiet, Calmly(quiet), Running, NEW k
    PROVE  Lower(Without(k))
<1>1. Len(stack) \in Nat
  BY FrameAt, CalmFacts DEF Calmly
<1>2. PICK s : s = <<Len(stack), k>>
  OBVIOUS
<1>3. s[1] = Len(stack)
  BY <1>2
<1> QED
  BY <1>1, <1>2, <1>3 DEF Lower, Without

LEMMA DestroySlot ==
    ASSUME NEW quiet, Calmly(quiet), Running, NEW k \in HeldAt(Top),
           NEW n, n = RuntimeDestroy(mem, Top.got[k])
    PROVE  /\ Store(n, variables.insts, Without(k), Held0) /\ Unfreed(n)
           /\ Releases(mem, n) /\ Spares(mem, n)
           /\ n.fault = "none" => IsValue(mem, Top.got[k])
<1>1. PICK s : s = <<Len(stack), k>>
  OBVIOUS
<1>2. k # 0
  BY CalmFacts, HeldAtType
<1>3. s \in Holders /\ Held0[s] = Top.got[k] /\ s[2] # 0
  BY <1>1, <1>2, SlotIn
<1>4. /\ mem \in Memory /\ variables.insts \in Seq(VariableInstance) /\ Unfreed(mem)
      /\ Store(mem, variables.insts, Holders, Held0)
  BY CalmFacts
<1> HIDE DEF Held0
<1>5. /\ Store(n, variables.insts, Holders \ {s}, Held0) /\ (Unfreed(mem) => Unfreed(n))
      /\ n.fault = "none" => mem.fault = "none" /\ IsValue(mem, Held0[s])
      /\ Releases(mem, n) /\ Spares(mem, n)
  <2>1. n = RuntimeDestroy(mem, Held0[s])
    BY <1>3
  <2> QED
    BY <1>3, <1>4, <2>1, StoreDestroy
<1> QED
  BY <1>1, <1>3, <1>4, <1>5 DEF Without

LEMMA FreeSlot ==
    ASSUME NEW quiet, Calmly(quiet), Running, NEW n, n = Free(mem, Top.blk)
    PROVE  /\ Store(n, variables.insts, Without(0), Held0) /\ Unfreed(n)
           /\ Releases(mem, n) /\ Spares(mem, n)
<1>1. PICK s : s = <<Len(stack), 0>>
  OBVIOUS
<1>3. s \in Holders /\ Held0[s] = Top.blk /\ s[2] = 0
  BY <1>1, SlotIn
<1>4. /\ mem \in Memory /\ variables.insts \in Seq(VariableInstance) /\ Unfreed(mem)
      /\ Store(mem, variables.insts, Holders, Held0)
  BY CalmFacts
<1> HIDE DEF Held0
<1>5. /\ Store(n, variables.insts, Holders \ {s}, Held0) /\ (Unfreed(mem) => Unfreed(n))
      /\ Releases(mem, n) /\ Spares(mem, n)
  <2>1. n = Free(mem, Held0[s])
    BY <1>3
  <2> QED
    BY <1>3, <1>4, <2>1, StoreFree
<1> QED
  BY <1>1, <1>4, <1>5 DEF Without, Unfreed

\* The running frame goes on without its only result, which is destroyed.
LEMMA GoOnWithout ==
    ASSUME NEW quiet, Calmly(quiet), Running, One(Top), Top.pc # "drop", NEW f, Moved(f),
           mem' = RuntimeDestroy(mem, Got(1)), UNCHANGED variables,
           f.got = <<>>, f.blk \in {Top.blk, NULL},
           f.pc \notin {"slot", "target", "unwind", "drop"}
    PROVE  Safely
<1>1. 1 \in HeldAt(Top) /\ mem' = RuntimeDestroy(mem, Top.got[1])
  BY OneResult
<1>2. PICK k \in HeldAt(Top) : k = 1
  BY <1>1
<1>3. mem' = RuntimeDestroy(mem, Top.got[k])
  BY <1>1, <1>2
<1>4. /\ Store(mem', variables.insts, Without(k), Held0) /\ Unfreed(mem')
      /\ Releases(mem, mem')
  BY <1>3, DestroySlot
<1>5. Lower(Without(k))
  BY WithoutLower
<1>6. <<Len(stack), 0>> \in Without(k)
  <2>1. <<Len(stack), 0>> \in Holders
    BY SlotIn
  <2> QED
    BY <1>2, <2>1 DEF Without
<1>7. HeldAt(f) = {}
  BY DEF HeldAt
<1>8. Keeping(f, Without(k))
  BY <1>6, <1>7 DEF Keeping
<1>9. Proper(mem', variables.insts, f)
  BY ProperEmpty
<1>10. Kept'
  BY <1>4, <1>5, <1>8, <1>9, GoOn
<1> QED
  BY <1>4, <1>10 DEF Safely

LEMMA AnswerNothing ==
    ASSUME NEW quiet, Calmly(quiet), Running, One(Top), Top.pc # "drop", Return(NULL),
           mem' = RuntimeDestroy(mem, Got(1)), UNCHANGED variables
    PROVE  Safely
<1>1. 1 \in HeldAt(Top) /\ mem' = RuntimeDestroy(mem, Top.got[1])
  BY OneResult
<1>2. PICK k \in HeldAt(Top) : k = 1
  BY <1>1
<1>3. mem' = RuntimeDestroy(mem, Top.got[k])
  BY <1>1, <1>2
<1>4. /\ Store(mem', variables.insts, Without(k), Held0) /\ Unfreed(mem')
      /\ Releases(mem, mem')
  BY <1>3, DestroySlot
<1>5. Lower(Without(k)) /\ Loose(mem', NULL)
  BY WithoutLower DEF Loose
<1>6. PICK v : v = NULL
  OBVIOUS
<1>7. Return(v) /\ v = NULL /\ Loose(mem', v)
  BY <1>5, <1>6
<1>8. Kept'
  BY <1>4, <1>5, <1>7, Answer
<1> QED
  BY <1>4, <1>8 DEF Safely

LEMMA ConditionSafe ==
    ASSUME NEW quiet, Calmly(quiet), IfCondition \/ ForCondition \/ ForBody \/ BodyResult
    PROVE  Safely
<1>0. ~failed
  BY DEF Calmly, Steady, Sane
<1>1. /\ Running /\ UNCHANGED variables /\ Top.pc # "drop" /\ One(Top)
  BY DEF IfCondition, ForCondition, ForBody, BodyResult, At_, One
<1>2. Top \in Frame
  BY <1>1, CalmFacts
<1> DEFINE at(pc) == [Top EXCEPT !.pc = pc, !.got = <<>>]
<1>3. CASE IfCondition
  <2>1. mem' = RuntimeDestroy(mem, Got(1))
    BY <1>0, <1>3 DEF IfCondition
  <2>2. PICK f : f = at("body")
    OBVIOUS
  <2>3. Moved(f) \/ Return(NULL)
    BY <1>0, <1>3, <2>2, EvaluateMoved DEF IfCondition
  <2>4. f.got = <<>> /\ f.blk = Top.blk /\ f.pc = "body"
    BY <1>2, <2>2 DEF Frame
  <2> QED
    BY <1>1, <2>1, <2>3, <2>4, GoOnWithout, AnswerNothing
<1>4. CASE ForCondition
  <2>1. mem' = RuntimeDestroy(mem, Got(1))
    BY <1>4 DEF ForCondition
  <2>2. PICK f : f = [Top EXCEPT !.pc = "leave", !.got = <<>>, !.i = RootStart]
    OBVIOUS
  <2>3. PICK g : g = at("iterate")
    OBVIOUS
  <2>4. Moved(f) \/ Moved(g)
    BY <1>4, <2>2, <2>3 DEF ForCondition, Moved
  <2>5. f.got = <<>> /\ f.blk = Top.blk /\ f.pc = "leave"
    BY <1>2, <2>2 DEF Frame
  <2>6. g.got = <<>> /\ g.blk = Top.blk /\ g.pc = "iterate"
    BY <1>2, <2>3 DEF Frame
  <2> QED
    BY <1>1, <2>1, <2>4, <2>5, <2>6, GoOnWithout
<1>5. CASE ForBody
  <2>1. mem' = RuntimeDestroy(mem, Got(1))
    BY <1>5 DEF ForBody
  <2>2. PICK f : f = at("body")
    OBVIOUS
  <2>3. Moved(f)
    BY <1>5, <2>2, EvaluateMoved DEF ForBody
  <2>4. f.got = <<>> /\ f.blk = Top.blk /\ f.pc = "body"
    BY <1>2, <2>2 DEF Frame
  <2> QED
    BY <1>1, <2>1, <2>3, <2>4, GoOnWithout
<1>6. CASE BodyResult
  <2>1. CASE EndsEarly(Child(Top.i))
    <3>1. Top.node.kids[Top.i].kind # "assign"
      BY <1>0, <2>1 DEF EndsEarly, IsBlock, Child
    <3>2. Fresh(Top)
      BY <1>6, <3>1 DEF BodyResult, At_, Fresh, InAt
    <3>3. Return(Got(1)) /\ UNCHANGED mem
      BY <1>6, <2>1 DEF BodyResult
    <3>4. Loose(mem, Got(1)) /\ HeldAt(Top) = {1} /\ Top.got[1] = Got(1)
      BY <1>1, <3>2, OneResult
    <3> QED
      BY <1>1, <3>3, <3>4, AnswerSame
  <2>2. CASE ~EndsEarly(Child(Top.i))
    <3>1. PICK f : f = at("start")
      OBVIOUS
    <3>2. Moved(f)
      BY <1>6, <2>2, <3>1 DEF BodyResult, Moved
    <3>3. f.got = <<>> /\ f.blk = Top.blk /\ f.pc = "start"
      BY <1>2, <3>1 DEF Frame
    <3>4. mem' = RuntimeDestroy(mem, Got(1)) \/ UNCHANGED mem
      BY <1>6, <2>2 DEF BodyResult
    <3> QED
      BY <1>1, <3>2, <3>3, <3>4, GoOnWithout, GoOnEmpty
  <2> QED
    BY <2>1, <2>2
<1> QED
  BY <1>3, <1>4, <1>5, <1>6

\* A memory that has only been read.
Read(m, n) == n \in Memory /\ n.cells = m.cells /\ Unfreed(n)

LEMMA TouchRead ==
    ASSUME NEW m, NEW k, Read(m, k), NEW v, v = NULL \/ Live(m, v), NEW n, n = Touch(k, v)
    PROVE  Read(m, n) /\ (n.fault = "none" => k.fault = "none" /\ Live(m, v))
<1>1. k \in Memory /\ k.cells = m.cells /\ Unfreed(k)
  BY DEF Read
<1>2. v = NULL \/ Live(k, v)
  BY <1>1 DEF Live
<1>3. n \in Memory
  BY <1>1, TouchType
<1>4. n.cells = k.cells /\ (Unfreed(k) => Unfreed(n))
      /\ (n.fault = "none" => k.fault = "none" /\ Live(k, v))
  BY <1>1, <1>2, TouchCells
<1> QED
  BY <1>1, <1>3, <1>4 DEF Read, Live

\* A result can be read, and what it points to.
Readable(v) == /\ v = NULL \/ IsValue(mem, v)
               /\ ~At(mem, v).isref
               /\ At(mem, v).buf = NULL \/ Live(mem, At(mem, v).buf)

LEMMA NothingReadable == Readable(NULL)
BY AddrAssumption DEF Readable, At, FreeCell, NewCell

LEMMA ResultReadable ==
    ASSUME NEW quiet, Calmly(quiet), Running, NEW k \in HeldAt(Top)
    PROVE  Readable(Top.got[k])
<1>1. Top.got[k] \in Pointers
  BY CalmFacts, HeldAtType
<1>2. PICK s : s = <<Len(stack), k>>
  OBVIOUS
<1>3. k # 0
  BY CalmFacts, HeldAtType
<1>4. s \in Holders /\ s[2] = k /\ Held0[s] = Top.got[k]
  BY <1>2, <1>3, SlotIn
<1>5. Store(mem, variables.insts, Holders, Held0)
  BY CalmFacts
<1> HIDE DEF Held0
<1>6. Held0[s] = NULL \/ IsValue(mem, Held0[s])
  BY <1>3, <1>4, <1>5 DEF Store, HeldOnce, IsValue
<1>7. CASE Top.got[k] = NULL
  BY <1>7, NothingReadable
<1>8. CASE Top.got[k] # NULL
  <2>1. IsValue(mem, Top.got[k]) /\ Top.got[k] \in Addr
    BY <1>4, <1>6, <1>8 DEF IsValue, Live
  <2>2. At(mem, Top.got[k]) = mem.cells[Top.got[k]]
    BY <2>1 DEF At
  <2> QED
    BY <1>5, <2>1, <2>2 DEF Store, Owned, IsValue, IsRaw, Readable
<1> QED
  BY <1>7, <1>8

LEMMA GotReadable ==
    ASSUME NEW quiet, Calmly(quiet), Running, Top.pc # "drop", NEW k
    PROVE  Readable(Got(k))
<1>1. HeldAt(Top) = DOMAIN Top.got
  BY DEF HeldAt
<1> QED
  BY <1>1, ResultReadable, NothingReadable DEF Got

LEMMA BindSafe ==
    ASSUME NEW quiet, Calmly(quiet), BindPrint \/ BindDrop
    PROVE  Safely
<1>1. Running /\ UNCHANGED variables /\ Top.node.kind = "func"
  BY DEF BindPrint, BindDrop, At_
<1>2. Top \in Frame /\ Top.got \in Seq(Pointers) /\ Top.i \in Nat
  BY <1>1, CalmFacts DEF Frame
<1>3. CASE BindPrint
  <2>1. Top.pc = "start"
    BY <1>3 DEF BindPrint, At_
  <2>2. Readable(Got(1))
    BY <1>1, <2>1, GotReadable
  <2>3. PICK read : read = Touch(mem, Got(1))
    OBVIOUS
  <2>4. Read(mem, mem)
    BY <1>1, CalmFacts DEF Read
  <2>5. Read(mem, read)
    BY <2>2, <2>3, <2>4, TouchRead DEF Readable, IsValue
  <2>6. mem' = read \/ mem' = Touch(read, At(mem, Got(1)).buf)
    BY <1>3, <2>3 DEF BindPrint
  <2>7. Read(mem, mem')
    BY <2>2, <2>5, <2>6, TouchRead DEF Readable
  <2>8. PICK f : f = [Top EXCEPT !.pc = "drop"]
    OBVIOUS
  <2>9. /\ f.got = Top.got /\ f.blk = Top.blk /\ f.node = Top.node /\ f.pc = "drop"
        /\ f.i = Top.i
    BY <1>2, <2>8 DEF Frame
  <2>10. Moved(f)
    BY <1>3, <2>8 DEF BindPrint, Moved
  <2>11. HeldAt(Top) = DOMAIN Top.got /\ HeldAt(f) \subseteq DOMAIN Top.got
    BY <1>2, <2>1, <2>9 DEF HeldAt
  <2>12. \A k \in HeldAt(Top) \cup {0} : <<Len(stack), k>> \in Holders
    BY <1>1, SlotIn
  <2>13. Keeping(f, Holders)
    BY <2>9, <2>11, <2>12 DEF Keeping
  <2>14. Proper(mem', variables.insts, f)
    BY <1>1, <2>9 DEF Proper, Fresh, InAt, Operators
  <2>15. Releases(mem, mem') /\ Unfreed(mem')
    BY <2>7, SameReleases DEF Read
  <2>16. Store(mem', variables.insts, Holders, Held0)
    <3>1. Store(mem, variables.insts, Holders, Held0)
      BY <1>1, CalmFacts
    <3> QED
      BY <2>7, <3>1, StoreSame DEF Read
  <2>17. Lower(Holders)
    BY DEF Lower
  <2>18. Kept'
    BY <1>1, <2>10, <2>13, <2>14, <2>15, <2>16, <2>17, GoOn
  <2> QED
    BY <2>15, <2>18 DEF Safely
<1>4. CASE BindDrop
  <2>1. Top.pc = "drop" /\ Top.i < Len(Top.got)
    BY <1>4 DEF BindDrop, At_
  <2>2. PICK k : k = Top.i + 1
    OBVIOUS
  <2>3. k \in HeldAt(Top) /\ Got(Top.i + 1) = Top.got[k] /\ HeldAt(Top) = k .. Len(Top.got)
    BY <1>2, <2>1, <2>2 DEF HeldAt, Got
  <2>4. mem' = RuntimeDestroy(mem, Top.got[k])
    BY <1>4, <2>3 DEF BindDrop
  <2>5. /\ Store(mem', variables.insts, Without(k), Held0) /\ Unfreed(mem')
        /\ Releases(mem, mem')
    BY <1>1, <2>3, <2>4, DestroySlot
  <2>6. Lower(Without(k))
    BY <1>1, WithoutLower
  <2>7. PICK f : f = [Top EXCEPT !.i = @ + 1]
    OBVIOUS
  <2>8. /\ f.got = Top.got /\ f.blk = Top.blk /\ f.node = Top.node /\ f.pc = "drop"
        /\ f.i = k
    BY <1>2, <2>1, <2>2, <2>7 DEF Frame
  <2>9. Moved(f)
    BY <1>4, <2>7 DEF BindDrop, Moved
  <2>10. HeldAt(f) = HeldAt(Top) \ {k} /\ k # 0
    BY <1>2, <2>2, <2>3, <2>8 DEF HeldAt
  <2>11. \A j \in HeldAt(Top) \cup {0} : j # k => <<Len(stack), j>> \in Without(k)
    BY <1>1, SlotIn DEF Without
  <2>12. Keeping(f, Without(k))
    BY <2>8, <2>10, <2>11 DEF Keeping
  <2>13. Proper(mem', variables.insts, f)
    BY <1>1, <2>8 DEF Proper, Fresh, InAt, Operators
  <2>14. Kept'
    BY <1>1, <2>5, <2>6, <2>9, <2>12, <2>13, GoOn
  <2> QED
    BY <2>5, <2>14 DEF Safely
<1> QED
  BY <1>3, <1>4

LEMMA FunctionBodySafe ==
    ASSUME NEW quiet, Calmly(quiet), FunctionBody
    PROVE  Safely
<1>1. Running /\ UNCHANGED variables /\ mem' = Free(mem, Top.blk)
  BY DEF FunctionBody, At_
<1>2. Top \in Frame
  BY <1>1, CalmFacts
<1>3. /\ Store(mem', variables.insts, Without(0), Held0) /\ Unfreed(mem')
      /\ Releases(mem, mem')
  BY <1>1, FreeSlot
<1>4. Lower(Without(0))
  BY <1>1, WithoutLower
<1>5. PICK f : f = [Top EXCEPT !.pc = "body", !.got = <<>>, !.blk = NULL]
  OBVIOUS
<1>6. f.pc = "body" /\ f.got = <<>> /\ f.blk = NULL
  BY <1>2, <1>5 DEF Frame
<1>7. Moved(f)
  BY <1>5, EvaluateMoved DEF FunctionBody
<1>8. HeldAt(f) = {}
  BY <1>6 DEF HeldAt
<1>9. Keeping(f, Without(0)) /\ Proper(mem', variables.insts, f)
  BY <1>6, <1>8, ProperEmpty DEF Keeping
<1>10. Kept'
  BY <1>1, <1>3, <1>4, <1>7, <1>9, GoOn
<1> QED
  BY <1>3, <1>10 DEF Safely

LEMMA ReturnBodySafe ==
    ASSUME NEW quiet, Calmly(quiet), ReturnAfterBody
    PROVE  Safely
<1>0. ~failed
  BY DEF Calmly, Steady, Sane
<1>1. /\ Running /\ UNCHANGED variables /\ Top.node.kind = "return" /\ Top.pc = "body"
      /\ Return(Got(1))
  BY DEF ReturnAfterBody, At_
<1>2. Top.got \in Seq(Pointers) /\ Len(Top.got) = 2
  BY <1>1, CalmFacts DEF Ready, InAt
<1>3. /\ DOMAIN Top.got = {1, 2} /\ HeldAt(Top) = {1, 2}
      /\ Got(1) = Top.got[1] /\ Got(2) = Top.got[2]
  BY <1>1, <1>2 DEF HeldAt, Got
<1>4. Fresh(Top)
  BY <1>1 DEF Fresh, InAt
<1>5. Loose(mem, Got(1)) /\ Got(1) \in Pointers
  BY <1>1, <1>2, <1>3, <1>4, CalmFacts DEF Proper
<1>6. mem' = RuntimeDestroy(mem, Top.got[2]) \/ UNCHANGED mem
  BY <1>0, <1>3 DEF ReturnAfterBody
<1>7. CASE UNCHANGED mem
  BY <1>1, <1>3, <1>5, <1>7, AnswerSame
<1>8. CASE mem' = RuntimeDestroy(mem, Top.got[2])
  <2>1. PICK k \in HeldAt(Top) : k = 2
    BY <1>3
  <2>2. PICK j \in HeldAt(Top) : j = 1
    BY <1>3
  <2>3. /\ Store(mem', variables.insts, Without(k), Held0) /\ Unfreed(mem')
        /\ Releases(mem, mem')
    BY <1>1, <1>8, <2>1, DestroySlot
  <2>4. Lower(Without(k))
    BY <1>1, WithoutLower
  <2>5. <<Len(stack), j>> \in Without(k) /\ Top.got[j] = Got(1)
    BY <1>1, <1>3, <2>1, <2>2, SlotIn DEF Without
  <2>6. Loose(mem', Got(1))
    BY <1>5, <2>3 DEF Loose, Releases, Pointers
  <2>7. Kept'
    BY <1>1, <2>3, <2>4, <2>5, <2>6, Answer
  <2> QED
    BY <2>3, <2>7 DEF Safely
<1> QED
  BY <1>6, <1>7, <1>8

(***************************************************************************)
(* The results that are allocated.                                         *)
(***************************************************************************)
\* A new value: no reference, and no block of its own.
NewValue(c) == /\ c \in Cell /\ c.type \notin {"free", "block"} /\ c.refs = 0
               /\ ~c.isref /\ c.buf = NULL

LEMMA ScalarNew ==
    ASSUME NEW type \in ValueType, NEW n, Scalar(type, n) \in Cell
    PROVE  NewValue(Scalar(type, n))
<1>1. PICK c : c = Scalar(type, n)
  OBVIOUS
<1>2. c.type = type /\ c.refs = 0 /\ c.isref = FALSE /\ c.buf = NULL
  BY <1>1 DEF Scalar, NewCell
<1>3. type # "free" /\ type # "block"
  BY DEF ValueType
<1> QED
  BY <1>1, <1>2, <1>3 DEF NewValue

LEMMA ComputedNew ==
    ASSUME NEW op, NEW c \in Cell, NEW d \in Cell, NEW g \in Int
    PROVE  /\ NewValue(UnaryValue(op, c, g))
           /\ op \in BinaryOp /\ (op = "/" => AsFloat(d, g) # 0)
                => NewValue(BinaryValue(op, c, d, g))
<1>0. "int" \in ValueType /\ "float" \in ValueType
  BY DEF ValueType
<1>1. UnaryValue(op, c, g) \in Cell
  BY UnaryValueType
<1>2. \E t \in ValueType : \E k : UnaryValue(op, c, g) = Scalar(t, k)
  BY <1>0 DEF UnaryValue
<1>3. op \in BinaryOp /\ (op = "/" => AsFloat(d, g) # 0) => BinaryValue(op, c, d, g) \in Cell
  BY BinaryValueType
<1>4. \E t \in ValueType : \E k : BinaryValue(op, c, d, g) = Scalar(t, k)
  BY <1>0 DEF BinaryValue
<1> QED
  BY <1>1, <1>2, <1>3, <1>4, ScalarNew

LEMMA ElementNew ==
    ASSUME NEW m \in Memory, NEW c \in Cell, NEW g \in Int
    PROVE  NewValue(Element(m, c, g))
<1>1. Element(m, c, g) \in Cell
  BY ElementType
<1>2. c.elem \in ValueType
  BY DEF Cell
<1> QED
  BY <1>1, <1>2, ScalarNew DEF Element

\* The holder of a result that is just being returned, and what the holders hold.
Coming == <<Len(stack) + 1, 1>>
With(v) == [s \in Holders \cup {Coming} |-> IF s = Coming THEN v ELSE Held0[s]]

LEMMA ComingOutside ==
    ASSUME NEW quiet, Calmly(quiet), Running
    PROVE  /\ Coming \notin Holders /\ Coming[2] # 0 /\ Coming[1] = Len(stack) + 1
           /\ Len(stack) \in Nat
           /\ \A v : With(v)[Coming] = v /\ \A s \in Holders : With(v)[s] = Held0[s]
<1>1. DOMAIN stack = 1 .. Len(stack) /\ Len(stack) \in Nat /\ stack # <<>>
  BY FrameAt, CalmFacts DEF Calmly
<1>2. Coming[1] = Len(stack) + 1 /\ Coming[2] # 0
  BY DEF Coming
<1>3. Coming \notin Holders
  <2>1. ASSUME NEW n \in DOMAIN stack, NEW k, Coming = <<n, k>>
        PROVE  FALSE
    BY <1>1, <1>2, <2>1
  <2> QED
    BY <1>1, <2>1, HolderIn
<1> HIDE DEF Coming
<1> QED
  BY <1>1, <1>2, <1>3 DEF With

\* The new value that the running frame returns.
LEMMA PutNew ==
    ASSUME NEW quiet, Calmly(quiet), Running, NEW k \in Memory, CanMalloc(k), NEW R, Lower(R),
           Store(k, variables.insts, R, Held0), NEW c, NewValue(c), NEW n, n = Put(k, c),
           NEW v, v = New(k)
    PROVE  /\ Store(n, variables.insts, R \cup {Coming}, With(v)) /\ n.fault = k.fault
           /\ n \in Memory /\ Unheld(n, v) /\ Releases(k, n)
<1>1. /\ Coming \notin R /\ Coming[2] # 0
      /\ \A s \in R : With(v)[s] = Held0[s]
      /\ With(v)[Coming] = New(k)
  BY ComingOutside DEF Lower
<1>2. variables.insts \in Seq(VariableInstance)
  BY CalmFacts
<1>3. c \in Cell /\ Blank(c) /\ c.refs = 0 /\ (c.type = "block" <=> Coming[2] = 0)
  BY <1>1 DEF NewValue, Blank
<1> HIDE DEF Held0, With
<1>4. PICK t : t = Coming
  OBVIOUS
<1>5. PICK W : W = With(v)
  OBVIOUS
<1>6. Store(n, variables.insts, R \cup {t}, W)
  <2>1. Extended(R, Held0, t, W, New(k))
    BY <1>1, <1>4, <1>5 DEF Extended
  <2> QED
    BY <1>2, <1>3, <1>4, <2>1, StorePut
<1>7. n \in Memory
  BY <1>3, PutType
<1>8. /\ \A a \in Addr : n.cells[a] = IF a = v THEN c ELSE k.cells[a]
      /\ v \in Addr /\ n.fault = k.fault
  BY NewFree DEF Put, Memory
<1>9. Unheld(n, v) /\ Releases(k, n)
  BY <1>3, <1>8 DEF Unheld, Releases
<1> QED
  BY <1>4, <1>5, <1>6, <1>7, <1>8, <1>9

\* The running frame returns a new value.
LEMMA AnswerNew ==
    ASSUME NEW quiet, Calmly(quiet), Running, UNCHANGED variables, NEW v, Return(v), NEW R,
           Lower(R), NEW n, n = mem', Store(n, variables.insts, R \cup {Coming}, With(v)),
           Releases(mem, n), Unheld(n, v), Unfreed(n)
    PROVE  Safely
<1>1. TypeOK /\ stack # <<>> /\ \A j \in 1 .. Len(stack) - 1 : stack[j].pc # "drop"
  BY CalmFacts DEF Calmly
<1>2. /\ Coming \notin Holders /\ Coming[2] # 0 /\ Coming[1] = Len(stack) + 1
      /\ Len(stack) \in Nat /\ With(v)[Coming] = v /\ \A s \in Holders : With(v)[s] = Held0[s]
  BY ComingOutside
<1>3. PICK t : t = Coming
  OBVIOUS
<1>4. PICK W : W = With(v)
  OBVIOUS
<1>5. Low(R \cup {t}, W)
  BY <1>2, <1>3, <1>4 DEF Low, Lower, Held0
<1>6. t \in Source(R \cup {t}, W, Len(stack), v)
  <2>1. t[2] # 0 /\ t[1] \notin 1 .. Len(stack) - 1 /\ W[t] = v
    BY <1>2, <1>3, <1>4
  <2> QED
    BY <2>1 DEF Source
<1>7. Under
  BY UnderKept
<1>8. Welcome(v)
  BY DEF Welcome, Loose
<1>9. Store(mem', variables'.insts, R \cup {t}, W)
  BY <1>3, <1>4
<1>10. Source(R \cup {t}, W, Len(stack), v) # {}
  BY <1>6
<1>11. Kept'
  BY <1>1, <1>5, <1>7, <1>8, <1>9, <1>10, PopKept
<1> QED
  BY <1>11 DEF Safely

LEMMA ReleasesTransitive ==
    ASSUME NEW k, NEW m, NEW n, Releases(k, m), Releases(m, n)
    PROVE  Releases(k, n)
BY DEF Releases

\* No allocation fails.
LEMMA AllAllocated ==
    ASSUME NEW quiet, Calmly(quiet), NEW ok \in BOOLEAN, Malloc(ok)
    PROVE  ok /\ CanMalloc(mem)
<1>1. failures = 0 /\ failures' = 0
  BY DEF Calmly, Steady
<1>2. ok
  BY <1>1 DEF Malloc
<1> QED
  BY <1>2 DEF Malloc

LEMMA SameNew ==
    ASSUME NEW m, NEW n, n.cells = m.cells
    PROVE  New(n) = New(m) /\ (CanMalloc(n) <=> CanMalloc(m))
<1>1. \A a : Live(n, a) <=> Live(m, a)
  BY DEF Live
<1> QED
  BY <1>1 DEF New, CanMalloc

LEMMA LiteralSafe ==
    ASSUME NEW quiet, Calmly(quiet), Literal
    PROVE  Safely
<1>1. Running /\ UNCHANGED variables
  BY DEF Literal, At_
<1>2. PICK ok \in BOOLEAN :
        /\ Malloc(ok)
        /\ mem' = IF ok THEN Put(mem, Scalar(Top.node.type, Top.node.num)) ELSE mem
        /\ Return(IF ok THEN New(mem) ELSE NULL)
  BY DEF Literal
<1>3. ok /\ CanMalloc(mem)
  BY <1>2, AllAllocated
<1>4. PICK c : c = Scalar(Top.node.type, Top.node.num)
  OBVIOUS
<1>5. NewValue(c)
  <2>1. Top.node \in Node
    BY <1>1, CalmFacts
  <2>2. Top.node.type \in ValueType /\ Top.node.num \in Int
    BY <2>1, NodeType
  <2> QED
    BY <1>4, <2>2, ConstructorTypes, ScalarNew
<1>6. PICK v : v = New(mem)
  OBVIOUS
<1>7. PICK n : n = mem'
  OBVIOUS
<1>8. n = Put(mem, c) /\ Return(v)
  BY <1>2, <1>3, <1>4, <1>6, <1>7
<1>9. mem \in Memory /\ Store(mem, variables.insts, Holders, Held0) /\ Unfreed(mem)
  BY <1>1, CalmFacts
<1>10. Lower(Holders)
  BY DEF Lower
<1> HIDE DEF Held0
<1>11. /\ Store(n, variables.insts, Holders \cup {Coming}, With(v)) /\ n.fault = mem.fault
       /\ Unheld(n, v) /\ Releases(mem, n)
  BY <1>1, <1>3, <1>5, <1>6, <1>8, <1>9, <1>10, PutNew
<1>12. Unfreed(n)
  BY <1>9, <1>11 DEF Unfreed
<1> QED
  BY <1>1, <1>7, <1>8, <1>10, <1>11, <1>12, AnswerNew

\* The running frame gets an array: the characters of a string, the arguments.
LEMMA ArraySafe ==
    ASSUME NEW quiet, Calmly(quiet), StringBlock \/ CallStart
    PROVE  Safely
<1>1. Running /\ UNCHANGED variables /\ Top.pc = "start" /\ Top.node.kind # "func"
  BY DEF StringBlock, CallStart, At_
<1>2. Top \in Frame /\ Top.got = <<>>
  BY <1>1, CalmFacts DEF Ready, Nothing
<1>3. PICK ok \in BOOLEAN, pc \in {"value", "arguments"} :
        /\ Malloc(ok)
        /\ ok => /\ mem' = Put(mem, Block(0, NULL))
                 /\ stack' = SetTop([Top EXCEPT !.pc = pc, !.blk = New(mem)])
  BY DEF StringBlock, CallStart
<1>4. ok /\ CanMalloc(mem)
  BY <1>3, AllAllocated
<1>5. PICK f : f = [Top EXCEPT !.pc = pc, !.blk = New(mem)]
  OBVIOUS
<1>6. f.got = <<>> /\ f.blk = New(mem) /\ f.pc = pc
  BY <1>2, <1>5 DEF Frame
<1>7. Moved(f)
  BY <1>3, <1>4, <1>5 DEF Moved
<1>8. PICK c : c = Block(0, NULL)
  OBVIOUS
<1>9. c \in Cell /\ Blank(c) /\ c.type = "block" /\ c.refs = 0
  <2>1. c.type = "block" /\ c.refs = 0 /\ ~c.isref /\ c.buf = NULL
    BY <1>8 DEF Block, NewCell
  <2> QED
    BY <1>8, <2>1, ConstructorTypes DEF Blank, Pointers
<1>10. PICK t : t = <<Len(stack), 0>>
  OBVIOUS
<1>11. t[1] = Len(stack) /\ t[2] = 0 /\ Len(stack) \in Nat
  BY <1>1, <1>10, FrameAt, CalmFacts DEF Calmly
<1> DEFINE R == Without(0)
           W == [s \in Holders \cup {t} |-> IF s = t THEN New(mem) ELSE Held0[s]]
<1>12. Lower(R) /\ R = Holders \ {t} /\ R \subseteq Holders
  BY <1>1, <1>10, WithoutLower DEF Without
<1>13. W[t] = New(mem) /\ \A s \in Holders \ {t} : W[s] = Held0[s]
  OBVIOUS
<1>14. Store(mem, variables.insts, R, Held0)
  BY <1>1, <1>12, CalmFacts, StoreLess
<1>15. mem \in Memory /\ variables.insts \in Seq(VariableInstance) /\ Unfreed(mem)
  BY <1>1, CalmFacts
<1> HIDE DEF R, W, Held0
<1>16. Extended(R, Held0, t, W, New(mem))
  BY <1>12, <1>13 DEF Extended
<1>17. PICK n : n = mem'
  OBVIOUS
<1>18. n = Put(mem, c)
  BY <1>3, <1>4, <1>8, <1>17
<1>19. Store(n, variables.insts, R \cup {t}, W)
  BY <1>4, <1>9, <1>11, <1>14, <1>15, <1>16, <1>18, StorePut
<1>20. /\ \A a \in Addr : n.cells[a] = IF a = New(mem) THEN c ELSE mem.cells[a]
       /\ n.fault = mem.fault
  BY <1>4, <1>15, <1>18, NewFree DEF Put, Memory
<1>21. Releases(mem, mem') /\ Unfreed(mem')
  BY <1>9, <1>15, <1>17, <1>20 DEF Releases, Unheld, Unfreed
<1>22. Under
  BY <1>1, <1>21, UnderKept
<1>23. Low(R \cup {t}, W)
  BY <1>11, <1>12, <1>13 DEF Low, Lower, Held0
<1>24. Proper(mem', variables'.insts, f) /\ HeldAt(f) = {}
  BY <1>6, ProperEmpty DEF HeldAt
<1>25. TypeOK /\ TypeOK' /\ stack # <<>>
  BY <1>1, CalmFacts DEF Calmly
<1>26. Store(mem', variables'.insts, R \cup {t}, W)
  BY <1>1, <1>17, <1>19
<1>27. <<Len(stack), 0>> \in R \cup {t} /\ W[<<Len(stack), 0>>] = f.blk
  BY <1>6, <1>10, <1>13
<1>28. Kept'
  BY <1>7, <1>22, <1>23, <1>24, <1>25, <1>26, <1>27, MoveKept
<1> QED
  BY <1>21, <1>28 DEF Safely

LEMMA StringSafe ==
    ASSUME NEW quiet, Calmly(quiet), StringValue
    PROVE  Safely
<1>1. Running /\ UNCHANGED variables
  BY DEF StringValue, At_
<1>2. PICK ok \in BOOLEAN :
        /\ Malloc(ok)
        /\ ok => mem' = Put(mem, Array("char", Top.node.num, Top.blk)) /\ Return(New(mem))
  BY DEF StringValue
<1>3. ok /\ CanMalloc(mem)
  BY <1>2, AllAllocated
<1>4. PICK s : s = <<Len(stack), 0>>
  OBVIOUS
<1>5. s \in Holders /\ Held0[s] = Top.blk /\ s[2] = 0
  BY <1>1, <1>4, SlotIn
<1>6. Top.blk \in Pointers
  BY <1>1, CalmFacts DEF Frame
<1>7. PICK cap \in Nat : cap = Top.node.num
  BY <1>1, CalmFacts, NodeAssumption
<1>8. PICK elem \in ValueType : elem = "char"
  BY DEF ValueType
<1>9. PICK t : t = Coming
  OBVIOUS
<1>10. PICK v : v = New(mem)
  OBVIOUS
<1>11. PICK W : W = With(v)
  OBVIOUS
<1>12. t \notin Holders /\ t[2] # 0 /\ W[t] = v /\ \A u \in Holders : W[u] = Held0[u]
  BY <1>1, <1>9, <1>11, ComingOutside
<1>13. /\ mem \in Memory /\ variables.insts \in Seq(VariableInstance) /\ Unfreed(mem)
       /\ Store(mem, variables.insts, Holders, Held0)
  BY <1>1, CalmFacts
<1> HIDE DEF Held0
<1>14. Extended(Holders, Held0, t, W, New(mem))
  BY <1>10, <1>12 DEF Extended
<1>15. PICK n : n = mem'
  OBVIOUS
<1>16. n = Put(mem, Array(elem, cap, Held0[s])) /\ Return(v)
  BY <1>2, <1>3, <1>5, <1>7, <1>8, <1>10, <1>15
<1>17. Held0[s] \in Pointers
  BY <1>5, <1>6
<1>18. Store(n, variables.insts, (Holders \ {s}) \cup {t}, W)
  BY <1>3, <1>5, <1>12, <1>13, <1>14, <1>16, <1>17, StoreArray
<1>19. Store(n, variables.insts, Without(0) \cup {Coming}, With(v))
  BY <1>4, <1>9, <1>11, <1>18 DEF Without
<1>20. PICK c : c = Array(elem, cap, Held0[s])
  OBVIOUS
<1>21. c.refs = 0
  BY <1>20 DEF Array, NewCell
<1>22. /\ \A a \in Addr : n.cells[a] = IF a = v THEN c ELSE mem.cells[a]
       /\ n.fault = mem.fault
  BY <1>3, <1>10, <1>13, <1>16, <1>20, NewFree DEF Put, Memory
<1>23. Releases(mem, n) /\ Unfreed(n) /\ Unheld(n, v)
  BY <1>3, <1>10, <1>13, <1>21, <1>22, NewFree DEF Releases, Unheld, Unfreed
<1>24. Lower(Without(0))
  BY <1>1, WithoutLower
<1> QED
  BY <1>1, <1>15, <1>16, <1>19, <1>23, <1>24, AnswerNew

LEMMA BindReturnSafe ==
    ASSUME NEW quiet, Calmly(quiet), BindReturn
    PROVE  Safely
<1>1. Running /\ UNCHANGED variables
  BY DEF BindReturn, At_
<1>2. PICK freed : freed = IF Top.i > 0 THEN Free(mem, Top.blk) ELSE mem
  OBVIOUS
<1>3. PICK ok \in BOOLEAN :
        /\ Malloc(ok)
        /\ mem' = IF ok THEN Put(freed, Scalar("void", 0)) ELSE freed
        /\ Return(IF ok THEN New(freed) ELSE NULL)
  BY <1>2 DEF BindReturn
<1>4. ok /\ CanMalloc(mem)
  BY <1>3, AllAllocated
<1>5. mem \in Memory /\ Store(mem, variables.insts, Holders, Held0) /\ Unfreed(mem)
  BY <1>1, CalmFacts
<1>6. Lower(Without(0)) /\ Without(0) \subseteq Holders
  BY <1>1, WithoutLower DEF Without
<1>7. /\ Store(freed, variables.insts, Without(0), Held0) /\ Unfreed(freed)
      /\ Releases(mem, freed) /\ freed \in Memory /\ CanMalloc(freed)
  <2>1. CASE Top.i > 0
    <3>1. freed = Free(mem, Top.blk)
      BY <1>2, <2>1
    <3>2. freed \in Memory /\ NoNew(mem, freed)
      BY <1>5, <3>1, FreeType
    <3>3. CanMalloc(freed)
      BY <1>4, <3>2 DEF CanMalloc, NoNew
    <3> QED
      BY <1>1, <3>1, <3>2, <3>3, FreeSlot
  <2>2. CASE ~(Top.i > 0)
    <3>1. freed = mem
      BY <1>2, <2>2
    <3> QED
      BY <1>4, <1>5, <1>6, <3>1, StoreLess, SameReleases
  <2> QED
    BY <2>1, <2>2
<1>8. PICK c : c = Scalar("void", 0)
  OBVIOUS
<1>9. NewValue(c)
  <2>1. "void" \in ValueType /\ 0 \in Int
    BY DEF ValueType
  <2> QED
    BY <1>8, <2>1, ConstructorTypes, ScalarNew
<1>10. PICK v : v = New(freed)
  OBVIOUS
<1>11. PICK n : n = mem'
  OBVIOUS
<1>12. n = Put(freed, c) /\ Return(v)
  BY <1>3, <1>4, <1>8, <1>10, <1>11
<1> HIDE DEF Held0
<1>13. /\ Store(n, variables.insts, Without(0) \cup {Coming}, With(v)) /\ n.fault = freed.fault
       /\ Unheld(n, v) /\ Releases(freed, n)
  BY <1>1, <1>6, <1>7, <1>9, <1>10, <1>12, PutNew
<1>14. Unfreed(n) /\ Releases(mem, n)
  BY <1>7, <1>13, ReleasesTransitive DEF Unfreed
<1> QED
  BY <1>1, <1>6, <1>11, <1>12, <1>13, <1>14, AnswerNew

\* The memory k holds the new value v for the caller, and what R holds.
Pending(k, R, v) ==
    /\ k \in Memory /\ Store(k, variables.insts, R \cup {Coming}, With(v))
    /\ v \in Addr /\ Unheld(k, v) /\ Releases(mem, k) /\ Unfreed(k)

LEMMA PendingNew ==
    ASSUME NEW quiet, Calmly(quiet), Running, CanMalloc(mem), NEW k, Read(mem, k),
           NEW c, NewValue(c), NEW n, n = Put(k, c)
    PROVE  Pending(n, Holders, New(mem))
<1>1. mem \in Memory /\ Store(mem, variables.insts, Holders, Held0)
  BY CalmFacts
<1>2. k \in Memory /\ k.cells = mem.cells /\ Unfreed(k)
  BY DEF Read
<1>3. Store(k, variables.insts, Holders, Held0)
  BY <1>1, <1>2, StoreSame
<1>4. New(k) = New(mem) /\ CanMalloc(k)
  BY <1>2, SameNew
<1>5. Lower(Holders)
  BY DEF Lower
<1>6. PICK v : v = New(k)
  OBVIOUS
<1> HIDE DEF Held0
<1>7. /\ Store(n, variables.insts, Holders \cup {Coming}, With(v)) /\ n.fault = k.fault
      /\ n \in Memory /\ Unheld(n, v) /\ Releases(k, n)
  BY <1>2, <1>3, <1>4, <1>5, <1>6, PutNew
<1>8. v \in Addr
  BY <1>4, <1>6, NewFree
<1>9. Releases(mem, n) /\ Unfreed(n)
  BY <1>2, <1>7 DEF Releases, Unheld, Unfreed
<1> QED
  BY <1>4, <1>6, <1>7, <1>8, <1>9 DEF Pending

LEMMA PendingDestroy ==
    ASSUME NEW quiet, Calmly(quiet), Running, NEW k, NEW R \in SUBSET Holders, NEW v, Pending(k, R, v),
           NEW j \in HeldAt(Top), <<Len(stack), j>> \in R,
           NEW n, n = RuntimeDestroy(k, Top.got[j])
    PROVE  Pending(n, R \ {<<Len(stack), j>>}, v)
<1>1. PICK s : s = <<Len(stack), j>>
  OBVIOUS
<1>2. j # 0
  BY CalmFacts, HeldAtType
<1>3. s \in Holders /\ Held0[s] = Top.got[j] /\ s[2] # 0 /\ s \in R
  BY <1>1, <1>2, SlotIn
<1>4. PICK t : t = Coming
  OBVIOUS
<1>5. PICK W : W = With(v)
  OBVIOUS
<1>6. W[s] = Held0[s] /\ t \notin Holders
  BY <1>3, <1>4, <1>5, ComingOutside
<1>7. /\ k \in Memory /\ Store(k, variables.insts, R \cup {t}, W)
      /\ v \in Addr /\ Unheld(k, v) /\ Releases(mem, k) /\ Unfreed(k)
  BY <1>4, <1>5 DEF Pending
<1>8. variables.insts \in Seq(VariableInstance)
  BY CalmFacts
<1> HIDE DEF Held0
<1>9. n = RuntimeDestroy(k, W[s])
  BY <1>3, <1>6
<1>10. PICK S : S = R \cup {t}
  OBVIOUS
<1>11. /\ Store(n, variables.insts, S \ {s}, W) /\ (Unfreed(k) => Unfreed(n))
       /\ n.fault = "none" => k.fault = "none" /\ IsValue(k, W[s])
       /\ Releases(k, n) /\ Spares(k, n)
  <2>1. s \in S /\ Store(k, variables.insts, S, W)
    BY <1>3, <1>7, <1>10
  <2> QED
    BY <1>3, <1>7, <1>8, <1>9, <2>1, StoreDestroy
<1>12. S \ {s} = (R \ {s}) \cup {t} /\ (R \cup {t}) \ {s} = (R \ {s}) \cup {t}
  BY <1>3, <1>6, <1>10
<1>13. n \in Memory
  BY <1>7, RuntimeDestroyType
<1>14. Releases(mem, n)
  BY <1>7, <1>11, ReleasesTransitive
<1>15. Unheld(n, v)
  BY <1>7, <1>11 DEF Releases
<1> QED
  BY <1>1, <1>4, <1>5, <1>7, <1>11, <1>12, <1>13, <1>14, <1>15 DEF Pending

LEMMA PendingAnswer ==
    ASSUME NEW quiet, Calmly(quiet), Running, UNCHANGED variables, NEW v, Return(v), NEW R,
           Lower(R), Pending(mem', R, v)
    PROVE  Safely
<1>1. PICK n : n = mem'
  OBVIOUS
<1>2. /\ Store(n, variables.insts, R \cup {Coming}, With(v))
      /\ Unheld(n, v) /\ Releases(mem, n) /\ Unfreed(n)
  BY <1>1 DEF Pending
<1> QED
  BY <1>1, <1>2, AnswerNew

LEMMA UnaryNewSafe ==
    ASSUME NEW quiet, Calmly(quiet), UnaryNew
    PROVE  Safely
<1>1. /\ Running /\ UNCHANGED variables /\ Top.node.kind = "unary" /\ Top.pc = "operand"
  BY DEF UnaryNew, At_
<1> DEFINE v == Got(1)
           c == At(mem, v)
<1>2. PICK ok \in BOOLEAN, g \in Garbage :
        LET new == IF Top.node.op = "*" THEN Element(mem, c, g)
                   ELSE UnaryValue(Top.node.op, c, g)
            read == IF Top.node.op = "*" THEN Touch(Touch(mem, v), c.buf)
                    ELSE Touch(mem, v)
        IN  /\ Malloc(ok)
            /\ mem' = RuntimeDestroy(IF ok THEN Put(read, new) ELSE read, v)
            /\ Return(IF ok THEN New(mem) ELSE NULL)
  BY DEF UnaryNew
<1>3. ok /\ CanMalloc(mem)
  BY <1>2, AllAllocated
<1>4. PICK new : new = IF Top.node.op = "*" THEN Element(mem, c, g)
                       ELSE UnaryValue(Top.node.op, c, g)
  OBVIOUS
<1>5. PICK read : read = IF Top.node.op = "*" THEN Touch(Touch(mem, v), c.buf)
                         ELSE Touch(mem, v)
  OBVIOUS
<1>6. mem' = RuntimeDestroy(Put(read, new), v) /\ Return(New(mem))
  BY <1>2, <1>3, <1>4, <1>5
<1>7. mem \in Memory /\ Read(mem, mem)
  BY <1>1, CalmFacts DEF Read
<1>8. c \in Cell /\ g \in Int
  BY <1>7, AtType, GarbageAssumption
<1>9. NewValue(new)
  BY <1>4, <1>7, <1>8, ElementNew, ComputedNew
<1>10. Readable(v)
  BY <1>1, GotReadable
<1>11. Read(mem, read)
  <2>1. Read(mem, Touch(mem, v))
    BY <1>7, <1>10, TouchRead DEF Readable, IsValue
  <2>2. Read(mem, Touch(Touch(mem, v), c.buf))
    BY <1>10, <2>1, TouchRead DEF Readable
  <2> QED
    BY <1>5, <2>1, <2>2
<1>12. PICK k : k = Put(read, new)
  OBVIOUS
<1>13. Pending(k, Holders, New(mem))
  BY <1>1, <1>3, <1>9, <1>11, <1>12, PendingNew
<1>14. One(Top)
  BY <1>1 DEF One
<1>15. PICK j \in HeldAt(Top) : j = 1 /\ v = Top.got[j]
  BY <1>1, <1>14, OneResult
<1>16. <<Len(stack), j>> \in Holders
  BY <1>1, SlotIn
<1>17. PICK n : n = mem'
  OBVIOUS
<1>18. n = RuntimeDestroy(k, Top.got[j])
  BY <1>6, <1>12, <1>15, <1>17
<1>19. Pending(n, Holders \ {<<Len(stack), j>>}, New(mem))
  BY <1>1, <1>13, <1>16, <1>18, PendingDestroy
<1>20. Pending(mem', Without(j), New(mem)) /\ Lower(Without(j))
  BY <1>1, <1>17, <1>19, WithoutLower DEF Without
<1> QED
  BY <1>1, <1>6, <1>20, PendingAnswer

\* The operands are destroyed once the new value is there.
LEMMA PairNew ==
    ASSUME NEW quiet, Calmly(quiet), Running, UNCHANGED variables, InAt(Top, Pair, "right"),
           CanMalloc(mem), NEW read, Read(mem, read), NEW c, NewValue(c),
           mem' = DestroyOperands(Put(read, c)), Return(New(mem))
    PROVE  Safely
<1>1. Top.got \in Seq(Pointers) /\ Len(Top.got) = 2 /\ Top.pc = "right"
  BY CalmFacts DEF Ready, InAt
<1>2. /\ DOMAIN Top.got = {1, 2} /\ HeldAt(Top) = {1, 2}
      /\ Got(1) = Top.got[1] /\ Got(2) = Top.got[2]
  BY <1>1 DEF HeldAt, Got
<1>3. PICK i \in HeldAt(Top) : i = 1
  BY <1>2
<1>4. PICK j \in HeldAt(Top) : j = 2
  BY <1>2
<1>5. PICK k : k = Put(read, c)
  OBVIOUS
<1>6. PICK l : l = RuntimeDestroy(k, Top.got[i])
  OBVIOUS
<1>7. PICK n : n = mem'
  OBVIOUS
<1>8. n = RuntimeDestroy(l, Top.got[j])
  BY <1>2, <1>3, <1>4, <1>5, <1>6, <1>7 DEF DestroyOperands
<1>9. Pending(k, Holders, New(mem))
  BY <1>5, PendingNew
<1>10. <<Len(stack), i>> \in Holders /\ <<Len(stack), j>> \in Holders
  BY SlotIn
<1>11. Pending(l, Holders \ {<<Len(stack), i>>}, New(mem))
  BY <1>6, <1>9, <1>10, PendingDestroy
<1>12. PICK R \in SUBSET Holders : R = Without(i)
  BY DEF Without
<1>13. <<Len(stack), j>> \in R /\ Pending(l, R, New(mem))
  BY <1>3, <1>4, <1>10, <1>11, <1>12 DEF Without
<1>14. Pending(n, R \ {<<Len(stack), j>>}, New(mem))
  BY <1>8, <1>13, PendingDestroy
<1>15. Lower(R \ {<<Len(stack), j>>})
  <2>1. Lower(Without(i)) /\ Lower(Without(j))
    BY WithoutLower
  <2> QED
    BY <1>12, <2>1 DEF Lower, Without
<1> QED
  BY <1>7, <1>14, <1>15, PendingAnswer

LEMMA PairSafe ==
    ASSUME NEW quiet, Calmly(quiet), Binary \/ ArrayElement
    PROVE  Safely
<1>1. Running /\ UNCHANGED variables /\ InAt(Top, Pair, "right")
  BY DEF Binary, ArrayElement, At_, InAt, Pair
<1>2. ~failed' /\ mem \in Memory /\ Read(mem, mem)
  BY <1>1, CalmFacts DEF Calmly, Read
<1>3. Readable(Got(1)) /\ Readable(Got(2))
  BY <1>1, GotReadable DEF InAt
<1>4. PICK read : read = Touch(Touch(mem, Got(1)), Got(2))
  OBVIOUS
<1>5. Read(mem, read)
  <2>1. Read(mem, Touch(mem, Got(1)))
    BY <1>2, <1>3, TouchRead DEF Readable, IsValue
  <2> QED
    BY <1>3, <1>4, <2>1, TouchRead DEF Readable, IsValue
<1>6. At(mem, Got(1)) \in Cell /\ At(mem, Got(2)) \in Cell
  BY <1>2, AtType
<1>7. CASE Binary
  <2>1. PICK g \in Garbage :
          IF Top.node.op = "/" /\ AsFloat(At(mem, Got(2)), g) = 0 THEN failed' = TRUE
          ELSE \E ok \in BOOLEAN :
                 /\ Malloc(ok)
                 /\ mem' = DestroyOperands(
                        IF ok THEN Put(read, BinaryValue(Top.node.op, At(mem, Got(1)),
                                                         At(mem, Got(2)), g)) ELSE read)
                 /\ Return(IF ok THEN New(mem) ELSE NULL)
    BY <1>4, <1>7 DEF Binary
  <2>2. Top.node.op = "/" => AsFloat(At(mem, Got(2)), g) # 0
    BY <1>2, <2>1
  <2>3. PICK c : c = BinaryValue(Top.node.op, At(mem, Got(1)), At(mem, Got(2)), g)
    OBVIOUS
  <2>4. PICK ok \in BOOLEAN :
          /\ Malloc(ok)
          /\ mem' = DestroyOperands(IF ok THEN Put(read, c) ELSE read)
          /\ Return(IF ok THEN New(mem) ELSE NULL)
    BY <2>1, <2>2, <2>3
  <2>5. ok /\ CanMalloc(mem)
    BY <2>4, AllAllocated
  <2>6. Top.node.op \in BinaryOp
    BY <1>1, <1>7, CalmFacts, ShapeAssumption DEF Binary, At_
  <2>7. NewValue(c)
    BY <1>6, <2>2, <2>3, <2>6, GarbageAssumption, ComputedNew
  <2>8. mem' = DestroyOperands(Put(read, c)) /\ Return(New(mem))
    BY <2>4, <2>5
  <2> QED
    BY <1>1, <1>5, <2>5, <2>7, <2>8, PairNew
<1>8. CASE ArrayElement
  <2>1. PICK g \in Garbage :
          LET target == Truncate(AsFloat(At(mem, Got(2)), g), FloatUnit)
              c == At(mem, Got(1))
          IN  IF target < 0 \/ (c.cap > 0 /\ target > c.cap - 1) THEN failed' = TRUE
              ELSE \E ok \in BOOLEAN :
                     /\ Malloc(ok)
                     /\ mem' = DestroyOperands(
                            IF ok THEN Put(Touch(read, c.buf), Element(mem, c, g))
                            ELSE read)
                     /\ Return(IF ok THEN New(mem) ELSE NULL)
    BY <1>4, <1>8 DEF ArrayElement
  <2>2. PICK c : c = Element(mem, At(mem, Got(1)), g)
    OBVIOUS
  <2>3. PICK more : more = Touch(read, At(mem, Got(1)).buf)
    OBVIOUS
  <2>4. PICK ok \in BOOLEAN :
          /\ Malloc(ok)
          /\ mem' = DestroyOperands(IF ok THEN Put(more, c) ELSE read)
          /\ Return(IF ok THEN New(mem) ELSE NULL)
    BY <1>2, <2>1, <2>2, <2>3
  <2>5. ok /\ CanMalloc(mem)
    BY <2>4, AllAllocated
  <2>6. NewValue(c)
    BY <1>2, <1>6, <2>2, GarbageAssumption, ElementNew
  <2>7. Read(mem, more)
    BY <1>3, <1>5, <2>3, TouchRead DEF Readable
  <2>8. mem' = DestroyOperands(Put(more, c)) /\ Return(New(mem))
    BY <2>4, <2>5
  <2> QED
    BY <1>1, <2>5, <2>6, <2>7, <2>8, PairNew
<1> QED
  BY <1>7, <1>8

(***************************************************************************)
(* Variables: they are read, added, given another value and dropped.       *)
(***************************************************************************)
LEMMA GetSees ==
    ASSUME NEW s, NEW chain, NEW id, NEW i, i = Get(s, chain, id), i # 0
    PROVE  i \in DOMAIN s.insts /\ CanAccess(s.insts[i], chain)
<1> DEFINE S == {j \in DOMAIN s.insts : s.insts[j].id = id /\ CanAccess(s.insts[j], chain)}
<1>1. Topmost(S) \in S \cup {0}
  BY TopmostType
<1> QED
  BY <1>1 DEF Get

\* The activation that waits for a variable or an assignment.
LEMMA ParentWelcome ==
    ASSUME NEW quiet, Calmly(quiet), Running, Top.node.kind \in {"var", "assign"},
           NEW p, p = stack[Len(stack) - 1]
    PROVE  /\ Len(stack) # 1 /\ ~Fresh(p)
           /\ p.node.kind \in Operators => Top.node.kind = "var" /\ Top.chain = p.chain
<1>1. TypeOK /\ stack # <<>> /\ Core(quiet) /\ Tame(quiet) /\ Top.node \in Node
      /\ Plain(quiet)
  BY CalmFacts DEF Calmly
<1>2. /\ DOMAIN stack = 1 .. Len(stack) /\ Len(stack) \in Nat /\ Len(stack) >= 1
      /\ Top = stack[Len(stack)] /\ \A j \in DOMAIN stack : stack[j] \in Frame
  BY <1>1, FrameAt
<1>3. Len(stack) # 1
  <2>1. stack[1].node.kind = "func"
    BY <1>1 DEF Core, Stacked, Frames
  <2> QED
    BY <1>2, <2>1
<1>4. Len(stack) - 1 \in DOMAIN stack /\ Len(stack) - 1 + 1 = Len(stack)
  BY <1>2, <1>3
<1>5. p \in Frame /\ p.node \in Node /\ OwnOK(p)
  BY <1>1, <1>2, <1>4 DEF Core, Stacked, Frames, Frame
<1>6. WaitsFor(p, Top)
  <2>0. PICK l \in Nat : l = Len(stack) /\ l >= 1 /\ l # 1
    BY <1>2, <1>3
  <2>1. PICK j \in 1 .. Len(stack) - 1 : j = Len(stack) - 1
    BY <2>0
  <2>2. WaitsFor(stack[j], stack[j + 1])
    BY <1>1, BelowWaits
  <2> QED
    BY <1>2, <1>4, <2>1, <2>2
<1>7. PICK k \in DOMAIN p.node.kids :
        Waits(p, k) /\ Top.node = p.node.kids[k] /\ Top.chain = Seen(p)
  BY <1>6 DEF WaitsFor
<1>8. Parsed(p.node) /\ PlainNode(p.node)
  BY <1>1, <1>5 DEF Tame, Plain
<1>9. p.node.kind \in Operators => Top.node.kind = "var"
  BY <1>7, <1>8 DEF Parsed, Operators, Expressions
<1>10. p.node.kind \in Operators => Seen(p) = p.chain
  BY <1>5 DEF OwnOK, OwnsBody, Operators, Seen
<1>11. ~Fresh(p)
  <2>1. ~InAt(p, {"call"}, "await")
    BY <1>7 DEF Waits, InAt, Pair
  <2>2. ~(p.node.kind = "func" /\ p.pc \in {"body", "leave"})
    BY <1>7, <1>8 DEF Waits, InAt, Pair, Parsed
  <2>3. ASSUME InAt(p, {"body"}, "result"), p.node.kids[p.i].kind # "assign" PROVE FALSE
    <3>1. p.node.kind = "body" /\ k = p.i
      BY <1>7, <2>3 DEF Waits, InAt, Pair
    <3>2. p.node.kids[k].kind \in Statements
      BY <1>7, <1>8, <3>1 DEF Parsed
    <3> QED
      BY <1>7, <2>3, <3>1, <3>2 DEF Statements
  <2>4. ASSUME InAt(p, {"if", "for"}, "body") PROVE FALSE
    <3>1. \/ p.node.kind = "if" /\ k = 2
          \/ p.node.kind = "for" /\ k = 4
      BY <1>7, <2>4 DEF Waits, InAt, Pair
    <3>2. p.node.kids[k].kind = "body"
      BY <1>8, <3>1 DEF Parsed
    <3> QED
      BY <1>7, <3>2
  <2>5. ASSUME InAt(p, {"return"}, "value") PROVE FALSE
    <3>1. p.node.kind = "return" /\ p.pc = "value"
      BY <2>5 DEF InAt
    <3>2. k = 1
      BY <1>7, <3>1 DEF Waits, InAt, Pair
    <3>3. p.node.kids[1].kind \in Expressions \ {"var"}
      BY <1>8, <3>1 DEF Parsed, PlainNode
    <3> QED
      BY <1>7, <3>2, <3>3 DEF Expressions, Operators
  <2>6. ASSUME InAt(p, {"return"}, "body") PROVE FALSE
    <3>1. p.node.kind = "return" /\ k = 2
      BY <1>7, <2>6 DEF Waits, InAt, Pair
    <3>2. Len(p.node.kids) = 2
      <4>1. Len(p.node.kids) \in {1, 2} /\ p.node.kids \in Seq(Node)
        BY <1>5, <3>1, ShapeAssumption, NodeType
      <4> QED
        BY <1>7, <3>1, <4>1
    <3>3. p.node.kids[2].kind = "body"
      BY <1>8, <3>1, <3>2 DEF Parsed
    <3> QED
      BY <1>7, <3>1, <3>3
  <2> QED
    BY <2>1, <2>2, <2>3, <2>4, <2>5, <2>6 DEF Fresh
<1> QED
  BY <1>3, <1>7, <1>9, <1>10, <1>11

LEMMA VariableSafe ==
    ASSUME NEW quiet, Calmly(quiet), Variable
    PROVE  Safely
<1>1. Running /\ UNCHANGED variables /\ Top.node.kind = "var"
  BY DEF Variable, At_
<1>2. PICK i : i = Get(variables, Top.chain, Top.node.id)
  OBVIOUS
<1>3. mem \in Memory /\ Unfreed(mem) /\ mem.fault = "none"
      /\ Store(mem, variables.insts, Holders, Held0)
  BY <1>1, CalmFacts
<1>4. CASE i = 0
  <2>1. mem' = Touch(mem, NULL)
    BY <1>2, <1>4 DEF Variable
  <2>2. mem'.fault = "null_dereference"
    BY <1>3, <2>1, AddrAssumption DEF Touch, Raise, Live, Memory
  <2> QED
    BY <2>2 DEF Safely, Unfreed
<1>5. CASE i # 0
  <2>1. PICK v : v = variables.insts[i].val
    OBVIOUS
  <2>2. Return(v) /\ UNCHANGED mem
    BY <1>2, <1>5, <2>1 DEF Variable
  <2>3. i \in DOMAIN variables.insts /\ CanAccess(variables.insts[i], Top.chain)
    BY <1>2, <1>5, GetSees
  <2>4. variables.insts[i].root # GlobalScope
    BY <2>3 DEF Calmly, Core, Layered
  <2>5. Sees(variables.insts, Top, v)
    BY <2>1, <2>3, <2>4 DEF Sees, CanAccess
  <2>6. IsValue(mem, v) /\ ~Unheld(mem, v)
    <3>1. IsValue(mem, v)
      BY <1>3, <2>1, <2>3 DEF Store, Counted
    <3>2. References(variables.insts, v) # 0
      BY <1>1, <2>1, <2>3, CalmFacts, CountType
    <3> QED
      BY <1>3, <3>1, <3>2 DEF Store, Counted, IsValue, Live, Unheld
  <2>7. PICK p : p = stack[Len(stack) - 1]
    OBVIOUS
  <2>8. /\ Len(stack) # 1 /\ ~Fresh(p)
        /\ p.node.kind \in Operators => Top.chain = p.chain
    BY <1>1, <2>7, ParentWelcome
  <2>9. Welcome(v)
    BY <1>1, <2>5, <2>7, <2>8 DEF Welcome, Sees
  <2>10. Low(Holders, Held0)
    BY DEF Low, Held0
  <2>11. Under
    BY <1>1, <2>2, SameReleases, UnderKept
  <2>12. TypeOK /\ stack # <<>> /\ \A j \in 1 .. Len(stack) - 1 : stack[j].pc # "drop"
    BY <1>1, CalmFacts DEF Calmly
  <2>13. Store(mem', variables'.insts, Holders, Held0) /\ IsValue(mem', v) /\ ~Unheld(mem', v)
    BY <1>1, <1>3, <2>2, <2>6
  <2> HIDE DEF Held0
  <2>14. Kept'
    BY <2>2, <2>9, <2>10, <2>11, <2>12, <2>13, PopKept
  <2> QED
    BY <1>3, <2>2, <2>14 DEF Safely
<1> QED
  BY <1>4, <1>5

\* Below the running frame: what no variable has stays so, what is seen stays seen.
LooseBelow(m) == \A j \in 1 .. Len(stack) - 1 : \A i \in DOMAIN stack[j].got :
                    Loose(mem, stack[j].got[i]) => Loose(m, stack[j].got[i])
SeesBelow(vs) == \A j \in 1 .. Len(stack) - 1 : stack[j].node.kind \in Operators =>
                    \A w : Sees(variables.insts, stack[j], w) => Sees(vs, stack[j], w)

LEMMA UnderSees ==
    ASSUME NEW quiet, Calmly(quiet), Running, LooseBelow(mem'), SeesBelow(variables'.insts)
    PROVE  Under
<1>1. ASSUME NEW j \in 1 .. Len(stack) - 1
      PROVE  Proper(mem', variables'.insts, stack[j])
  <2>1. j \in DOMAIN stack /\ stack[j] \in Frame
    BY FrameAt DEF Calmly
  <2>2. PICK f \in Frame : f = stack[j]
    BY <2>1
  <2>3. Proper(mem, variables.insts, f)
    BY <2>1, <2>2 DEF Calmly, Kept
  <2>4. \A i \in DOMAIN f.got : Loose(mem, f.got[i]) => Loose(mem', f.got[i])
    BY <2>2 DEF LooseBelow
  <2>5. f.node.kind \in Operators =>
            \A w : Sees(variables.insts, f, w) => Sees(variables'.insts, f, w)
    BY <2>2 DEF SeesBelow
  <2> QED
    BY <2>2, <2>3, <2>4, <2>5 DEF Proper
<1> QED
  BY <1>1 DEF Under

\* What a frame below holds is not what the running frame holds, unless a
\* variable has it.
LEMMA BelowLoose ==
    ASSUME NEW quiet, Calmly(quiet), Running, NEW k \in HeldAt(Top), NEW v, v = Top.got[k],
           NEW m, ReleasesBut(mem, m, v)
    PROVE  LooseBelow(m)
<1>1. PICK s : s = <<Len(stack), k>>
  OBVIOUS
<1>2. k # 0 /\ s \in Holders /\ Held0[s] = v /\ s[2] # 0 /\ s[1] = Len(stack)
  <2>1. k # 0
    BY CalmFacts, HeldAtType
  <2> QED
    BY <1>1, <2>1, SlotIn
<1>3. Store(mem, variables.insts, Holders, Held0) /\ \A t \in Holders : Held0[t] = Holding(t)
  BY CalmFacts DEF Held0
<1> HIDE DEF Held0
<1>4. ASSUME NEW j \in 1 .. Len(stack) - 1, NEW i \in DOMAIN stack[j].got,
             Loose(mem, stack[j].got[i])
      PROVE  Loose(m, stack[j].got[i])
  <2>1. j \in DOMAIN stack /\ j # Len(stack) /\ j # 0
    <3>1. j \in DOMAIN stack
      BY FrameAt DEF Calmly
    <3>2. PICK l \in Nat : l = Len(stack)
      BY FrameAt DEF Calmly
    <3>3. j \in 1 .. l - 1
      BY <3>2
    <3>4. j # l /\ j # 0
      BY <3>2, <3>3
    <3> QED
      BY <3>1, <3>2, <3>4
  <2>2. PICK f \in Frame : f = stack[j]
    BY <2>1, FrameAt DEF Calmly
  <2>3. HeldAt(f) = DOMAIN f.got
    BY <2>2, BelowWaits DEF Calmly
  <2>4. PICK t : t = <<j, i>>
    OBVIOUS
  <2>5. t[1] = j /\ t[2] = i /\ i # 0 /\ f.got[i] \in Pointers
    BY <2>2, <2>4 DEF Frame
  <2>6. t \in Holders
    BY <2>1, <2>2, <2>3, <2>4, HolderIn
  <2>7. Holding(t) = f.got[i]
    BY <2>1, <2>2, <2>5 DEF Holding
  <2>8. t # s
    BY <1>2, <2>1, <2>5
  <2>9. v # NULL /\ f.got[i] = v => ~Unheld(mem, v)
    BY <1>2, <1>3, <2>6, <2>7, <2>8 DEF Store, HeldOnce
  <2>10. f.got[i] # NULL => Unheld(mem, f.got[i]) /\ f.got[i] # v
    BY <1>4, <2>2, <2>9 DEF Loose
  <2> QED
    BY <2>2, <2>5, <2>10 DEF Loose, Pointers, ReleasesBut
<1> QED
  BY <1>4 DEF LooseBelow

\* A result becomes the value of a new variable.
Adding(k, x) == /\ Running /\ k \in HeldAt(Top) /\ x.val = Top.got[k] /\ x.val # NULL
                /\ variables'.insts = Append(variables.insts, x)
                /\ mem' = AddReference(mem, x.val)

LEMMA AddedSafe ==
    ASSUME NEW quiet, Calmly(quiet), NEW k, NEW x \in VariableInstance, Adding(k, x)
    PROVE  /\ Store(mem', variables'.insts, Holders, Held0) /\ Under
           /\ Unfreed(mem') /\ Low(Holders, Held0)
<1>1. /\ Running /\ k \in HeldAt(Top) /\ x.val = Top.got[k] /\ x.val # NULL
      /\ variables'.insts = Append(variables.insts, x)
      /\ mem' = AddReference(mem, x.val)
  BY DEF Adding
<1>2. PICK v : v = x.val
  OBVIOUS
<1>3. PICK vs \in Seq(VariableInstance) : vs = variables.insts
  BY <1>1, CalmFacts
<1>4. PICK ws : ws = variables'.insts
  OBVIOUS
<1>5. ws \in Seq(VariableInstance) /\ Longer(vs, ws, x)
  <2>1. ws = Append(vs, x)
    BY <1>1, <1>3, <1>4
  <2> QED
    BY <2>1, AppendLonger
<1>6. mem \in Memory /\ Store(mem, vs, Holders, Held0) /\ Unfreed(mem)
  BY <1>1, <1>3, CalmFacts
<1>7. PICK s : s = <<Len(stack), k>>
  OBVIOUS
<1>8. k # 0 /\ s \in Holders /\ Held0[s] = v /\ s[2] # 0 /\ s[1] = Len(stack)
  <2>1. k # 0
    BY <1>1, CalmFacts, HeldAtType
  <2> QED
    BY <1>1, <1>2, <1>7, <2>1, SlotIn
<1>9. Low(Holders, Held0)
  BY DEF Low, Held0
<1>10. \A t \in Holders : Held0[t] = Holding(t)
  BY DEF Held0
<1> HIDE DEF Held0
<1>11. IsValue(mem, v)
  BY <1>1, <1>2, <1>6, <1>8 DEF Store, HeldOnce, IsValue
<1>12. PICK n : n = mem'
  OBVIOUS
<1>13. n = AddReference(mem, v)
  BY <1>1, <1>2, <1>12
<1>14. /\ Store(n, ws, Holders, Held0) /\ n.fault = mem.fault
       /\ ~Unheld(n, v) /\ IsValue(n, v)
  BY <1>2, <1>5, <1>6, <1>11, <1>13, StoreAdd
<1>15. \A a \in Addr : Unheld(mem, a) /\ a # v => Unheld(n, a)
  BY <1>2, <1>5, <1>6, <1>11, <1>13, StoreAdd
<1>16. LooseBelow(mem')
  <2>1. ReleasesBut(mem, n, v)
    BY <1>15 DEF ReleasesBut
  <2>2. LooseBelow(n)
    BY <1>1, <1>2, <2>1, BelowLoose
  <2> QED
    BY <1>12, <2>2
<1>17. SeesBelow(variables'.insts)
  <2>1. \A i \in DOMAIN vs : i \in DOMAIN ws /\ ws[i] = vs[i]
    BY <1>5 DEF Longer
  <2> QED
    BY <1>3, <1>4, <2>1 DEF SeesBelow, Sees
<1>18. Under
  BY <1>1, <1>16, <1>17, UnderSees
<1> QED
  BY <1>4, <1>6, <1>9, <1>12, <1>14, <1>18 DEF Unfreed

\* A variable is always added: no allocation fails.
LEMMA AllAdded ==
    ASSUME NEW quiet, Calmly(quiet), NEW ok \in BOOLEAN, NEW x, AddVariable(ok, x)
    PROVE  ok /\ variables'.insts = Append(variables.insts, x) /\ x \in VariableInstance
<1>1. failures = 0 /\ failures' = 0
  BY DEF Calmly, Steady
<1>2. ok
  BY <1>1 DEF AddVariable
<1>3. variables'.insts = Append(variables.insts, x)
  BY <1>2 DEF AddVariable, Add
<1>4. x \in VariableInstance
  <2> DEFINE T == VariableInstance \cup {x}
  <2>1. variables.insts \in Seq(T) /\ variables'.insts \in Seq(VariableInstance) /\ x \in T
    BY DEF Calmly, TypeOK
  <2> HIDE DEF T
  <2>2. PICK vs \in Seq(T) : vs = variables.insts
    BY <2>1
  <2>3. PICK ws \in Seq(VariableInstance) : ws = variables'.insts
    BY <2>1
  <2>4. ws = Append(vs, x) /\ x \in T
    BY <1>3, <2>1, <2>2, <2>3
  <2>5. DOMAIN ws = 1 .. Len(vs) + 1 /\ ws[Len(vs) + 1] = x /\ Len(vs) \in Nat
    BY <2>4
  <2>6. Len(vs) + 1 \in DOMAIN ws
    BY <2>5
  <2> QED
    BY <2>5, <2>6
<1> QED
  BY <1>2, <1>3, <1>4

LEMMA NullFault ==
    ASSUME NEW m \in Memory, m.fault = "none", NEW n,
           \/ n = AddReference(m, NULL)
           \/ \E v : /\ v = NULL \/ Live(m, v)
                     /\ n \in {Raise(AddReference(m, v), "wild_pointer"), Touch(AddReference(m, v), NULL)}
    PROVE  Unfreed(n) /\ n.fault # "none"
<1>1. PICK k : k = AddReference(m, NULL)
  OBVIOUS
<1>2. k.fault = "null_dereference" /\ k \in Memory
  BY <1>1, AddrAssumption, AddReferenceType DEF AddReference, Touch, Raise, Live, Memory
<1>3. CASE n = k
  BY <1>2, <1>3 DEF Unfreed
<1>4. ASSUME NEW v, v = NULL \/ Live(m, v),
             n \in {Raise(AddReference(m, v), "wild_pointer"), Touch(AddReference(m, v), NULL)}
      PROVE  Unfreed(n) /\ n.fault # "none"
  <2>1. PICK l : l = AddReference(m, v)
    OBVIOUS
  <2>2. l \in Memory
    BY <2>1, AddReferenceType
  <2>3. Unfreed(l)
    BY <1>1, <1>2, <1>4, <2>1 DEF AddReference, Unfreed
  <2>4. CASE n = Raise(l, "wild_pointer")
    <3>1. n.fault = IF l.fault = "none" THEN "wild_pointer" ELSE l.fault
      BY <2>2, <2>4 DEF Raise, Memory
    <3> QED
      BY <2>3, <3>1 DEF Unfreed
  <2>5. CASE n = Touch(l, NULL)
    <3>1. n.fault = IF l.fault = "none" THEN "null_dereference" ELSE l.fault
      BY <2>2, <2>5, AddrAssumption DEF Touch, Live, Raise, Memory
    <3> QED
      BY <2>3, <3>1 DEF Unfreed
  <2> QED
    BY <1>4, <2>1, <2>4, <2>5
<1> QED
  BY <1>1, <1>3, <1>4

LEMMA ArgumentSafe ==
    ASSUME NEW quiet, Calmly(quiet), FunctionArgument
    PROVE  Safely
<1>1. Running /\ Top.node.kind = "func" /\ Top.pc = "start" /\ Top.i < Len(Top.got)
  BY DEF FunctionArgument, At_
<1>2. Top \in Frame /\ Top.got \in Seq(Pointers) /\ Top.i \in Nat
  BY <1>1, CalmFacts DEF Frame
<1>3. PICK k : k = Top.i + 1
  OBVIOUS
<1>4. k \in HeldAt(Top) /\ Got(Top.i + 1) = Top.got[k] /\ Top.got[k] \in Pointers
      /\ HeldAt(Top) = DOMAIN Top.got
  BY <1>1, <1>2, <1>3 DEF HeldAt, Got
<1>5. PICK v \in Pointers : v = Top.got[k]
  BY <1>4
<1>6. PICK held : held = AddReference(mem, v)
  OBVIOUS
<1>7. Readable(v)
  BY <1>1, <1>4, <1>5, ResultReadable
<1>8. mem \in Memory /\ mem.fault = "none" /\ TypeOK /\ TypeOK' /\ stack # <<>>
  BY <1>1, CalmFacts DEF Calmly
<1>9. CASE k \notin DOMAIN Top.node.params \/ v = NULL
  <2>1. mem' = Raise(held, "wild_pointer")
    BY <1>3, <1>4, <1>5, <1>6, <1>9 DEF FunctionArgument
  <2>2. v = NULL \/ Live(mem, v)
    BY <1>7 DEF Readable, IsValue
  <2>3. PICK n : n = mem'
    OBVIOUS
  <2>4. Unfreed(n) /\ n.fault # "none"
    BY <1>6, <1>8, <2>1, <2>2, <2>3, NullFault
  <2> QED
    BY <2>3, <2>4 DEF Safely
<1>10. CASE ~(k \notin DOMAIN Top.node.params \/ v = NULL)
  <2>1. PICK x : x = Instance(Top.own, Top.node.params[k], v)
    OBVIOUS
  <2>2. PICK ok \in BOOLEAN :
          /\ AddVariable(ok, x)
          /\ mem' = IF ok THEN held ELSE InstanceDestroy(held, v)
          /\ stack' = SetTop(IF ok THEN [Top EXCEPT !.i = @ + 1]
                             ELSE [Top EXCEPT !.pc = "unwind", !.i = RootStart])
    BY <1>3, <1>4, <1>5, <1>6, <1>10, <2>1 DEF FunctionArgument
  <2>3. ok /\ variables'.insts = Append(variables.insts, x) /\ x \in VariableInstance
    BY <2>2, AllAdded
  <2>4. x.val = v
    BY <2>1 DEF Instance
  <2>5. Adding(k, x)
    BY <1>1, <1>4, <1>5, <1>6, <1>10, <2>2, <2>3, <2>4 DEF Adding
  <2>6. /\ Store(mem', variables'.insts, Holders, Held0) /\ Under
        /\ Unfreed(mem') /\ Low(Holders, Held0)
    BY <2>3, <2>5, AddedSafe
  <2>7. PICK f : f = [Top EXCEPT !.i = @ + 1]
    OBVIOUS
  <2>8. Moved(f)
    BY <2>2, <2>3, <2>7 DEF Moved
  <2>9. f.got = Top.got /\ f.blk = Top.blk /\ f.node = Top.node /\ f.pc = "start"
    BY <1>1, <1>2, <2>7 DEF Frame
  <2>10. HeldAt(f) = HeldAt(Top)
    BY <1>4, <2>9 DEF HeldAt
  <2>11. Proper(mem', variables'.insts, f)
    BY <1>1, <2>9 DEF Proper, Fresh, InAt, Operators
  <2>12. <<Len(stack), 0>> \in Holders /\ Held0[<<Len(stack), 0>>] = f.blk
    BY <1>1, <2>9, SlotIn
  <2>13. \A j \in HeldAt(f) : <<Len(stack), j>> \in Holders /\ Held0[<<Len(stack), j>>] = f.got[j]
    <3> SUFFICES ASSUME NEW j \in HeldAt(Top)
                 PROVE  <<Len(stack), j>> \in Holders /\ Held0[<<Len(stack), j>>] = Top.got[j]
      BY <2>9, <2>10
    <3>1. j # 0
      BY <1>2, HeldAtType
    <3> QED
      BY <1>1, <3>1, SlotIn
  <2> HIDE DEF Held0
  <2>14. Kept'
    BY <1>8, <2>6, <2>8, <2>11, <2>12, <2>13, MoveKept
  <2> QED
    BY <2>6, <2>14 DEF Safely
<1> QED
  BY <1>9, <1>10

LEMMA DeclaredSafe ==
    ASSUME NEW quiet, Calmly(quiet), ForVariable \/ Declare
    PROVE  Safely
<1>1. Running /\ One(Top) /\ Top.pc # "drop"
  BY DEF ForVariable, Declare, At_, One, InAt
<1>2. Top \in Frame /\ Top.got \in Seq(Pointers)
  BY <1>1, CalmFacts
<1>3. PICK k \in HeldAt(Top) : k = 1 /\ Got(1) = Top.got[k] /\ Got(1) \in Pointers
  BY <1>1, OneResult
<1>4. PICK v \in Pointers : v = Top.got[k]
  BY <1>3
<1>5. PICK held : held = AddReference(mem, v)
  OBVIOUS
<1>6. /\ mem \in Memory /\ mem.fault = "none" /\ TypeOK /\ TypeOK' /\ stack # <<>>
      /\ \A j \in 1 .. Len(stack) - 1 : stack[j].pc # "drop"
  BY <1>1, CalmFacts DEF Calmly
<1>7. CASE v = NULL
  <2>1. mem' = held
    BY <1>3, <1>4, <1>5, <1>7 DEF ForVariable, Declare
  <2>2. PICK n : n = mem'
    OBVIOUS
  <2>3. n = AddReference(mem, NULL)
    BY <1>5, <1>7, <2>1, <2>2
  <2>4. Unfreed(n) /\ n.fault # "none"
    BY <1>6, <2>3, NullFault
  <2> QED
    BY <2>2, <2>4 DEF Safely
<1>8. CASE v # NULL
  <2>1. \E x : \E ok \in BOOLEAN :
          /\ AddVariable(ok, x) /\ x.val = v
          /\ ok => /\ mem' = held
                   /\ \/ stack' = SetTop([Top EXCEPT !.pc = "test", !.got = <<>>])
                      \/ Return(NULL)
    <3>1. CASE ForVariable
      <4>1. PICK ok \in BOOLEAN :
          /\ AddVariable(ok, Instance(Top.own, Top.node.id, v))
          /\ ok => /\ mem' = held
                   /\ stack' = SetTop([Top EXCEPT !.pc = "test", !.got = <<>>])
        BY <1>3, <1>4, <1>5, <1>8, <3>1 DEF ForVariable
      <4>2. PICK x : x = Instance(Top.own, Top.node.id, v)
        OBVIOUS
      <4>3. x.val = v
        BY <4>2 DEF Instance
      <4> QED
        BY <4>1, <4>2, <4>3
    <3>2. CASE Declare
      <4>1. PICK root : \E ok \in BOOLEAN :
          /\ AddVariable(ok, Instance(root, Top.node.id, v))
          /\ ok => mem' = held /\ Return(NULL)
        BY <1>3, <1>4, <1>5, <1>8, <3>2 DEF Declare
      <4>2. PICK x : x = Instance(root, Top.node.id, v)
        OBVIOUS
      <4>3. x.val = v
        BY <4>2 DEF Instance
      <4> QED
        BY <4>1, <4>2, <4>3
    <3> QED
      BY <3>1, <3>2
  <2>0. PICK x : \E ok \in BOOLEAN :
          /\ AddVariable(ok, x) /\ x.val = v
          /\ ok => /\ mem' = held
                   /\ \/ stack' = SetTop([Top EXCEPT !.pc = "test", !.got = <<>>])
                      \/ Return(NULL)
    BY <2>1
  <2>2. /\ variables'.insts = Append(variables.insts, x) /\ x \in VariableInstance
        /\ mem' = held /\ x.val = v
        /\ \/ stack' = SetTop([Top EXCEPT !.pc = "test", !.got = <<>>])
           \/ Return(NULL)
    BY <2>0, AllAdded
  <2>3. Adding(k, x)
    BY <1>1, <1>4, <1>5, <1>8, <2>2 DEF Adding
  <2>4. /\ Store(mem', variables'.insts, Holders, Held0) /\ Under
        /\ Unfreed(mem') /\ Low(Holders, Held0)
    BY <2>2, <2>3, AddedSafe
  <2>5. CASE stack' = SetTop([Top EXCEPT !.pc = "test", !.got = <<>>])
    <3>1. PICK f : f = [Top EXCEPT !.pc = "test", !.got = <<>>]
      OBVIOUS
    <3>2. f.got = <<>> /\ f.blk = Top.blk /\ f.pc = "test"
      BY <1>2, <3>1 DEF Frame
    <3>3. Moved(f)
      BY <2>5, <3>1 DEF Moved
    <3>4. HeldAt(f) = {} /\ Proper(mem', variables'.insts, f)
      BY <3>2, ProperEmpty DEF HeldAt
    <3>5. <<Len(stack), 0>> \in Holders /\ Held0[<<Len(stack), 0>>] = f.blk
      BY <1>1, <3>2, SlotIn
    <3> HIDE DEF Held0
    <3>6. Kept'
      BY <1>6, <2>4, <3>3, <3>4, <3>5, MoveKept
    <3> QED
      BY <2>4, <3>6 DEF Safely
  <2>6. CASE Return(NULL)
    <3>1. PICK w : w = NULL
      OBVIOUS
    <3>2. Welcome(w) /\ Return(w)
      BY <2>6, <3>1 DEF Welcome, Loose
    <3> HIDE DEF Held0
    <3>3. Kept'
      BY <1>6, <2>4, <3>1, <3>2, PopKept
    <3> QED
      BY <2>4, <3>3 DEF Safely
  <2> QED
    BY <2>2, <2>5, <2>6
<1> QED
  BY <1>7, <1>8

\* No operator below the running frame sees the i-th variable.
Hidden(i) == \A j \in 1 .. Len(stack) - 1 : stack[j].node.kind \in Operators =>
                \A c \in DOMAIN stack[j].chain : stack[j].chain[c] # variables.insts[i].root
\* Only the i-th of the variables changes, or leaves.
Others(vs, ws, i) == \A k \in DOMAIN vs : k # i => k \in DOMAIN ws /\ ws[k] = vs[k]

LEMMA HiddenSees ==
    ASSUME NEW i, Hidden(i), NEW ws, Others(variables.insts, ws, i)
    PROVE  SeesBelow(ws)
BY DEF Hidden, Others, SeesBelow, Sees

LEMMA CountedHeld ==
    ASSUME NEW quiet, Calmly(quiet), Running, NEW i \in DOMAIN variables.insts,
           NEW v, v = variables.insts[i].val
    PROVE  IsValue(mem, v) /\ ~Unheld(mem, v) /\ v # NULL
<1>1. Store(mem, variables.insts, Holders, Held0)
  BY CalmFacts
<1>2. IsValue(mem, v)
  BY <1>1 DEF Store, Counted
<1>3. References(variables.insts, v) # 0
  BY CalmFacts, CountType
<1> QED
  BY <1>1, <1>2, <1>3, AddrAssumption DEF Store, Counted, IsValue, Live, Unheld

LEMMA HiddenShared ==
    ASSUME NEW quiet, Calmly(quiet), Running, NEW i \in DOMAIN variables.insts, Hidden(i),
           NEW ws, Others(variables.insts, ws, i), NEW v, v = variables.insts[i].val,
           NEW R \in SUBSET Holders, \A k \in HeldAt(Top) : <<Len(stack), k>> \in R => Top.got[k] # v
    PROVE  Shared(R, Held0, ws, v)
<1>1. IsValue(mem, v) /\ ~Unheld(mem, v) /\ v # NULL
  BY CountedHeld
<1>2. Store(mem, variables.insts, Holders, Held0)
  BY CalmFacts
<1>3. SeesBelow(ws)
  BY HiddenSees
<1>4. SUFFICES ASSUME NEW s \in R, Held0[s] = v
               PROVE  \E k \in DOMAIN ws : ws[k].val = v
  BY DEF Shared
<1>5. stack # <<>> /\ DOMAIN stack = 1 .. Len(stack) /\ Len(stack) \in Nat
      /\ Top = stack[Len(stack)] /\ TypeOK /\ Core(quiet)
  BY CalmFacts, FrameAt DEF Calmly
<1>6. PICK j \in DOMAIN stack : \E k \in HeldAt(stack[j]) \cup {0} : s = <<j, k>>
  BY <1>5, HolderIn
<1>7. PICK k \in HeldAt(stack[j]) \cup {0} : s = <<j, k>>
  BY <1>6
<1>8. s[1] = j /\ s[2] = k
  BY <1>7
<1>9. Holding(s) = v
  BY <1>4 DEF Held0
<1> HIDE DEF Held0
<1>10. k # 0
  BY <1>1, <1>2, <1>4, <1>8 DEF Store, HeldOnce, IsValue
<1>11. k \in HeldAt(stack[j]) /\ stack[j].got[k] = v
  BY <1>5, <1>8, <1>9, <1>10 DEF Holding
<1>12. j # Len(stack)
  <2> SUFFICES ASSUME j = Len(stack) PROVE FALSE
    OBVIOUS
  <2>1. k \in HeldAt(Top) /\ Top.got[k] = v /\ s = <<Len(stack), k>>
    BY <1>5, <1>7, <1>11
  <2> QED
    BY <1>4, <2>1
<1>13. j \in 1 .. Len(stack) - 1
  <2>1. PICK l \in Nat : l = Len(stack)
    BY <1>5
  <2>2. j \in 1 .. l /\ j # l
    BY <1>5, <1>12, <2>1
  <2>3. j \in 1 .. l - 1
    BY <2>2
  <2> QED
    BY <2>1, <2>3
<1>14. PICK f \in Frame : f = stack[j]
  BY FrameAt DEF Calmly
<1>15. /\ HeldAt(f) = DOMAIN f.got
       /\ \A l \in DOMAIN f.got : f.node.kind \in Operators \/ Fresh(f) \/ f.pc = "target"
  BY <1>5, <1>13, <1>14, BelowWaits
<1>16. k \in DOMAIN f.got /\ f.got[k] = v
  BY <1>11, <1>14, <1>15
<1>17. Proper(mem, variables.insts, f)
  BY <1>14 DEF Calmly, Kept
<1>18. ~Loose(mem, v)
  BY <1>1 DEF Loose
<1>19. f.node.kind \in Operators /\ Sees(variables.insts, f, v)
  BY <1>15, <1>16, <1>17, <1>18 DEF Proper
<1>20. Sees(ws, f, v)
  BY <1>3, <1>13, <1>14, <1>19 DEF SeesBelow
<1> QED
  BY <1>20 DEF Sees

LEMMA RootSafe ==
    ASSUME NEW quiet, Calmly(quiet), RootDestroy
    PROVE  Safely
<1>1. /\ Running /\ Top.node.kind \in {"func", "for"} /\ Top.pc \in {"leave", "unwind"}
      /\ stack' = SetTop([Top EXCEPT !.i = @ - 1]) /\ Top.i > 0
  BY DEF RootDestroy, At_
<1>2. Top \in Frame /\ Proper(mem, variables.insts, Top) /\ TypeOK /\ TypeOK' /\ stack # <<>>
      /\ Core(quiet) /\ mem \in Memory /\ Unfreed(mem) /\ Ready(Top, quiet)
      /\ Store(mem, variables.insts, Holders, Held0) /\ Top.i \in Nat /\ OwnOK(Top)
  <2>1. TypeOK /\ Tame(quiet) /\ Core(quiet)
    BY DEF Calmly, Plain
  <2>2. OwnOK(Top)
    BY <1>1, <2>1, TopFacts
  <2> QED
    BY <1>1, <2>2, CalmFacts DEF Calmly, Frame
<1>3. Top.pc = "leave"
  BY <1>1, <1>2 DEF Proper
<1>4. PICK f : f = [Top EXCEPT !.i = @ - 1]
  OBVIOUS
<1>5. /\ f.got = Top.got /\ f.blk = Top.blk /\ f.node = Top.node /\ f.chain = Top.chain
      /\ f.pc = "leave"
  BY <1>2, <1>3, <1>4 DEF Frame
<1>6. Moved(f)
  BY <1>1, <1>4 DEF Moved
<1>7. Fresh(f) <=> Fresh(Top)
  BY <1>3, <1>5 DEF Fresh, InAt
<1>8. CASE ~RootMatches(variables, Top.i, Top.own)
  <2>1. UNCHANGED <<variables, mem>>
    BY <1>8 DEF RootDestroy
  <2> QED
    BY <1>1, <1>3, <1>5, <1>6, <1>7, <2>1, GoOnAll
<1>9. CASE RootMatches(variables, Top.i, Top.own)
  <2>1. /\ mem' = RemoveReference(mem, variables.insts[Top.i].val)
        /\ variables' = DropLast(variables)
    BY <1>9 DEF RootDestroy
  <2>2. Top.i = Len(variables.insts) /\ variables.insts[Top.i].root = Top.own
    BY <1>2, <1>9, DropsLast
  <2>3. PICK vs \in Seq(VariableInstance) : vs = variables.insts
    BY <1>1, CalmFacts
  <2>4. PICK ws : ws = variables'.insts
    OBVIOUS
  <2>5. PICK i \in DOMAIN vs : i = Top.i
    BY <1>9, <2>3 DEF RootMatches
  <2>6. i = Len(vs) /\ vs # <<>> /\ ws = SubSeq(vs, 1, Len(vs) - 1)
    <3>1. variables'.insts = SubSeq(variables.insts, 1, Len(variables.insts) - 1)
      BY <1>2, <2>1 DEF DropLast, TypeOK, VariableScope
    <3> QED
      BY <2>2, <2>3, <2>4, <2>5, <3>1
  <2>7. PICK x : x = vs[i]
    OBVIOUS
  <2>8. ws \in Seq(VariableInstance) /\ Longer(ws, vs, x)
    BY <2>6, <2>7, FrontLonger
  <2>9. PICK v : v = x.val
    OBVIOUS
  <2>10. IsValue(mem, v) /\ ~Unheld(mem, v) /\ v # NULL
    BY <1>1, <2>3, <2>7, <2>9, CountedHeld
  <2>11. Others(variables.insts, ws, i)
    <3>1. DOMAIN vs = 1 .. Len(ws) + 1 /\ Len(ws) \in Nat /\ Len(vs) = Len(ws) + 1
          /\ \A k \in 1 .. Len(ws) : vs[k] = ws[k]
      <4>1. Len(vs) \in Nat /\ Len(vs) # 0
        BY <2>6
      <4> QED
        BY <2>8, <4>1 DEF Longer
    <3>2. DOMAIN ws = 1 .. Len(ws)
      BY <2>8
    <3>3. \A k \in DOMAIN vs : k # Len(vs) => k \in DOMAIN ws /\ ws[k] = vs[k]
      BY <3>1, <3>2
    <3> QED
      BY <2>3, <2>6, <3>3 DEF Others
  <2>12. Hidden(i)
    <3> SUFFICES ASSUME NEW j \in 1 .. Len(stack) - 1, NEW c \in DOMAIN stack[j].chain,
                        stack[j].chain[c] = Top.own
                 PROVE  FALSE
      BY <2>2, <2>3, <2>5 DEF Hidden
    <3>1. PICK l \in Nat : l = Len(stack) /\ l \in DOMAIN stack /\ Top = stack[l]
      BY <1>2, FrameAt
    <3>2. j \in DOMAIN stack /\ j < l
      <4>1. j \in DOMAIN stack
        BY <1>2, FrameAt
      <4>2. j \in 1 .. l - 1
        BY <3>1
      <4> QED
        BY <4>1, <4>2
    <3>3. PICK g \in DOMAIN stack : g < j /\ stack[g].own = Top.own
      BY <1>2, <3>2 DEF Core, Stacked, Enclosed
    <3>4. Top.own # GlobalScope
      BY <2>2, <2>3, <2>5 DEF Calmly, Core, Layered
    <3>5. g = l
      BY <1>2, <3>1, <3>3, <3>4 DEF Core, Stacked, Distinct
    <3> QED
      BY <3>1, <3>2, <3>3, <3>5, <1>2, FrameAt
  <2>13. \A k \in HeldAt(Top) : Top.got[k] # v
    <3>1. Top.node.kind = "for" => Top.got = <<>>
      BY <1>2, <1>3 DEF Ready, Nothing, InAt
    <3>2. Top.node.kind = "func" => Fresh(Top)
      BY <1>3 DEF Fresh
    <3>3. HeldAt(Top) = DOMAIN Top.got
      BY <1>3 DEF HeldAt
    <3> QED
      BY <1>1, <1>2, <2>10, <3>1, <3>2, <3>3 DEF Proper, Loose
  <2>14. Shared(Holders, Held0, ws, v)
    BY <1>1, <2>3, <2>7, <2>9, <2>11, <2>12, <2>13, HiddenShared
  <2>15. PICK n : n = mem'
    OBVIOUS
  <2>16. n = RemoveReference(mem, v) /\ Store(mem, vs, Holders, Held0)
    BY <1>2, <2>1, <2>3, <2>5, <2>7, <2>9, <2>15
  <2>17. PICK V : V = Held0
    OBVIOUS
  <2>18. Shared(Holders, V, ws, v)
    BY <2>14, <2>17
  <2>19. Store(n, ws, Holders, V) /\ n.fault = mem.fault
    BY <1>2, <2>8, <2>9, <2>16, <2>17, <2>18, StoreDrop
  <2>20. Releases(mem, n)
    BY <1>2, <2>8, <2>9, <2>16, <2>17, <2>18, StoreDrop
  <2>21. LooseBelow(mem')
    <3>1. ReleasesBut(mem, mem', v)
      BY <2>15, <2>20 DEF Releases, ReleasesBut
    <3>2. \A j \in 1 .. Len(stack) - 1 : \A k \in DOMAIN stack[j].got : stack[j].got[k] \in Pointers
      BY <1>2, FrameAt DEF Frame
    <3> QED
      BY <2>15, <2>20, <3>2 DEF LooseBelow, Loose, Releases, Pointers
  <2>22. SeesBelow(variables'.insts)
    BY <2>4, <2>11, <2>12, HiddenSees
  <2>23. Under
    BY <1>1, <2>21, <2>22, UnderSees
  <2>24. Low(Holders, Held0)
    BY DEF Low, Held0
  <2>25. Store(mem', variables'.insts, Holders, Held0) /\ Unfreed(mem')
    BY <1>2, <2>4, <2>15, <2>17, <2>19 DEF Unfreed
  <2>26. HeldAt(f) = DOMAIN Top.got /\ HeldAt(Top) = DOMAIN Top.got
    BY <1>3, <1>5 DEF HeldAt
  <2>27. Proper(mem', variables'.insts, f)
    <3>1. f.node.kind \notin Operators /\ f.pc \notin {"slot", "target", "unwind"}
      BY <1>1, <1>5 DEF Operators
    <3>2. ASSUME Fresh(f), NEW k \in DOMAIN f.got
          PROVE  Loose(mem', f.got[k])
      <4>1. Loose(mem, f.got[k])
        BY <1>2, <1>5, <1>7, <3>2 DEF Proper
      <4>2. f.got[k] \in Pointers
        BY <1>2, <1>5, <3>2 DEF Frame
      <4> QED
        BY <2>15, <2>20, <4>1, <4>2 DEF Loose, Releases, Pointers
    <3> QED
      BY <3>1, <3>2 DEF Proper
  <2>28. <<Len(stack), 0>> \in Holders /\ Held0[<<Len(stack), 0>>] = f.blk
    BY <1>1, <1>5, SlotIn
  <2>29. \A k \in HeldAt(f) : <<Len(stack), k>> \in Holders /\ Held0[<<Len(stack), k>>] = f.got[k]
    <3> SUFFICES ASSUME NEW k \in HeldAt(Top)
                 PROVE  <<Len(stack), k>> \in Holders /\ Held0[<<Len(stack), k>>] = Top.got[k]
      BY <1>5, <2>26
    <3>1. k # 0
      BY <1>2, HeldAtType
    <3> QED
      BY <1>1, <3>1, SlotIn
  <2> HIDE DEF Held0
  <2>30. Kept'
    BY <1>2, <1>6, <2>23, <2>24, <2>25, <2>27, <2>28, <2>29, MoveKept
  <2> QED
    BY <2>25, <2>30 DEF Safely
<1> QED
  BY <1>8, <1>9

\* An assignment reaches only variables of the call it is in.
LEMMA AssignedHidden ==
    ASSUME NEW quiet, Calmly(quiet), Running, Top.node.kind = "assign", NEW i \in DOMAIN variables.insts,
           CanAccess(variables.insts[i], Top.chain)
    PROVE  Hidden(i)
<1> DEFINE r == variables.insts[i].root
<1>1. TypeOK /\ stack # <<>> /\ Core(quiet)
  BY CalmFacts DEF Calmly
<1>2. PICK l \in Nat : l = Len(stack) /\ l \in DOMAIN stack /\ Top = stack[l] /\ DOMAIN stack = 1 .. l
  BY <1>1, FrameAt
<1>3. r # GlobalScope
  BY <1>1 DEF Core, Layered
<1>4. PICK c \in DOMAIN Top.chain : Top.chain[c] = r
  BY <1>3 DEF CanAccess
<1>5. PICK g \in DOMAIN stack : g < l /\ stack[g].own = r /\ NoEntry(g, l)
  BY <1>1, <1>2, <1>4 DEF Core, Stacked, Enclosed
<1>6. SUFFICES ASSUME NEW j \in 1 .. Len(stack) - 1, stack[j].node.kind \in Operators,
                      NEW d \in DOMAIN stack[j].chain, stack[j].chain[d] = r
               PROVE  FALSE
  BY DEF Hidden
<1>7. j \in DOMAIN stack /\ j < l
  <2>1. j \in 1 .. l - 1
    BY <1>2
  <2> QED
    BY <1>2, <2>1
<1>8. PICK h \in DOMAIN stack : h < j /\ stack[h].own = r
  BY <1>1, <1>6, <1>7 DEF Core, Stacked, Enclosed
<1>9. h = g
  BY <1>1, <1>3, <1>5, <1>8 DEF Core, Stacked, Distinct
<1>10. NoEntry(j, l)
  <2>1. \A e \in j + 1 .. l : e \in g + 1 .. l
    BY <1>2, <1>7, <1>8, <1>9
  <2> QED
    BY <1>5, <2>1 DEF NoEntry
<1>11. stack[l].node.kind \notin Expressions
  BY <1>2 DEF Expressions, Operators
<1> QED
  BY <1>1, <1>2, <1>6, <1>7, <1>10, <1>11 DEF Core, Stacked, Shielded

LEMMA AssignSafe ==
    ASSUME NEW quiet, Calmly(quiet), Assign
    PROVE  Safely
<1>1. /\ Running /\ Top.node.kind = "assign" /\ Top.pc = "value" /\ One(Top)
  BY DEF Assign, At_, One, InAt
<1>2. /\ mem \in Memory /\ mem.fault = "none" /\ Unfreed(mem) /\ TypeOK /\ TypeOK' /\ stack # <<>>
      /\ Store(mem, variables.insts, Holders, Held0)
      /\ \A j \in 1 .. Len(stack) - 1 : stack[j].pc # "drop"
  BY <1>1, CalmFacts DEF Calmly
<1>3. PICK k \in HeldAt(Top) : k = 1 /\ Got(1) = Top.got[k] /\ Got(1) \in Pointers /\ HeldAt(Top) = {k}
  BY <1>1, OneResult
<1>4. PICK v \in Pointers : v = Top.got[k]
  BY <1>3
<1>5. PICK held : held = AddReference(mem, v)
  OBVIOUS
<1>6. PICK i : i = Get(variables, Top.chain, Top.node.id)
  OBVIOUS
<1>7. CASE i = 0 \/ v = NULL
  <2>1. PICK n : n = mem'
    OBVIOUS
  <2>2. n = Touch(AddReference(mem, v), NULL)
    BY <1>3, <1>4, <1>5, <1>6, <1>7, <2>1 DEF Assign
  <2>3. v = NULL \/ Live(mem, v)
    BY <1>1, <1>4, ResultReadable DEF Readable, IsValue
  <2>4. Unfreed(n) /\ n.fault # "none"
    BY <1>2, <2>2, <2>3, NullFault
  <2> QED
    BY <2>1, <2>4 DEF Safely
<1>8. CASE ~(i = 0 \/ v = NULL)
  <2>1. /\ mem' = RemoveReference(held, variables.insts[i].val)
        /\ variables' = [variables EXCEPT !.insts[i].val = v]
        /\ Return(v)
    BY <1>3, <1>4, <1>5, <1>6, <1>8 DEF Assign
  <2>2. i \in DOMAIN variables.insts /\ CanAccess(variables.insts[i], Top.chain)
    BY <1>6, <1>8, GetSees
  <2>3. PICK vs \in Seq(VariableInstance) : vs = variables.insts
    BY <1>1, CalmFacts
  <2>4. PICK ws \in Seq(VariableInstance) : ws = variables'.insts
    BY <1>2 DEF TypeOK
  <2>5. Replaced(vs, ws, i) /\ ws[i].val = v
    <3>1. ws = [vs EXCEPT ![i].val = v]
      BY <1>2, <2>1, <2>3, <2>4 DEF TypeOK, VariableScope
    <3>2. vs[i] \in VariableInstance
      BY <2>2, <2>3
    <3> QED
      BY <2>2, <2>3, <3>1, <3>2 DEF Replaced, VariableInstance
  <2>6. Others(variables.insts, ws, i)
    BY <2>3, <2>5 DEF Others, Replaced
  <2>7. Hidden(i)
    BY <1>1, <2>2, AssignedHidden
  <2>8. PICK old : old = vs[i].val
    OBVIOUS
  <2>9. Shared(Holders, Held0, ws, old)
    <3>1. CASE v = old
      BY <2>5, <3>1 DEF Shared, Replaced
    <3>2. CASE v # old
      <4>1. \A j \in HeldAt(Top) : Top.got[j] # old
        BY <1>3, <1>4, <3>2
      <4> QED
        BY <1>1, <2>2, <2>3, <2>6, <2>7, <2>8, <4>1, HiddenShared
    <3> QED
      BY <3>1, <3>2
  <2>10. PICK s : s = <<Len(stack), k>>
    OBVIOUS
  <2>11. s \in Holders /\ Held0[s] = v /\ s[2] # 0 /\ s[1] = Len(stack)
    <3>1. k # 0
      BY <1>3
    <3> QED
      BY <1>1, <1>3, <1>4, <2>10, <3>1, SlotIn
  <2>12. PICK V : V = Held0
    OBVIOUS
  <2>13. Shared(Holders, V, ws, old)
    BY <2>9, <2>12
  <2>14. IsValue(mem, v)
    BY <1>2, <1>8, <2>11 DEF Store, HeldOnce, IsValue
  <2>15. PICK n : n = mem'
    OBVIOUS
  <2>16. n = RemoveReference(held, old) /\ Store(mem, vs, Holders, V)
    BY <1>2, <2>1, <2>3, <2>8, <2>12, <2>15
  <2>17. v = ws[i].val
    BY <2>5
  <2>18. Store(n, ws, Holders, V) /\ n.fault = mem.fault
    BY <1>2, <1>5, <2>5, <2>8, <2>13, <2>14, <2>16, <2>17, StoreAssign
  <2>20. ReleasesBut(mem, n, v)
    BY <1>2, <1>5, <2>5, <2>8, <2>13, <2>14, <2>16, <2>17, StoreAssign
  <2>21. LooseBelow(mem')
    BY <1>1, <1>4, <2>15, <2>20, BelowLoose
  <2>22. SeesBelow(variables'.insts)
    BY <2>4, <2>6, <2>7, HiddenSees
  <2>23. Under
    BY <1>1, <2>21, <2>22, UnderSees
  <2>24. Low(Holders, Held0)
    BY DEF Low, Held0
  <2>25. Store(mem', variables'.insts, Holders, Held0) /\ Unfreed(mem')
    BY <1>2, <2>4, <2>12, <2>15, <2>18 DEF Unfreed
  <2>26. PICK p : p = stack[Len(stack) - 1]
    OBVIOUS
  <2>27. Len(stack) # 1 /\ ~Fresh(p) /\ p.node.kind \notin Operators
    BY <1>1, <2>26, ParentWelcome
  <2>28. Welcome(v)
    BY <2>26, <2>27 DEF Welcome
  <2>29. Source(Holders, Held0, Len(stack), v) # {}
    <3>1. Len(stack) \in Nat
      BY <1>2, FrameAt
    <3>2. s \in Source(Holders, Held0, Len(stack), v)
      BY <2>11, <3>1 DEF Source
    <3> QED
      BY <3>2
  <2> HIDE DEF Held0
  <2>30. Kept'
    BY <1>2, <2>1, <2>23, <2>24, <2>25, <2>28, <2>29, PopKept
  <2> QED
    BY <2>25, <2>30 DEF Safely
<1> QED
  BY <1>7, <1>8

\* The running frame waits as f for the activation g, which takes its results.
Handed(f, g) ==
    /\ f.got = <<>> /\ f.blk = NULL /\ f.pc = "await"
    /\ g.got = Top.got /\ g.blk = Top.blk /\ g.pc = "start"

Entered(s, n) ==
    \/ s \in Holders /\ s[1] \in 1 .. n - 1 /\ Holding(s)' = Holding(s)
    \/ s = <<n, 0>> /\ Holding(s)' = NULL
    \/ \E k : /\ s = <<n + 1, k>> /\ <<n, k>> \in Holders
              /\ Holding(s)' = Held0[<<n, k>>]

LEMMA HoldersEntered ==
    ASSUME NEW quiet, Calmly(quiet), Running, Top.pc # "drop", NEW f, NEW g, Handed(f, g),
           stack' = Append(SetTop(f), g), NEW s \in Holders', NEW n, n = Len(stack)
    PROVE  Entered(s, n)
<1>1. TypeOK /\ stack # <<>>
  BY CalmFacts DEF Calmly
<1>2. n \in Nat /\ n >= 1 /\ DOMAIN stack = 1 .. n /\ Top = stack[n]
  BY <1>1, FrameAt
<1>3. /\ DOMAIN stack' = 1 .. n + 1 /\ stack'[n] = f /\ stack'[n + 1] = g
      /\ \A j \in 1 .. n - 1 : stack'[j] = stack[j]
  <2>1. /\ DOMAIN stack' = 1 .. Len(stack) + 1
        /\ \A j \in 1 .. Len(stack) : stack'[j] = IF j = Len(stack) THEN f ELSE stack[j]
        /\ stack'[Len(stack) + 1] = g
    BY <1>1, PushShape
  <2> QED
    BY <1>2, <2>1
<1>4. stack' # <<>>
  BY <1>2, <1>3
<1>5. PICK j \in DOMAIN stack' : \E k \in HeldAt(stack'[j]) \cup {0} : s = <<j, k>>
  BY <1>4 DEF Holders, InFrames, Returned
<1>6. PICK k \in HeldAt(stack'[j]) \cup {0} : s = <<j, k>>
  BY <1>5
<1>7. s[1] = j /\ s[2] = k /\ j # 0
  BY <1>2, <1>3, <1>6
<1>8. Holding(s)' = IF k = 0 THEN stack'[j].blk ELSE stack'[j].got[k]
  BY <1>7 DEF Holding
<1>9. j \in 1 .. n - 1 \/ j = n \/ j = n + 1
  BY <1>2, <1>3
<1>10. CASE j \in 1 .. n - 1
  <2>1. stack'[j] = stack[j] /\ j \in DOMAIN stack
    BY <1>2, <1>3, <1>10
  <2>2. s \in Holders
    BY <1>6, <2>1, HolderIn
  <2>3. Holding(s)' = Holding(s)
    BY <1>7, <1>8, <2>1 DEF Holding
  <2> QED
    BY <1>7, <1>10, <2>2, <2>3 DEF Entered
<1>11. CASE j = n
  <2>1. HeldAt(f) = {}
    BY DEF HeldAt, Handed
  <2> QED
    BY <1>3, <1>6, <1>8, <1>11, <2>1 DEF Handed, Entered
<1>12. CASE j = n + 1
  <2>1. HeldAt(g) = HeldAt(Top)
    BY DEF HeldAt, Handed
  <2>2. k \in HeldAt(Top) \cup {0}
    BY <1>3, <1>6, <1>12, <2>1
  <2>3. <<n, k>> \in Holders
    BY <2>2, SlotIn
  <2>4. Held0[<<n, k>>] = IF k = 0 THEN Top.blk ELSE Top.got[k]
    BY <2>2, SlotIn
  <2>5. Holding(s)' = Held0[<<n, k>>]
    BY <1>3, <1>8, <1>12, <2>4 DEF Handed
  <2> QED
    BY <1>6, <1>12, <2>3, <2>5 DEF Entered
<1> QED
  BY <1>9, <1>10, <1>11, <1>12

\* The arguments and their array go over to the function called.
LEMMA EnterKept ==
    ASSUME NEW quiet, Calmly(quiet), Running, Top.pc # "drop", NEW f, NEW g, Handed(f, g),
           stack' = Append(SetTop(f), g), g.node.kind = "func", UNCHANGED <<variables, mem>>
    PROVE  Kept'
<1>1. TypeOK /\ stack # <<>> /\ Store(mem, variables.insts, Holders, Held0)
  BY CalmFacts DEF Calmly
<1>2. PICK n \in Nat : n = Len(stack)
  BY <1>1, FrameAt
<1>3. /\ DOMAIN stack' = 1 .. n + 1 /\ stack'[n + 1] = g
      /\ \A j \in 1 .. n : stack'[j] = IF j = n THEN f ELSE stack[j]
  BY <1>1, <1>2, PushShape
<1> DEFINE W == [s \in Holders' |-> Holding(s)']
           h == [s \in Holders' |-> IF s[1] = n THEN <<n + 1, 0>>
                                    ELSE IF s[1] = n + 1 THEN <<n, s[2]>> ELSE s]
<1>4. ASSUME NEW t \in Holders'
      PROVE  /\ \/ W[t] = NULL
                \/ h[t] \in Holders /\ W[t] = Held0[h[t]] /\ (t[2] = 0 <=> h[t][2] = 0)
             /\ \/ t[1] \in 1 .. n - 1 /\ h[t] = t
                \/ t = <<n, 0>> /\ h[t] = <<n + 1, 0>>
                \/ \E k : t = <<n + 1, k>> /\ h[t] = <<n, k>>
  <2>1. Entered(t, n)
    BY <1>2, HoldersEntered
  <2>2. /\ W[t] = Holding(t)'
        /\ h[t] = IF t[1] = n THEN <<n + 1, 0>> ELSE IF t[1] = n + 1 THEN <<n, t[2]>> ELSE t
    OBVIOUS
  <2> HIDE DEF W, h
  <2>3. CASE t \in Holders /\ t[1] \in 1 .. n - 1 /\ Holding(t)' = Holding(t)
    <3>1. t[1] # n /\ t[1] # n + 1
      BY <1>2, <2>3
    <3>2. Held0[t] = Holding(t)
      BY <2>3 DEF Held0
    <3> QED
      BY <2>2, <2>3, <3>1, <3>2
  <2>4. CASE t = <<n, 0>> /\ Holding(t)' = NULL
    BY <2>2, <2>4
  <2>5. CASE \E k : /\ t = <<n + 1, k>> /\ <<n, k>> \in Holders
                    /\ Holding(t)' = Held0[<<n, k>>]
    <3>1. PICK k : t = <<n + 1, k>> /\ <<n, k>> \in Holders /\ Holding(t)' = Held0[<<n, k>>]
      BY <2>5
    <3>2. t[1] = n + 1 /\ t[1] # n /\ t[2] = k
      BY <1>2, <3>1
    <3> QED
      BY <2>2, <3>1, <3>2
  <2> QED
    BY <2>1, <2>3, <2>4, <2>5 DEF Entered
<1>5. ASSUME NEW t \in Holders', NEW u \in Holders', h[t] = h[u]
      PROVE  t = u
  <2>1. \/ t[1] \in 1 .. n - 1 /\ h[t] = t
        \/ t = <<n, 0>> /\ h[t] = <<n + 1, 0>>
        \/ \E k : t = <<n + 1, k>> /\ h[t] = <<n, k>>
    BY <1>4
  <2>2. \/ u[1] \in 1 .. n - 1 /\ h[u] = u
        \/ u = <<n, 0>> /\ h[u] = <<n + 1, 0>>
        \/ \E k : u = <<n + 1, k>> /\ h[u] = <<n, k>>
    BY <1>4
  <2>3. PICK x : x = h[t] /\ x = h[u]
    BY <1>5
  <2> HIDE DEF h
  <2>4. CASE x[1] \in 1 .. n - 1
    <3>1. x[1] # n /\ x[1] # n + 1
      BY <1>2, <2>4
    <3> QED
      BY <2>1, <2>2, <2>3, <3>1
  <2>5. CASE x[1] = n + 1
    <3>1. x[1] \notin 1 .. n - 1 /\ x[1] # n
      BY <1>2, <2>5
    <3> QED
      BY <2>1, <2>2, <2>3, <3>1
  <2>6. CASE x[1] = n
    <3>1. x[1] \notin 1 .. n - 1 /\ x[1] # n + 1
      BY <1>2, <2>6
    <3>2. PICK k : t = <<n + 1, k>> /\ x = <<n, k>>
      BY <2>1, <2>3, <3>1
    <3>3. PICK l : u = <<n + 1, l>> /\ x = <<n, l>>
      BY <2>2, <2>3, <3>1
    <3> QED
      BY <3>2, <3>3
  <2> QED
    BY <2>1, <2>3, <2>4, <2>5, <2>6
<1>6. Store(mem, variables.insts, Holders', W)
  <2>1. \A t \in Holders' :
            \/ W[t] = NULL
            \/ t[2] # 0 /\ IsValue(mem, W[t]) /\ ~Unheld(mem, W[t])
            \/ h[t] \in Holders /\ W[t] = Held0[h[t]] /\ (t[2] = 0 <=> h[t][2] = 0)
    BY <1>4
  <2>2. \A t, u \in Holders' : h[t] = h[u] => t = u
    BY <1>5
  <2> HIDE DEF W, h, Held0
  <2> QED
    BY <1>1, <2>1, <2>2, StoreMoved
<1>7. ASSUME NEW j \in DOMAIN stack'
      PROVE  Proper(mem, variables.insts, stack'[j])
  <2>1. CASE j = n + 1
    <3>1. g.node.kind \notin Operators /\ ~Fresh(g)
      BY DEF Handed, Fresh, InAt, Operators
    <3> QED
      BY <1>3, <2>1, <3>1 DEF Handed, Proper
  <2>2. CASE j = n
    <3>1. f.got = <<>> /\ f.pc \notin {"slot", "target", "unwind"}
      BY DEF Handed
    <3>2. n \in 1 .. n
      BY <1>1, <1>2, FrameAt
    <3> QED
      BY <1>3, <2>2, <3>1, <3>2, ProperEmpty
  <2>3. CASE j \in 1 .. n - 1
    <3>1. stack'[j] = stack[j] /\ j \in DOMAIN stack
      BY <1>1, <1>2, <1>3, <2>3, FrameAt
    <3> QED
      BY <3>1 DEF Calmly, Kept
  <2> QED
    BY <1>2, <1>3, <2>1, <2>2, <2>3
<1>8. stack' # <<>>
  BY <1>2, <1>3
<1> QED
  BY <1>6, <1>7, <1>8 DEF Kept

LEMMA EnterSafe ==
    ASSUME NEW quiet, Calmly(quiet), CallEnter
    PROVE  Safely
<1>1. Running /\ UNCHANGED variables /\ Top.pc = "arguments"
  BY DEF CallEnter, At_
<1>2. /\ mem \in Memory /\ Unfreed(mem) /\ mem.fault = "none" /\ Top \in Frame
      /\ TypeOK
  BY <1>1, CalmFacts DEF Calmly
<1>3. CASE Callee = 0
  <2>1. mem' = Touch(mem, NULL)
    BY <1>3 DEF CallEnter
  <2>2. mem'.fault = "null_dereference"
    BY <1>2, <2>1, AddrAssumption DEF Touch, Raise, Live, Memory
  <2> QED
    BY <2>2 DEF Safely, Unfreed
<1>4. CASE Callee # 0
  <2>1. PICK e : e = functions.insts[Callee].val
    OBVIOUS
  <2>2. PICK f : f = [Top EXCEPT !.pc = "await", !.got = <<>>, !.blk = NULL]
    OBVIOUS
  <2>3. PICK b : stack' = Append(SetTop(f), [NewFrame(e, <<>>, b) EXCEPT !.got = Top.got,
                                                                       !.blk = Top.blk])
    BY <1>4, <2>1, <2>2 DEF CallEnter
  <2>4. UNCHANGED mem
    BY <1>4 DEF CallEnter
  <2>5. PICK g : g = [NewFrame(e, <<>>, b) EXCEPT !.got = Top.got, !.blk = Top.blk]
    OBVIOUS
  <2>6. stack' = Append(SetTop(f), g)
    BY <2>3, <2>5
  <2>7. g.node = e /\ g.pc = "start" /\ g.got = Top.got /\ g.blk = Top.blk
    BY <2>5 DEF NewFrame
  <2>8. f.got = <<>> /\ f.blk = NULL /\ f.pc = "await"
    BY <1>2, <2>2 DEF Frame
  <2>9. e.kind = "func"
    <3>1. Callee \in DOMAIN functions.insts
      BY <1>4, GetType DEF Callee
    <3>2. functions.insts \in Seq(FunctionInstance)
      BY <1>2 DEF TypeOK
    <3>3. functions.insts[Callee] \in FunctionInstance
      BY <3>1, <3>2
    <3> QED
      BY <2>1, <3>3 DEF FunctionInstance
  <2>10. Handed(f, g)
    BY <2>7, <2>8 DEF Handed
  <2>11. Kept'
    BY <1>1, <2>4, <2>6, <2>7, <2>9, <2>10, EnterKept
  <2> QED
    BY <1>2, <2>4, <2>11 DEF Safely
<1> QED
  BY <1>3, <1>4

(***************************************************************************)
(* The driver, and every step.                                             *)
(***************************************************************************)
\* Only while the driver is at the entry point is an activation running.
Idle == phase # "run" => stack = <<>>

LEMMA IdleStep ==
    ASSUME Idle, [Next]_vars
    PROVE  Idle'
<1>1. CASE Expression
  BY <1>1 DEF Idle, driver, Running, At_, Expression, Literal, StringBlock, StringValue,
     Variable, UnaryStart, UnaryFailed, UnaryNew, UnaryFollow, ReferenceValue, UnaryOther,
     LeftOperand, RightOperand, OperandFailed, Binary, ArrayElement, ReferenceSlot
<1>2. CASE Call
  BY <1>2 DEF Idle, driver, Running, At_, Call, CallStart, CallArgument, CallFailed,
     CallEnter, CallReturn, BindPrint, BindDrop, BindReturn, FunctionArgument, FunctionBody,
     FunctionLeave, RootDestroy, FunctionReturn, FunctionOutOfMemory
<1>3. CASE Statement
  BY <1>3 DEF Idle, driver, Running, At_, Statement, BodyStatement, BodyResult, BodyEnd,
     IfStart, IfCondition, IfReturn, ForInit, ForFailed, ForVariable, ForTest, ForCondition,
     ForStep, ForBody, ForIterated, ForEnd, StatementValue, StatementFailed, Declare,
     Assign, AssignTarget, AssignThrough, ReturnValue, ReturnAfterBody
<1>4. CASE Driver
  BY <1>4 DEF Idle, Driver, Register, Registered, EntryPoint, EntryReturned, ScopeDestroy
<1>5. CASE UNCHANGED vars
  BY <1>5 DEF Idle, vars
<1> QED
  BY <1>1, <1>2, <1>3, <1>4, <1>5 DEF Next, Stopped

\* The number of failed allocations only grows.
FailuresGrow == failures' = failures \/ failures' = failures + 1

LEMMA MallocCounts ==
    ASSUME NEW ok \in BOOLEAN, Malloc(ok)
    PROVE  FailuresGrow
BY DEF Malloc, FailuresGrow

LEMMA AddCounts ==
    ASSUME NEW ok \in BOOLEAN, NEW inst, AddVariable(ok, inst)
    PROVE  FailuresGrow
BY DEF AddVariable, FailuresGrow

LEMMA SameCounts ==
    ASSUME UNCHANGED failures
    PROVE  FailuresGrow
BY DEF FailuresGrow

LEMMA CountsUp ==
    ASSUME [Next]_vars, failures \in Nat, failures' = 0
    PROVE  failures = 0
<1> SUFFICES FailuresGrow
  BY DEF FailuresGrow
<1>1. CASE Expression
  <2>1. CASE Literal \/ StringBlock \/ StringValue
    <3>1. PICK ok \in BOOLEAN : Malloc(ok)
      BY <2>1 DEF Literal, StringBlock, StringValue
    <3> QED
      BY <3>1, MallocCounts
  <2>2. CASE UnaryNew
    <3>1. PICK ok \in BOOLEAN : Malloc(ok)
      BY <2>2 DEF UnaryNew
    <3> QED
      BY <3>1, MallocCounts
  <2>3. CASE ReferenceValue \/ ReferenceSlot
    <3>1. PICK ok \in BOOLEAN : Malloc(ok)
      BY <2>3 DEF ReferenceValue, ReferenceSlot
    <3> QED
      BY <3>1, MallocCounts
  <2>4. CASE Binary \/ ArrayElement
    <3>1. UNCHANGED failures \/ \E ok \in BOOLEAN : Malloc(ok)
      <4>1. CASE Binary
        BY <4>1 DEF Binary
      <4>2. CASE ArrayElement
        BY <4>2 DEF ArrayElement
      <4> QED
        BY <2>4, <4>1, <4>2
    <3> QED
      BY <3>1, MallocCounts, SameCounts
  <2>5. CASE Variable \/ UnaryStart \/ UnaryFailed \/ UnaryFollow \/ UnaryOther \/ LeftOperand
             \/ RightOperand \/ OperandFailed
    <3>1. UNCHANGED failures
      BY <2>5 DEF Variable, UnaryStart, UnaryFailed, UnaryFollow, UnaryOther, LeftOperand,
         RightOperand, OperandFailed
    <3> QED
      BY <3>1, SameCounts
  <2> QED
    BY <1>1, <2>1, <2>2, <2>3, <2>4, <2>5 DEF Expression
<1>2. CASE Call
  <2>1. CASE CallStart \/ FunctionOutOfMemory
    <3>1. PICK ok \in BOOLEAN : Malloc(ok)
      BY <2>1 DEF CallStart, FunctionOutOfMemory
    <3> QED
      BY <3>1, MallocCounts
  <2>2. CASE BindReturn
    <3>1. PICK ok \in BOOLEAN : Malloc(ok)
      BY <2>2 DEF BindReturn
    <3> QED
      BY <3>1, MallocCounts
  <2>3. CASE FunctionArgument
    <3>1. UNCHANGED failures \/ \E ok \in BOOLEAN : \E inst : AddVariable(ok, inst)
      BY <2>3 DEF FunctionArgument
    <3> QED
      BY <3>1, AddCounts, SameCounts
  <2>4. CASE CallEnter
    <3>1. UNCHANGED <<driver, variables, failed, failures, result>>
      BY <2>4, Zenon DEF CallEnter
    <3> QED
      BY <3>1, SameCounts
  <2>5. CASE CallArgument \/ CallFailed \/ CallReturn \/ BindPrint \/ BindDrop \/ FunctionBody
             \/ FunctionLeave \/ RootDestroy \/ FunctionReturn
    <3>1. UNCHANGED failures
      BY <2>5 DEF CallArgument, CallFailed, CallReturn, BindPrint, BindDrop, FunctionBody,
         FunctionLeave, RootDestroy, FunctionReturn
    <3> QED
      BY <3>1, SameCounts
  <2> QED
    BY <1>2, <2>1, <2>2, <2>3, <2>4, <2>5 DEF Call
<1>3. CASE Statement
  <2>1. CASE ForVariable \/ Declare
    <3>1. UNCHANGED failures \/ \E ok \in BOOLEAN : \E inst : AddVariable(ok, inst)
      <4>1. CASE ForVariable
        BY <4>1 DEF ForVariable
      <4>2. CASE Declare
        BY <4>2 DEF Declare
      <4> QED
        BY <2>1, <4>1, <4>2
    <3> QED
      BY <3>1, AddCounts, SameCounts
  <2>2. CASE BodyStatement \/ BodyResult \/ BodyEnd \/ IfStart \/ IfCondition \/ IfReturn
             \/ ForInit \/ ForFailed \/ ForTest \/ ForCondition \/ ForStep
    <3>1. UNCHANGED failures
      BY <2>2 DEF BodyStatement, BodyResult, BodyEnd, IfStart, IfCondition, IfReturn,
         ForInit, ForFailed, ForTest, ForCondition, ForStep
    <3> QED
      BY <3>1, SameCounts
  <2>3. CASE ForBody \/ ForIterated \/ ForEnd \/ StatementValue \/ StatementFailed \/ Assign
             \/ AssignTarget \/ AssignThrough \/ ReturnValue \/ ReturnAfterBody
    <3>1. UNCHANGED failures
      BY <2>3 DEF ForBody, ForIterated, ForEnd, StatementValue, StatementFailed, Assign,
         AssignTarget, AssignThrough, ReturnValue, ReturnAfterBody
    <3> QED
      BY <3>1, SameCounts
  <2> QED
    BY <1>3, <2>1, <2>2, <2>3 DEF Statement
<1>4. CASE Driver
  BY <1>4 DEF FailuresGrow, Driver, Register, Registered, EntryPoint, EntryReturned, ScopeDestroy
<1>5. CASE UNCHANGED vars
  BY <1>5, SameCounts DEF vars
<1> QED
  BY <1>1, <1>2, <1>3, <1>4, <1>5 DEF Next, Stopped

\* What a plain program never does while nothing fails.
LEMMA NotPlain ==
    ASSUME NEW quiet, Calmly(quiet),
           \/ UnaryFailed \/ UnaryOther \/ UnaryFollow \/ ReferenceValue \/ ReferenceSlot
           \/ OperandFailed \/ CallFailed \/ FunctionOutOfMemory \/ ForFailed
           \/ StatementFailed \/ AssignTarget \/ AssignThrough
    PROVE  FALSE
<1>1. ~failed
  BY DEF Calmly, Steady, Sane
<1>2. Running
  BY DEF UnaryFailed, UnaryOther, UnaryFollow, ReferenceValue, ReferenceSlot, OperandFailed,
     CallFailed, FunctionOutOfMemory, ForFailed, StatementFailed, AssignTarget, AssignThrough,
     At_
<1>3. PlainNode(Top.node) /\ Proper(mem, variables.insts, Top) /\ mem \in Memory
      /\ Store(mem, variables.insts, Holders, Held0)
  BY <1>2, CalmFacts
<1>4. CASE UnaryFailed \/ OperandFailed \/ CallFailed \/ ForFailed \/ StatementFailed
  BY <1>1, <1>4 DEF UnaryFailed, OperandFailed, CallFailed, ForFailed, StatementFailed
<1>5. CASE UnaryOther \/ ReferenceValue \/ AssignTarget
  BY <1>3, <1>5 DEF UnaryOther, ReferenceValue, AssignTarget, At_, PlainNode
<1>6. CASE ReferenceSlot \/ FunctionOutOfMemory \/ AssignThrough
  BY <1>3, <1>6 DEF ReferenceSlot, FunctionOutOfMemory, AssignThrough, At_, Proper
<1>7. CASE UnaryFollow
  <2>1. One(Top) /\ Top.pc # "drop" /\ At(mem, Got(1)).isref
    BY <1>7 DEF UnaryFollow, At_, One
  <2>2. PICK v : v = Got(1)
    OBVIOUS
  <2>3. v \in Pointers /\ (v = NULL \/ Live(mem, v))
    BY <1>2, <2>1, <2>2, OneResult, ResultReadable DEF Readable, IsValue
  <2>4. ~At(mem, v).isref
    BY <1>3, <2>3, AddrAssumption DEF At, FreeCell, NewCell, Live, Store, Owned
  <2> QED
    BY <2>1, <2>2, <2>4
<1> QED
  BY <1>4, <1>5, <1>6, <1>7

LEMMA ExpressionSafe ==
    ASSUME NEW quiet, Calmly(quiet), Expression
    PROVE  Safely
<1>1. CASE Literal \/ StringBlock \/ StringValue \/ Variable
  BY <1>1, LiteralSafe, ArraySafe, StringSafe, VariableSafe
<1>2. CASE UnaryStart \/ UnaryNew
  BY <1>2, BeginSafe, UnaryNewSafe
<1>3. CASE LeftOperand \/ RightOperand \/ Binary \/ ArrayElement
  BY <1>3, BeginSafe, ContinueSafe, PairSafe
<1>4. CASE UnaryFailed \/ UnaryFollow \/ ReferenceValue \/ ReferenceSlot \/ UnaryOther
           \/ OperandFailed
  BY <1>4, NotPlain
<1> QED
  BY <1>1, <1>2, <1>3, <1>4 DEF Expression

LEMMA CallSafe ==
    ASSUME NEW quiet, Calmly(quiet), Call
    PROVE  Safely
<1>1. CASE CallStart \/ CallArgument \/ CallEnter \/ CallReturn
  BY <1>1, ArraySafe, ContinueSafe, EnterSafe, AnswerSafe
<1>2. CASE BindPrint \/ BindDrop \/ BindReturn
  BY <1>2, BindSafe, BindReturnSafe
<1>3. CASE FunctionArgument \/ FunctionBody \/ FunctionLeave \/ RootDestroy \/ FunctionReturn
  BY <1>3, ArgumentSafe, FunctionBodySafe, ContinueSafe, RootSafe, AnswerSafe
<1>4. CASE CallFailed \/ FunctionOutOfMemory
  BY <1>4, NotPlain
<1> QED
  BY <1>1, <1>2, <1>3, <1>4 DEF Call

LEMMA StatementSafe ==
    ASSUME NEW quiet, Calmly(quiet), Statement
    PROVE  Safely
<1>1. CASE BodyStatement \/ BodyResult \/ BodyEnd \/ IfStart \/ IfCondition \/ IfReturn
  BY <1>1, BeginSafe, ConditionSafe, AnswerSafe
<1>2. CASE ForInit \/ ForVariable \/ ForTest \/ ForCondition \/ ForStep
  BY <1>2, BeginSafe, DeclaredSafe, ConditionSafe
<1>3. CASE ForBody \/ ForIterated \/ ForEnd
  BY <1>3, ConditionSafe, AnswerSafe
<1>4. CASE StatementValue \/ Declare \/ Assign \/ ReturnValue \/ ReturnAfterBody
  BY <1>4, BeginSafe, DeclaredSafe, AssignSafe, AnswerSafe, ReturnBodySafe
<1>5. CASE ForFailed \/ StatementFailed \/ AssignTarget \/ AssignThrough
  BY <1>5, NotPlain
<1> QED
  BY <1>1, <1>2, <1>3, <1>4, <1>5 DEF Statement

\* Nothing is held while no activation runs and nothing is on its way.
LEMMA NobodyHolds ==
    ASSUME stack = <<>>
    PROVE  Holders = Returned
<1>1. DOMAIN stack = {}
  OBVIOUS
<1> QED
  BY <1>1 DEF Holders, InFrames

LEMMA DriverKept ==
    ASSUME UNCHANGED variables, stack' = <<>>, phase' # "run", NEW R, NEW W,
           Store(mem', variables.insts, R, W)
    PROVE  Kept'
<1>1. Holders' = {}
  <2>1. DOMAIN stack' = {}
    OBVIOUS
  <2> QED
    BY <2>1 DEF Holders, InFrames, Returned
<1> DEFINE V == [s \in Holders' |-> Holding(s)']
           h == [s \in Holders' |-> s]
<1>2. /\ \A t \in Holders' : \/ V[t] = NULL
                             \/ t[2] # 0 /\ IsValue(mem', V[t]) /\ ~Unheld(mem', V[t])
                             \/ h[t] \in R /\ V[t] = W[h[t]] /\ (t[2] = 0 <=> h[t][2] = 0)
      /\ \A t, u \in Holders' : h[t] = h[u] => t = u
  BY <1>1
<1> HIDE DEF V, h
<1>3. Store(mem', variables.insts, Holders', V)
  BY <1>2, StoreMoved
<1>4. DOMAIN stack' = {}
  OBVIOUS
<1> QED
  BY <1>3, <1>4 DEF Kept, V

LEMMA EntryKept ==
    ASSUME NEW quiet, Calmly(quiet), ErrorSeen, EntryPoint
    PROVE  Kept'
<1>1. stack = <<>> /\ UNCHANGED <<variables, mem>> /\ phase = "entry"
  BY DEF EntryPoint, ErrorSeen
<1>2. Store(mem, variables.insts, Holders, Held0)
  BY DEF Calmly, Kept, Held0
<1>3. PICK e, b : stack' = <<NewFrame(e, <<>>, b)>>
  BY DEF EntryPoint, Calmly
<1>4. PICK g : g = NewFrame(e, <<>>, b)
  OBVIOUS
<1>5. g.got = <<>> /\ g.blk = NULL /\ g.pc = "start"
  BY <1>4 DEF NewFrame
<1>6. DOMAIN stack' = {1} /\ stack'[1] = g /\ stack' # <<>>
  BY <1>3, <1>4
<1>7. HeldAt(stack'[1]) = {}
  BY <1>5, <1>6 DEF HeldAt
<1>8. ASSUME NEW s \in Holders'
      PROVE  s = <<1, 0>> /\ Holding(s)' = NULL
  <2>1. s = <<1, 0>>
    BY <1>6, <1>7 DEF Holders, InFrames, Returned
  <2>2. s[1] = 1 /\ s[2] = 0
    BY <2>1
  <2> QED
    BY <1>5, <1>6, <2>1, <2>2 DEF Holding
<1> DEFINE V == [s \in Holders' |-> Holding(s)']
           h == [s \in Holders' |-> s]
<1>9. /\ \A t \in Holders' : \/ V[t] = NULL
                             \/ t[2] # 0 /\ IsValue(mem, V[t]) /\ ~Unheld(mem, V[t])
                             \/ h[t] \in Holders /\ V[t] = Held0[h[t]] /\ (t[2] = 0 <=> h[t][2] = 0)
      /\ \A t, u \in Holders' : h[t] = h[u] => t = u
  BY <1>8
<1> HIDE DEF V, h, Held0
<1>10. Store(mem, variables.insts, Holders', V)
  BY <1>2, <1>9, StoreMoved
<1>11. Proper(mem, variables.insts, g)
  BY <1>5, ProperEmpty
<1> QED
  BY <1>1, <1>6, <1>10, <1>11 DEF Kept, V

\* What the entry point returned is destroyed.
LEMMA ReturnedSafe ==
    ASSUME NEW quiet, Calmly(quiet), EntryReturned
    PROVE  Safely
<1>1. /\ stack = <<>> /\ phase = "run" /\ UNCHANGED <<variables, stack>> /\ phase' = "destroy"
      /\ mem' = InstanceDestroy(mem, result)
  BY DEF EntryReturned, Calmly, Steady, Sane
<1>2. /\ Store(mem, variables.insts, Holders, Held0) /\ Loose(mem, result)
      /\ mem \in Memory /\ mem.fault = "none"
  BY <1>1 DEF Calmly, Kept, Held0, TypeOK, Steady, Sane
<1>3. PICK n : n = mem'
  OBVIOUS
<1>4. n = RuntimeDestroy(mem, result)
  <2>1. Live(mem, result) => mem.cells[result].refs = 0
    BY <1>2, AddrAssumption DEF Loose, Unheld, Live
  <2> QED
    BY <1>1, <1>3, <2>1 DEF RuntimeDestroy
<1>5. PICK s : s = <<0, 1>>
  OBVIOUS
<1>6. s \in Holders /\ s[1] = 0 /\ s[2] # 0
  BY <1>1, <1>5, NobodyHolds DEF Returned
<1>7. Held0[s] = result
  BY <1>6 DEF Held0, Holding
<1>8. PICK V : V = Held0
  OBVIOUS
<1>9. PICK S : S = Holders
  OBVIOUS
<1>10. PICK vs \in Seq(VariableInstance) : vs = variables.insts
  BY DEF Calmly, TypeOK
<1>11. s \in S /\ n = RuntimeDestroy(mem, V[s]) /\ Store(mem, vs, S, V)
  BY <1>2, <1>4, <1>6, <1>7, <1>8, <1>9, <1>10
<1>12. /\ Store(n, vs, S \ {s}, V) /\ (Unfreed(mem) => Unfreed(n))
       /\ n.fault = "none" => mem.fault = "none" /\ IsValue(mem, V[s])
       /\ Releases(mem, n)
       /\ Spares(mem, n)
  BY <1>2, <1>6, <1>11, StoreDestroy
<1>13. Unfreed(mem') /\ Store(mem', variables.insts, S \ {s}, V)
  BY <1>2, <1>3, <1>10, <1>12 DEF Unfreed
<1>14. Kept'
  BY <1>1, <1>13, DriverKept
<1> QED
  BY <1>13, <1>14 DEF Safely

LEMMA DriverSafe ==
    ASSUME NEW quiet, Calmly(quiet), ErrorSeen, Idle, Driver
    PROVE  Safely
<1>1. /\ Store(mem, variables.insts, Holders, Held0) /\ Unfreed(mem)
      /\ mem \in Memory /\ mem.fault = "none"
  BY DEF Calmly, Kept, Held0, TypeOK, Steady, Sane, Unfreed
<1>2. CASE Register
  <2>1. stack = <<>> /\ UNCHANGED <<stack, variables>> /\ phase' # "run"
    BY <1>2 DEF Register, ErrorSeen
  <2>2. CASE mem' = Touch(mem, NULL)
    <3>1. mem'.fault = "null_dereference"
      BY <1>1, <2>2, AddrAssumption DEF Touch, Raise, Live, Memory
    <3> QED
      BY <3>1 DEF Safely, Unfreed
  <2>3. CASE UNCHANGED mem
    BY <1>1, <2>1, <2>3, DriverKept DEF Safely
  <2> QED
    BY <1>2, <2>2, <2>3 DEF Register
<1>3. CASE Registered
  BY <1>1, <1>3, DriverKept DEF Registered, ErrorSeen, Safely
<1>4. CASE EntryPoint
  BY <1>1, <1>4, EntryKept DEF EntryPoint, Safely
<1>5. CASE EntryReturned
  BY <1>5, ReturnedSafe
<1>6. CASE ScopeDestroy
  <2>1. phase = "destroy" /\ stack = <<>> /\ UNCHANGED <<stack, variables>>
    BY <1>6 DEF ScopeDestroy, Idle
  <2>2. DOMAIN variables.insts = {}
    <3>1. DOMAIN stack = {}
      BY <2>1
    <3> QED
      BY <3>1 DEF Calmly, Core, Layered
  <2>3. Len(variables.insts) = 0 /\ next \in Nat \ {0}
    <3>1. PICK vs \in Seq(VariableInstance) : vs = variables.insts
      BY DEF Calmly, TypeOK
    <3>2. 1 \notin DOMAIN vs /\ DOMAIN vs = 1 .. Len(vs) /\ Len(vs) \in Nat
      BY <2>2, <3>1
    <3>3. Len(vs) = 0
      BY <3>2
    <3> QED
      BY <3>1, <3>3 DEF Calmly, TypeOK
  <2>4. UNCHANGED mem /\ phase' = "done"
    BY <1>6, <2>3 DEF ScopeDestroy
  <2> QED
    BY <1>1, <2>1, <2>4, DriverKept DEF Safely
<1> QED
  BY <1>2, <1>3, <1>4, <1>5, <1>6 DEF Driver

\* Every step of a plain program in which nothing fails.
LEMMA NextSafe ==
    ASSUME NEW quiet, Calmly(quiet), ErrorSeen, Idle, [Next]_vars
    PROVE  Safely
<1>1. CASE Expression \/ Call \/ Statement \/ Driver
  BY <1>1, ExpressionSafe, CallSafe, StatementSafe, DriverSafe
<1>2. CASE UNCHANGED vars
  <2>1. UNCHANGED <<phase, stack, variables, mem, result>>
    BY <1>2 DEF vars
  <2>2. /\ UNCHANGED Holders /\ \A s \in Holders : Holding(s)' = Holding(s)
    BY <2>1 DEF Holders, InFrames, Returned, Holding
  <2>3. Kept'
    BY <2>1, <2>2 DEF Calmly, Kept
  <2> QED
    BY <2>1, <2>3 DEF Safely, Calmly, Steady, Sane, Unfreed
<1> QED
  BY <1>1, <1>2 DEF Next, Stopped

(***************************************************************************)
(* The theorems.                                                           *)
(***************************************************************************)
\* While nothing fails, the values are held as Kept says and none of the freed
\* ones is used; the call stack is as it should be.
Memorised(quiet) == Remembered /\ NothingFreed /\ Idle /\ Scoped(quiet)

LEMMA InitKept ==
    ASSUME Init
    PROVE  Kept /\ Unfreed(mem)
<1>1. /\ stack = <<>> /\ DOMAIN stack = {} /\ phase = "interpret"
      /\ DOMAIN variables.insts = {}
      /\ mem = EmptyMemory
  BY DEF Init, EmptyScope
<1>2. Holders = {}
  BY <1>1 DEF Holders, InFrames, Returned
<1>3. mem.fault = "none" /\ \A a : ~Live(mem, a)
  BY <1>1 DEF EmptyMemory, Live, FreeCell, NewCell
<1>4. Store(mem, variables.insts, Holders, [s \in Holders |-> Holding(s)])
  BY <1>1, <1>2, <1>3 DEF Store, Counted, HeldOnce, Owned
<1> QED
  BY <1>1, <1>3, <1>4 DEF Kept, Unfreed

LEMMA MemoryStep ==
    ASSUME TypeOK, TypeOK', ErrorSeen, NEW quiet, Plain(quiet), Memorised(quiet), [Next]_vars
    PROVE  Remembered' /\ NothingFreed'
<1> SUFFICES ASSUME ~failed', failures' = 0
             PROVE  Safely
  BY DEF Remembered, NothingFreed, Steady, Sane, Safely
<1>1. ~failed /\ failures = 0
  <2>1. failures \in Nat
    BY FailuresAssumption DEF TypeOK
  <2> QED
    BY <2>1, StaysFailed, CountsUp
<1>2. Unfreed(mem)
  BY <1>1 DEF Memorised, NothingFreed
<1>3. CASE mem.fault # "none"
  <2>1. UNCHANGED vars
    BY <1>3, StaysFaulty
  <2> QED
    BY <1>2, <1>3, <2>1 DEF vars, Safely
<1>4. CASE mem.fault = "none"
  <2>1. Steady
    BY <1>1, <1>4 DEF Steady, Sane
  <2>2. Kept /\ Core(quiet)
    BY <2>1 DEF Memorised, Remembered, Scoped, Core, Steady
  <2>3. Calmly(quiet)
    BY <2>1, <2>2 DEF Calmly
  <2> QED
    BY <2>3, NextSafe DEF Memorised
<1> QED
  BY <1>3, <1>4

\* The inductive invariant.
LEMMA MemoryKept ==
    ASSUME NEW quiet, Plain(quiet)
    PROVE  Spec => [](TypeOK /\ Memorised(quiet))
<1>0. Tame(quiet)
  BY DEF Plain
<1>1. Init => Memorised(quiet)
  <2>1. Init => Kept /\ Unfreed(mem)
    BY InitKept
  <2>2. Init => Scoped(quiet)
    BY InitCore DEF Scoped, Core
  <2>3. Init => Idle
    BY DEF Init, Idle
  <2> QED
    BY <2>1, <2>2, <2>3 DEF Memorised, Remembered, NothingFreed
<1>2. TypeOK /\ TypeOK' /\ ErrorSeen /\ Memorised(quiet) /\ [Next]_vars => Memorised(quiet)'
  <2> SUFFICES ASSUME TypeOK, TypeOK', ErrorSeen, Memorised(quiet), [Next]_vars
               PROVE  Memorised(quiet)'
    OBVIOUS
  <2>1. Remembered' /\ NothingFreed'
    BY MemoryStep
  <2>2. Idle'
    BY IdleStep DEF Memorised
  <2>3. Scoped(quiet)'
    BY <1>0, ScopedStep DEF Memorised
  <2> QED
    BY <2>1, <2>2, <2>3 DEF Memorised
<1> QED
  BY <1>1, <1>2, TypeCorrect, ErrorsSeen, PTL DEF Spec

\* What a frame holds is live.
LEMMA HeldLive ==
    ASSUME TypeOK, Kept, NEW j \in DOMAIN stack, NEW a \in Held(stack[j])
    PROVE  Live(mem, a)
<1>1. PICK k \in HeldAt(stack[j]) : a = stack[j].got[k] /\ a # NULL
  BY DEF Held, HeldAt
<1>2. k # 0 /\ j # 0
  BY FrameAt, HeldAtType
<1>3. PICK s : s = <<j, k>>
  OBVIOUS
<1>4. s \in Holders /\ s[1] = j /\ s[2] = k
  BY <1>3, HolderIn
<1>5. Held0[s] = a
  BY <1>1, <1>2, <1>4 DEF Held0, Holding
<1>6. Store(mem, variables.insts, Holders, Held0)
  BY DEF Kept, Held0
<1> HIDE DEF Held0
<1> QED
  BY <1>1, <1>4, <1>5, <1>6 DEF Store, HeldOnce

LEMMA KeptCorrect ==
    ASSUME TypeOK, Kept
    PROVE  NoDangling /\ RefCountExact /\ SoleOwner
<1>1. Store(mem, variables.insts, Holders, Held0)
  BY DEF Kept, Held0
<1>2. NoDangling
  <2>1. \A i \in DOMAIN variables.insts : Live(mem, variables.insts[i].val)
    BY <1>1 DEF Store, Counted, IsValue
  <2> QED
    BY <2>1, HeldLive DEF NoDangling
<1>3. RefCountExact
  <2> SUFFICES ASSUME NEW a \in Addr, Live(mem, a)
               PROVE  mem.cells[a].refs =
                        Cardinality({i \in DOMAIN variables.insts : variables.insts[i].val = a})
                        + Cardinality(Pinned(a))
    BY DEF RefCountExact
  <2>1. Pinned(a) = {}
    BY DEF Pinned, Kept, Proper
  <2>2. Cardinality(Pinned(a)) = 0
    BY <2>1, FS_EmptySet
  <2>3. mem.cells[a].refs = References(variables.insts, a)
    BY <1>1 DEF Store, Counted
  <2>4. References(variables.insts, a) \in Nat
    BY CountType DEF TypeOK
  <2> QED
    BY <2>2, <2>3, <2>4 DEF References
<1>4. SoleOwner
  BY <1>1 DEF Store, Owned, IsRaw, SoleOwner, Owns
<1> QED
  BY <1>2, <1>3, <1>4

\* A plain program neither uses a freed value nor frees one twice while no
\* allocation fails, however many variables, calls and loops it has: the
\* RuntimeDestroy of each consumer spares what a variable still has, and a root's
\* destruction drops a count that is exact.
THEOREM NothingFreedCorrect ==
    ASSUME NEW quiet, Plain(quiet)
    PROVE  Spec => []NothingFreed
BY MemoryKept, PTL DEF Memorised

\* In such a program each pointer of a frame is held as the code means it: a
\* block no variable has by one frame, an arguments array by the call alone.
THEOREM RememberedCorrect ==
    ASSUME NEW quiet, Plain(quiet)
    PROVE  Spec => []Remembered
BY MemoryKept, PTL DEF Memorised

\* In such a program every variable and every result an activation holds is live.
THEOREM NoDanglingCorrect ==
    ASSUME NEW quiet, Plain(quiet)
    PROVE  Spec => [](failures = 0 => NoDangling)
<1>1. TypeOK /\ Memorised(quiet) => (failures = 0 => NoDangling)
  BY KeptCorrect DEF Memorised, Remembered, Steady, Sane, NoDangling, Evaluating
<1> QED
  BY <1>1, MemoryKept, PTL

\* Its reference counts are exact.
THEOREM RefCountCorrect ==
    ASSUME NEW quiet, Plain(quiet)
    PROVE  Spec => [](failures = 0 => RefCountExact)
<1>1. TypeOK /\ Memorised(quiet) => (failures = 0 => RefCountExact)
  BY KeptCorrect DEF Memorised, Remembered, Steady, Sane, RefCountExact, Evaluating
<1> QED
  BY <1>1, MemoryKept, PTL

\* Each of its array values has a block of its own.
THEOREM SoleOwnerCorrect ==
    ASSUME NEW quiet, Plain(quiet)
    PROVE  Spec => [](failures = 0 => SoleOwner)
<1>1. TypeOK /\ Memorised(quiet) => (failures = 0 => SoleOwner)
  BY KeptCorrect DEF Memorised, Remembered, Steady, Sane, SoleOwner, Evaluating
<1> QED
  BY <1>1, MemoryKept, PTL

(***************************************************************************)
(* Nothing is lost, first for the operations of the heap.  An account of a *)
(* memory says who accounts for its blocks: G holds every live one, or the *)
(* value that owns it, and what D has dropped is gone or counted.          *)
(***************************************************************************)
Neat(m) == /\ Tidy(m)
           /\ \A a \in Addr : Live(m, a) /\ Live(m, m.cells[a].buf) =>
                m.cells[m.cells[a].buf].type = "block"

Spent(m, D) == \A d \in D : Live(m, d) => m.cells[d].refs > 0

Account(m, G, D) == m \in Memory /\ Covers(m, G) /\ Neat(m) /\ Spent(m, D)

LEMMA AccountSame ==
    ASSUME NEW m, NEW G, NEW D, Account(m, G, D), NEW n \in Memory, n.cells = m.cells
    PROVE  Account(n, G, D)
BY DEF Account, Covers, Neat, Tidy, Spent, Live

\* More may account for the blocks.
LEMMA AccountMore ==
    ASSUME NEW m, NEW G, NEW D, Account(m, G, D), NEW F, NEW E \in SUBSET D
    PROVE  Account(m, G \cup F, E)
BY DEF Account, Covers, Spent

\* What is freed owned nothing that stays.
Whole(m, E) == \A b \in E : LET p == m.cells[b].buf
                            IN  Live(m, b) /\ p # NULL => p \in E \/ ~Live(m, p)

LEMMA AccountFreed ==
    ASSUME NEW m, NEW G, NEW D, Account(m, G, D), NEW n \in Memory,
           NEW E \in SUBSET Addr, Whole(m, E),
           \A x \in Addr : n.cells[x] = IF x \in E THEN FreeCell ELSE m.cells[x]
    PROVE  Account(n, G, D \cup E)
<1>1. \A a : Live(n, a) <=> Live(m, a) /\ a \notin E
  BY DEF Live, FreeCell, NewCell
<1>2. \A a : Live(n, a) => n.cells[a] = m.cells[a]
  BY DEF Live, FreeCell, NewCell
<1>3. Covers(n, G)
  <2> SUFFICES ASSUME NEW a \in Addr, Live(n, a), a \notin G
               PROVE  \E b \in G : Live(n, b) /\ n.cells[b].buf = a
    BY DEF Covers
  <2>1. PICK b \in G : Live(m, b) /\ m.cells[b].buf = a
    BY <1>1 DEF Account, Covers
  <2>2. b \notin E
    BY <1>1, <2>1, AddrAssumption DEF Whole
  <2> QED
    BY <1>1, <1>2, <2>1, <2>2
<1>4. Neat(n)
  <2>1. Tidy(n)
    BY <1>1, <1>2 DEF Account, Neat, Tidy
  <2> QED
    BY <1>1, <1>2, <2>1 DEF Account, Neat
<1>5. Spent(n, D \cup E)
  BY <1>1, <1>2 DEF Account, Spent
<1> QED
  BY <1>3, <1>4, <1>5 DEF Account

\* A value that is destroyed takes its block with it.
LEMMA InstanceShape ==
    ASSUME NEW m \in Memory, Neat(m), NEW a, Live(m, a), NEW n, n = InstanceDestroy(m, a)
    PROVE  \E E \in SUBSET Addr : /\ a \in E /\ Whole(m, E)
                /\ \A x \in Addr : n.cells[x] = IF x \in E THEN FreeCell ELSE m.cells[x]
<1> DEFINE b == m.cells[a].buf
           k == IF m.cells[a].type \in {"pointer", "array"}
                THEN ArrayDestroy(m, m.cells[a]) ELSE m
<1>1. a \in Addr /\ a # NULL
  BY AddrAssumption DEF Live
<1>2. n = Free(k, a)
  BY DEF InstanceDestroy
<1>3. ASSUME k.cells = m.cells, b = NULL \/ ~Live(m, b)
      PROVE  \E E \in SUBSET Addr : /\ a \in E /\ Whole(m, E)
                /\ \A x \in Addr : n.cells[x] = IF x \in E THEN FreeCell ELSE m.cells[x]
  <2>1. Live(k, a)
    BY <1>3 DEF Live
  <2>2. n = [k EXCEPT !.cells[a] = FreeCell]
    BY <1>1, <1>2, <2>1 DEF Free
  <2>3. k \in Memory
    BY ArrayDestroyType, <1>1 DEF Memory
  <2>4. \A x \in Addr : n.cells[x] = IF x \in {a} THEN FreeCell ELSE m.cells[x]
    BY <1>1, <1>3, <2>2, <2>3 DEF Memory
  <2>5. Whole(m, {a})
    BY <1>3 DEF Whole
  <2> QED
    BY <1>1, <2>4, <2>5
<1>4. CASE b = NULL
  <2>1. k = m
    BY <1>4 DEF ArrayDestroy, Free
  <2> QED
    BY <1>3, <1>4, <2>1
<1>5. CASE b # NULL
  <2>1. m.cells[a].type = "array" /\ m.cells[a].elem = "char" /\ m.cells[a].cap > 0
    BY <1>1, <1>5 DEF Neat, Tidy
  <2>2. k = Free(m, b)
    BY <2>1 DEF ArrayDestroy
  <2>3. CASE ~Live(m, b)
    <3>1. k.cells = m.cells
      BY <1>5, <2>2, <2>3 DEF Free, Raise, Memory
    <3> QED
      BY <1>3, <2>3, <3>1
  <2>4. CASE Live(m, b)
    <3>1. b \in Addr /\ m.cells[b].type = "block" /\ b # a
      BY <1>1, <2>1, <2>4 DEF Neat, Live
    <3>2. m.cells[b].buf = NULL
      BY <2>4, <3>1 DEF Neat, Tidy
    <3>3. k = [m EXCEPT !.cells[b] = FreeCell]
      BY <1>5, <2>2, <2>4 DEF Free
    <3>4. /\ \A x \in Addr : k.cells[x] = IF x = b THEN FreeCell ELSE m.cells[x]
          /\ DOMAIN k.cells = Addr
      BY <3>1, <3>3 DEF Memory
    <3>5. k \in Memory
      BY <3>1, <3>3, FreeCellType DEF Memory
    <3>6. Live(k, a)
      BY <1>1, <3>1, <3>4 DEF Live
    <3>7. n = [k EXCEPT !.cells[a] = FreeCell]
      BY <1>1, <1>2, <3>6 DEF Free
    <3>8. \A x \in Addr : n.cells[x] = IF x \in {a, b} THEN FreeCell ELSE m.cells[x]
      <4>1. \A x \in Addr : n.cells[x] = IF x = a THEN FreeCell ELSE k.cells[x]
        BY <1>1, <3>5, <3>7 DEF Memory
      <4> QED
        BY <3>4, <4>1
    <3>9. Whole(m, {a, b})
      BY <3>2 DEF Whole
    <3> QED
      BY <1>1, <3>1, <3>8, <3>9
  <2> QED
    BY <2>3, <2>4
<1> QED
  BY <1>4, <1>5

LEMMA AccountGone ==
    ASSUME NEW m, NEW G, NEW D, Account(m, G, D), NEW a, NEW n, n = InstanceDestroy(m, a)
    PROVE  Account(n, G, D \cup {a})
<1>1. m \in Memory /\ Neat(m)
  BY DEF Account
<1>2. n \in Memory
  BY <1>1, InstanceDestroyType
<1>3. CASE ~Live(m, a)
  <2>1. n.cells = m.cells
    BY <1>1, <1>3 DEF InstanceDestroy, Touch, Raise, Memory
  <2>2. Account(n, G, D)
    BY <1>2, <2>1, AccountSame
  <2>3. ~Live(n, a)
    BY <1>3, <2>1 DEF Live
  <2> QED
    BY <2>2, <2>3 DEF Account, Spent
<1>4. CASE Live(m, a)
  <2>1. PICK E \in SUBSET Addr : /\ a \in E /\ Whole(m, E)
                /\ \A x \in Addr : n.cells[x] = IF x \in E THEN FreeCell ELSE m.cells[x]
    BY <1>1, <1>4, InstanceShape
  <2>2. Account(n, G, D \cup E)
    BY <1>2, <2>1, AccountFreed
  <2> QED
    BY <2>1, <2>2 DEF Account, Spent
<1> QED
  BY <1>3, <1>4

LEMMA AccountDestroy ==
    ASSUME NEW m, NEW G, NEW D, Account(m, G, D), NEW a, NEW n, n = RuntimeDestroy(m, a)
    PROVE  Account(n, G, D \cup {a})
<1>1. CASE Live(m, a) /\ m.cells[a].refs > 0
  BY <1>1 DEF RuntimeDestroy, Account, Spent
<1>2. CASE ~(Live(m, a) /\ m.cells[a].refs > 0)
  <2>1. n = InstanceDestroy(m, a)
    BY <1>2 DEF RuntimeDestroy
  <2> QED
    BY <2>1, AccountGone
<1> QED
  BY <1>1, <1>2

LEMMA AccountFree ==
    ASSUME NEW m, NEW G, NEW D, Account(m, G, D), NEW a,
           Live(m, a) => m.cells[a].type = "block", NEW n, n = Free(m, a)
    PROVE  Account(n, G, D \cup {a})
<1>1. m \in Memory /\ Neat(m)
  BY DEF Account
<1>2. n \in Memory
  BY <1>1, FreeType
<1>3. CASE ~Live(m, a)
  <2>1. n.cells = m.cells
    BY <1>1, <1>3 DEF Free, Raise, Memory
  <2>2. Account(n, G, D)
    BY <1>2, <2>1, AccountSame
  <2>3. ~Live(n, a)
    BY <1>3, <2>1 DEF Live
  <2> QED
    BY <2>2, <2>3 DEF Account, Spent
<1>4. CASE Live(m, a)
  <2>1. a \in Addr /\ a # NULL
    BY <1>4, AddrAssumption DEF Live
  <2>2. n = [m EXCEPT !.cells[a] = FreeCell]
    BY <1>4, <2>1 DEF Free
  <2>3. \A x \in Addr : n.cells[x] = IF x \in {a} THEN FreeCell ELSE m.cells[x]
    BY <1>1, <2>1, <2>2 DEF Memory
  <2>4. Whole(m, {a})
    BY <1>1, <1>4, <2>1 DEF Whole, Neat, Tidy
  <2> QED
    BY <1>2, <2>1, <2>3, <2>4, AccountFreed
<1> QED
  BY <1>3, <1>4

\* The addresses that nobody's buffer has.
Spare(m, b) == \A a \in Addr : Live(m, a) => m.cells[a].buf # b

LEMMA AccountPut ==
    ASSUME NEW m, NEW G, NEW D, Account(m, G, D), CanMalloc(m), NEW c \in Cell, c.buf = NULL,
           Spare(m, New(m)), NEW n, n = Put(m, c)
    PROVE  Account(n, G \cup {New(m)}, D \ {New(m)})
<1> DEFINE b == New(m)
<1>1. b \in Addr /\ ~Live(m, b) /\ b # NULL
  BY NewFree, AddrAssumption
<1>2. n \in Memory
  BY PutType DEF Account
<1>3. \A a \in Addr : n.cells[a] = IF a = b THEN c ELSE m.cells[a]
  BY <1>1 DEF Put, Memory, Account
<1>4. Spare(m, b)
  OBVIOUS
<1> HIDE DEF b
<1>5. \A a : a # b => (Live(n, a) <=> Live(m, a)) /\ (Live(n, a) => n.cells[a] = m.cells[a])
  BY <1>3 DEF Live
<1>6. ~Live(n, NULL)
  BY AddrAssumption DEF Live
<1>7. Covers(n, G \cup {b})
  BY <1>1, <1>5 DEF Account, Covers
<1>8. Tidy(n)
  BY <1>3, <1>5 DEF Account, Neat, Tidy
<1>9. \A a \in Addr : Live(n, a) /\ Live(n, n.cells[a].buf) =>
                n.cells[n.cells[a].buf].type = "block"
  <2> SUFFICES ASSUME NEW a \in Addr, Live(n, a), Live(n, n.cells[a].buf)
               PROVE  n.cells[n.cells[a].buf].type = "block"
    OBVIOUS
  <2>1. a # b
    BY <1>3, <1>6
  <2>2. Live(m, a) /\ n.cells[a] = m.cells[a] /\ m.cells[a].buf # b
    BY <1>4, <1>5, <2>1 DEF Spare
  <2> QED
    BY <1>5, <2>2 DEF Account, Neat
<1>10. Spent(n, D \ {b})
  BY <1>5 DEF Account, Spent
<1> QED
  BY <1>2, <1>7, <1>8, <1>9, <1>10 DEF Account, Neat, b

\* A string's value takes its block over.
LEMMA AccountArray ==
    ASSUME NEW m, NEW G, Account(m, G, {}), CanMalloc(m), NEW cap \in Nat, cap > 0,
           NEW p \in Pointers, Live(m, p) => m.cells[p].type = "block", p # New(m),
           Spare(m, New(m)), NEW n, n = Put(m, Array("char", cap, p))
    PROVE  Account(n, (G \ {p}) \cup {New(m)}, {})
<1> DEFINE b == New(m)
           c == Array("char", cap, p)
<1>1. b \in Addr /\ ~Live(m, b) /\ b # NULL
  BY NewFree, AddrAssumption
<1>2. /\ c \in Cell /\ c.type = "array" /\ c.elem = "char" /\ c.cap = cap /\ c.buf = p
  BY ConstructorTypes DEF Array, NewCell, ValueType
<1>3. n \in Memory
  BY <1>2, PutType DEF Account
<1>4. \A a \in Addr : n.cells[a] = IF a = b THEN c ELSE m.cells[a]
  BY <1>1 DEF Put, Memory, Account
<1>5. Spare(m, b) /\ p # b
  OBVIOUS
<1> HIDE DEF b, c
<1>6. \A a : a # b => (Live(n, a) <=> Live(m, a)) /\ (Live(n, a) => n.cells[a] = m.cells[a])
  BY <1>4 DEF Live
<1>7. Live(n, b)
  BY <1>1, <1>2, <1>4 DEF Live
<1>8. Covers(n, (G \ {p}) \cup {b})
  <2> SUFFICES ASSUME NEW a \in Addr, Live(n, a), a \notin G \ {p}, a # b
               PROVE  \E d \in (G \ {p}) \cup {b} : Live(n, d) /\ n.cells[d].buf = a
    BY DEF Covers
  <2>1. CASE a = p
    BY <1>1, <1>2, <1>4, <1>7, <2>1
  <2>2. CASE a # p
    <3>1. PICK d \in G : Live(m, d) /\ m.cells[d].buf = a
      BY <1>6, <2>2 DEF Account, Covers
    <3>2. d # b /\ a # NULL
      BY <1>1, <3>1, AddrAssumption
    <3>3. d # p
      BY <3>1, <3>2 DEF Account, Neat, Tidy, Live
    <3> QED
      BY <1>6, <3>1, <3>2, <3>3
  <2> QED
    BY <2>1, <2>2
<1>9. Tidy(n)
  BY <1>2, <1>4, <1>6 DEF Account, Neat, Tidy
<1>10. \A a \in Addr : Live(n, a) /\ Live(n, n.cells[a].buf) =>
                n.cells[n.cells[a].buf].type = "block"
  <2> SUFFICES ASSUME NEW a \in Addr, Live(n, a), Live(n, n.cells[a].buf)
               PROVE  n.cells[n.cells[a].buf].type = "block"
    OBVIOUS
  <2>1. CASE a = b
    BY <1>1, <1>2, <1>4, <1>5, <1>6, <2>1
  <2>2. CASE a # b
    <3>1. Live(m, a) /\ n.cells[a] = m.cells[a] /\ m.cells[a].buf # b
      BY <1>5, <1>6, <2>2 DEF Spare
    <3> QED
      BY <1>6, <3>1 DEF Account, Neat
  <2> QED
    BY <2>1, <2>2
<1> QED
  BY <1>3, <1>8, <1>9, <1>10 DEF Account, Neat, Spent, b

LEMMA RecountedShape ==
    ASSUME NEW m \in Memory, NEW n, Recounted(m, n)
    PROVE  /\ \A a : Live(n, a) <=> Live(m, a)
           /\ \A a \in Addr : LET c == n.cells[a] d == m.cells[a]
                              IN  /\ c.type = d.type /\ c.buf = d.buf
                                  /\ c.elem = d.elem /\ c.cap = d.cap
<1>1. \A a \in Addr : LET c == n.cells[a] d == m.cells[a]
                      IN  c.type = d.type /\ c.buf = d.buf /\ c.elem = d.elem /\ c.cap = d.cap
  BY ZenonT(40) DEF Memory, Cell, Recounted
<1>2. \A a : Live(n, a) <=> Live(m, a)
  BY <1>1 DEF Live
<1> QED
  BY <1>1, <1>2

LEMMA AccountCount ==
    ASSUME NEW m, NEW G, Account(m, G, {}), NEW n \in Memory, Recounted(m, n)
    PROVE  Account(n, G, {})
<1>1. /\ \A a : Live(n, a) <=> Live(m, a)
      /\ \A a \in Addr : LET c == n.cells[a] d == m.cells[a]
                         IN  /\ c.type = d.type /\ c.buf = d.buf
                             /\ c.elem = d.elem /\ c.cap = d.cap
  BY RecountedShape DEF Account
<1>2. \A a : Live(n, a) => a \in Addr
  BY DEF Live
<1>3. Covers(n, G)
  BY <1>1, <1>2 DEF Account, Covers
<1>4. Neat(n)
  BY <1>1, <1>2 DEF Account, Neat, Tidy
<1> QED
  BY <1>3, <1>4 DEF Account, Spent

LEMMA AccountAdd ==
    ASSUME NEW m, NEW G, Account(m, G, {}), NEW a, NEW n, n = AddReference(m, a)
    PROVE  Account(n, G, {})
<1>1. m \in Memory /\ n \in Memory
  BY AddReferenceType DEF Account
<1>2. CASE ~Live(m, a)
  <2>1. n.cells = m.cells
    BY <1>1, <1>2 DEF AddReference, Touch, Raise, Memory
  <2> QED
    BY <1>1, <2>1, AccountSame
<1>3. CASE Live(m, a)
  <2>1. a \in Addr /\ n = Counting(m, a, 1)
    BY <1>3 DEF AddReference, Live, Counting
  <2>2. Recounted(m, n)
    BY <1>1, <2>1, CountingShape
  <2> QED
    BY <1>1, <2>2, AccountCount
<1> QED
  BY <1>2, <1>3

LEMMA AccountRemove ==
    ASSUME NEW m, NEW G, Account(m, G, {}), NEW a, NEW n, n = RemoveReference(m, a)
    PROVE  Account(n, G, {a})
<1>1. m \in Memory
  BY DEF Account
<1>2. CASE ~Live(m, a)
  <2>1. n = Touch(m, a)
    BY <1>2 DEF RemoveReference
  <2>2. n.cells = m.cells /\ n \in Memory
    BY <1>1, <1>2, <2>1, TouchType DEF Touch, Raise, Memory
  <2>3. Account(n, G, {})
    BY <2>2, AccountSame
  <2> QED
    BY <1>2, <2>2, <2>3 DEF Account, Spent, Live
<1>3. CASE Live(m, a)
  <2>1. PICK k : k = Counting(m, a, -1)
    OBVIOUS
  <2>2. a \in Addr /\ m.cells[a].refs \in Int
    BY <1>1, <1>3 DEF Live, Memory, Cell
  <2>3. k = [m EXCEPT !.cells[a].refs = @ - 1]
    BY <1>1, <2>1, <2>2 DEF Counting, Memory, Cell
  <2>4. k \in Memory /\ Recounted(m, k)
    BY <1>1, <2>1, <2>2, CountingShape
  <2>5. Account(k, G, {})
    BY <2>4, AccountCount
  <2>6. n = IF k.cells[a].refs <= 0 THEN InstanceDestroy(k, a) ELSE k
    BY <1>3, <2>3 DEF RemoveReference
  <2>7. CASE k.cells[a].refs <= 0
    BY <2>5, <2>6, <2>7, AccountGone
  <2>8. CASE ~(k.cells[a].refs <= 0)
    <3>1. k.cells[a].refs \in Int
      BY <2>2, <2>4 DEF Memory, Cell
    <3> QED
      BY <2>5, <2>6, <2>8, <3>1 DEF Account, Spent
  <2> QED
    BY <2>7, <2>8
<1> QED
  BY <1>2, <1>3

(***************************************************************************)
(* Then for the call stack: what the frames hold before and after a step.  *)
(***************************************************************************)
Mine(f) == Held(f) \cup ({f.blk} \ {NULL})
Resting == UNION {Mine(stack[j]) : j \in 1 .. Len(stack) - 1}

\* What is held while the evaluator runs.
Ledger == Values(variables.insts) \cup Resting \cup Mine(Top)

LEMMA GripOpen ==
    ASSUME TypeOK, stack # <<>>
    PROVE  Grip = Ledger
<1>1. /\ DOMAIN stack = 1 .. Len(stack) /\ Len(stack) \in Nat /\ Top = stack[Len(stack)]
      /\ Len(stack) >= 1
  BY FrameAt
<1>2. HeldByFrames = UNION {Mine(stack[j]) : j \in DOMAIN stack}
  BY DEF HeldByFrames, Mine
<1>3. DOMAIN stack = (1 .. Len(stack) - 1) \cup {Len(stack)}
  BY <1>1
<1>4. HeldByFrames = Resting \cup Mine(Top)
  BY <1>1, <1>2, <1>3 DEF Resting
<1> QED
  BY <1>4 DEF Grip, Ledger

\* Whatever a frame of the next stack holds is held.
LEMMA GripNext ==
    ASSUME NEW j \in DOMAIN stack'
    PROVE  Mine(stack'[j]) \subseteq Grip'
BY DEF Grip, HeldByFrames, Mine

LEMMA GripValues == Values(variables'.insts) \subseteq Grip'
BY DEF Grip, Values

\* The running frame goes on as f.
LEMMA MovedTop ==
    ASSUME TypeOK, TypeOK', stack # <<>>, NEW f, Moved(f)
    PROVE  f \in Frame
<1>1. PICK n \in Nat : n = Len(stack) /\ n >= 1
  BY FrameAt
<1>2. n \in DOMAIN stack' /\ stack'[n] = f
  <2>1. CASE stack' = SetTop(f)
    BY <1>1, <2>1, SetTopShape
  <2>2. CASE \E k, chain, b : stack' = Append(SetTop(f), NewFrame(k, chain, b))
    <3>1. PICK k, chain, b : stack' = Append(SetTop(f), NewFrame(k, chain, b))
      BY <2>2
    <3>2. PICK g : g = NewFrame(k, chain, b)
      OBVIOUS
    <3>3. stack' = Append(SetTop(f), g)
      BY <3>1, <3>2
    <3> QED
      BY <1>1, <3>3, PushShape
  <2> QED
    BY <2>1, <2>2 DEF Moved
<1>3. stack' \in Seq(Frame)
  BY DEF TypeOK
<1> QED
  BY <1>2, <1>3

LEMMA MovedGrip ==
    ASSUME TypeOK, TypeOK', stack # <<>>, NEW f, Moved(f)
    PROVE  Resting \subseteq Grip' /\ Mine(f) \subseteq Grip'
<1>1. PICK n \in Nat : n = Len(stack) /\ n >= 1
  BY FrameAt
<1>2. /\ DOMAIN stack' \in {1 .. n, 1 .. n + 1} /\ stack'[n] = f
      /\ \A j \in 1 .. n - 1 : stack'[j] = stack[j]
  BY <1>1, MovedTop, MovedShape
<1>3. \A j \in 1 .. n : j \in DOMAIN stack'
  BY <1>1, <1>2
<1>4. Mine(f) \subseteq Grip'
  BY <1>1, <1>2, <1>3, GripNext
<1>5. \A j \in 1 .. n - 1 : Mine(stack[j]) \subseteq Grip'
  BY <1>1, <1>2, <1>3, GripNext
<1> QED
  BY <1>1, <1>4, <1>5 DEF Resting

\* The frames that wait.
Waiters == \A j \in 1 .. Len(stack) - 1 : Orderly(stack[j])

LEMMA MovedOrder ==
    ASSUME TypeOK, TypeOK', stack # <<>>, NEW f, Moved(f), Waiters,
           Orderly(f), Bound(f, variables'.insts)
    PROVE  /\ \A j \in DOMAIN stack' : Orderly(stack'[j])
           /\ Bound(Top, variables.insts)'
<1>1. PICK n \in Nat : n = Len(stack) /\ n >= 1
  BY FrameAt
<1>2. CASE stack' = SetTop(f)
  <2>1. /\ DOMAIN stack' = 1 .. n /\ Len(stack') = n
        /\ \A j \in 1 .. n : stack'[j] = IF j = n THEN f ELSE stack[j]
    BY <1>1, <1>2, SetTopShape
  <2>2. Top' = f
    BY <1>1, <2>1 DEF Top
  <2> QED
    BY <1>1, <2>1, <2>2 DEF Waiters, Bound, Values
<1>3. CASE \E k, chain, b : stack' = Append(SetTop(f), NewFrame(k, chain, b))
  <2>1. PICK k, chain, b : stack' = Append(SetTop(f), NewFrame(k, chain, b))
    BY <1>3
  <2>2. PICK g : g = NewFrame(k, chain, b)
    OBVIOUS
  <2>3. g.pc = "start" /\ g.got = <<>> /\ g.blk = NULL /\ g.i = 0
    BY <2>2 DEF NewFrame
  <2>4. stack' = Append(SetTop(f), g)
    BY <2>1, <2>2
  <2>5. /\ DOMAIN stack' = 1 .. n + 1 /\ Len(stack') = n + 1
        /\ \A j \in 1 .. n : stack'[j] = IF j = n THEN f ELSE stack[j]
        /\ stack'[n + 1] = g
    BY <1>1, <2>4, PushShape
  <2>6. Top' = g
    BY <1>1, <2>5 DEF Top
  <2>7. Orderly(g)
    BY <2>3 DEF Orderly, InAt
  <2>8. Bound(Top, variables.insts)'
    BY <2>3, <2>6 DEF Bound
  <2>9. \A j \in 1 .. n + 1 : j = n + 1 \/ j = n \/ j \in 1 .. n - 1
    BY <1>1
  <2> QED
    BY <1>1, <2>5, <2>7, <2>8, <2>9 DEF Waiters
<1> QED
  BY <1>2, <1>3 DEF Moved

\* The running activation returns v.
LEMMA ReturnGrip ==
    ASSUME TypeOK, TypeOK', NEW quiet, Core(quiet), stack # <<>>, NEW v, Return(v),
           phase' = "run", Waiters
    PROVE  /\ Resting \subseteq Grip' /\ v \in Grip' \cup {NULL}
           /\ \A j \in DOMAIN stack' : Orderly(stack'[j])
           /\ stack' # <<>> => Bound(Top, variables.insts)'
<1>1. PICK n \in Nat : n = Len(stack) /\ n >= 1
  BY FrameAt
<1>2. CASE n = 1
  <2>1. stack' = <<>> /\ result' = v
    BY <1>1, <1>2 DEF Return
  <2>2. v \in Grip'
    BY <2>1 DEF Grip
  <2>3. Resting = {}
    BY <1>1, <1>2 DEF Resting
  <2> QED
    BY <2>1, <2>2, <2>3
<1>3. CASE n # 1
  <2>0. Len(stack) # 0 /\ Len(stack) # 1 /\ Len(stack) - 1 # 0 /\ stack \in Seq(Frame)
    BY <1>1, <1>3, Typed
  <2>1. stack' = Popped(stack, v)
    BY <2>0 DEF Return, Popped
  <2>2. /\ DOMAIN stack' = 1 .. n - 1 /\ Len(stack') = n - 1
        /\ \A j \in 1 .. n - 1 : stack'[j] = IF j = n - 1 THEN Given(stack[j], v) ELSE stack[j]
    BY <1>1, <2>0, <2>1, PopNext
  <2>3. PICK g \in Frame : g = stack[n - 1]
    BY <1>1, <1>3, <2>0
  <2>4. PICK h : h = Given(g, v)
    OBVIOUS
  <2>5. g.pc # "drop" /\ WaitsFor(g, stack[n])
    BY <1>1, <1>3, <2>3, BelowWaits
  <2>6. /\ h.node = g.node /\ h.pc = g.pc /\ h.blk = g.blk /\ h.i = g.i
        /\ h.got = Append(g.got, v) /\ g.got \in Seq(Pointers)
    BY <2>3, <2>4 DEF Given, Frame
  <2>7. stack'[n - 1] = h /\ n - 1 \in DOMAIN stack'
    BY <1>1, <1>3, <2>2, <2>3, <2>4
  <2>8. Mine(g) \subseteq Mine(h) /\ (v = NULL \/ v \in Mine(h))
    <3>1. /\ \A k \in DOMAIN g.got : k \in DOMAIN h.got /\ h.got[k] = g.got[k]
          /\ Len(h.got) \in DOMAIN h.got /\ h.got[Len(h.got)] = v
      <4>1. v \in Pointers
        <5>0. stack' \in Seq(Frame)
          BY DEF TypeOK
        <5>1. h \in Frame
          BY <2>7, <5>0
        <5>2. h.got \in Seq(Pointers) /\ Len(h.got) = Len(g.got) + 1 /\ Len(g.got) \in Nat
          BY <2>6, <5>1 DEF Frame
        <5> QED
          BY <2>6, <5>2
      <4> QED
        BY <2>6, <4>1
    <3> QED
      BY <2>5, <2>6, <3>1 DEF Mine, Held
  <2>9. \A j \in 1 .. n - 1 : Mine(stack[j]) \subseteq Grip'
    <3> SUFFICES ASSUME NEW j \in 1 .. n - 1 PROVE Mine(stack[j]) \subseteq Grip'
      OBVIOUS
    <3>1. Mine(stack'[j]) \subseteq Grip'
      BY <2>2, GripNext
    <3>2. stack'[j] = stack[j] \/ (j = n - 1 /\ stack'[j] = h /\ stack[j] = g)
      BY <2>2, <2>3, <2>4
    <3> QED
      BY <2>8, <3>1, <3>2
  <2>10. v \in Grip' \cup {NULL}
    BY <2>7, <2>8, GripNext
  <2>11. g.node.kind # "string" /\ ~InAt(g, {"func"}, "start")
    BY <2>5 DEF WaitsFor, Waits, InAt, Pair
  <2>12. Orderly(g)
    BY <1>1, <1>3, <2>3 DEF Waiters
  <2>13. Orderly(h) /\ Bound(h, variables'.insts)
    BY <2>5, <2>6, <2>11, <2>12 DEF Orderly, Bound, InAt
  <2>14. Top' = h
    BY <1>1, <1>3, <2>2, <2>7 DEF Top
  <2>15. Bound(Top, variables.insts)'
    BY <2>13, <2>14 DEF Bound, Values
  <2>16. \A j \in DOMAIN stack' : Orderly(stack'[j])
    BY <1>1, <2>2, <2>3, <2>4, <2>13 DEF Waiters
  <2> QED
    BY <1>1, <2>9, <2>10, <2>15, <2>16 DEF Resting
<1> QED
  BY <1>2, <1>3

(***************************************************************************)
(* What a step has to show: who holds a block after it, given the account  *)
(* of the memory it leaves.                                                *)
(***************************************************************************)
Fairly(quiet) == /\ Calmly(quiet) /\ Accounted /\ Terminated
                 /\ Kept' /\ mem'.fault = "none" /\ phase' = "run"

LEMMA Opened ==
    ASSUME NEW quiet, Fairly(quiet), Running
    PROVE  /\ stack # <<>> /\ Account(mem, Ledger, {})
           /\ Waiters /\ Orderly(Top) /\ Bound(Top, variables.insts)
           /\ CanMalloc(mem) => Spare(mem, New(mem))
<1>1. TypeOK /\ Kept /\ Accounted /\ stack # <<>> /\ mem \in Memory
  BY CalmFacts DEF Fairly, Calmly
<1>2. /\ DOMAIN stack = 1 .. Len(stack) /\ Len(stack) \in Nat /\ Top = stack[Len(stack)]
      /\ Len(stack) \in DOMAIN stack
  BY <1>1, FrameAt
<1>3. Covers(mem, Ledger)
  BY <1>1, GripOpen DEF Accounted
<1>4. PICK S, V : Owned(mem, S, V)
  BY <1>1 DEF Kept, Store
<1>5. \A a \in Addr : Live(mem, a) /\ mem.cells[a].buf # NULL => IsRaw(mem, mem.cells[a].buf)
  BY <1>4 DEF Owned
<1>6. Neat(mem)
  <2>1. \A a : Live(mem, a) => a # NULL
    BY AddrAssumption DEF Live
  <2> QED
    BY <1>1, <1>5, <2>1 DEF Accounted, Neat, IsRaw
<1>7. Waiters /\ Orderly(Top) /\ Bound(Top, variables.insts)
  BY <1>1, <1>2 DEF Accounted, Waiters
<1>8. CanMalloc(mem) => Spare(mem, New(mem))
  <2>1. CanMalloc(mem) => ~Live(mem, New(mem)) /\ New(mem) # NULL
    BY NewFree, AddrAssumption
  <2> QED
    BY <1>5, <2>1 DEF Spare, IsRaw
<1> QED
  BY <1>1, <1>3, <1>6, <1>7, <1>8 DEF Account, Spent

\* A value that counts is a variable's.
LEMMA Settle ==
    ASSUME TypeOK', Kept', NEW G, NEW D, Account(mem', G, D),
           \A a \in G : a = NULL \/ a \in D \/ a \in Grip'
    PROVE  Covers(mem', Grip') /\ Tidy(mem')
<1>1. Counted(mem', variables'.insts) /\ variables'.insts \in Seq(VariableInstance)
  BY DEF Kept, Store, TypeOK
<1>2. ASSUME NEW a \in G, Live(mem', a) PROVE a \in Grip'
  <2>1. a # NULL /\ a \in Addr
    BY <1>2, AddrAssumption DEF Live
  <2>2. CASE a \in D
    <3>1. mem'.cells[a].refs > 0
      BY <1>2, <2>2 DEF Account, Spent
    <3>2. mem'.cells[a].refs = References(variables'.insts, a)
      BY <1>1, <1>2, <2>1 DEF Counted
    <3>3. \E i \in DOMAIN variables'.insts : variables'.insts[i].val = a
      BY <1>1, <3>1, <3>2, CountType
    <3>4. a \in Values(variables'.insts)
      BY <3>3 DEF Values
    <3> QED
      BY <3>4, GripValues
  <2> QED
    BY <2>1, <2>2
<1>3. Covers(mem', Grip')
  BY <1>2 DEF Account, Covers
<1> QED
  BY <1>3 DEF Account, Neat

\* The running activation goes on as f: F is new to it, D it has dropped.
LEMMA GoOnFair ==
    ASSUME NEW quiet, Fairly(quiet), Running, NEW f, Moved(f), Orderly(f),
           Bound(f, variables'.insts), NEW F, NEW D, Account(mem', Ledger \cup F, D),
           Mine(Top) \cup F \subseteq Mine(f) \cup D \cup Values(variables'.insts) \cup {NULL},
           Values(variables.insts) \subseteq Values(variables'.insts) \cup D
    PROVE  Accounted'
<1>1. TypeOK /\ TypeOK' /\ Kept' /\ stack # <<>> /\ Waiters
  BY Opened DEF Fairly, Calmly
<1>2. Resting \subseteq Grip' /\ Mine(f) \subseteq Grip'
  BY <1>1, MovedGrip
<1>3. \A a \in Ledger \cup F : a = NULL \/ a \in D \/ a \in Grip'
  BY <1>2, GripValues DEF Ledger
<1>4. Covers(mem', Grip') /\ Tidy(mem')
  BY <1>1, <1>3, Settle
<1>5. /\ \A j \in DOMAIN stack' : Orderly(stack'[j])
      /\ Bound(Top, variables.insts)'
  BY <1>1, MovedOrder
<1> QED
  BY <1>4, <1>5 DEF Accounted

\* It returns v.
LEMMA AnswerGrip ==
    ASSUME NEW quiet, Fairly(quiet), Running, NEW v, Return(v), NEW G, NEW D, Account(mem', G, D),
           G \subseteq Resting \cup Values(variables'.insts) \cup D \cup {v, NULL}
    PROVE  Accounted'
<1>1. TypeOK /\ TypeOK' /\ Kept' /\ stack # <<>> /\ Waiters /\ Core(quiet) /\ phase' = "run"
  BY Opened DEF Fairly, Calmly
<1>2. /\ Resting \subseteq Grip' /\ v \in Grip' \cup {NULL}
      /\ \A j \in DOMAIN stack' : Orderly(stack'[j])
      /\ stack' # <<>> => Bound(Top, variables.insts)'
  BY <1>1, ReturnGrip
<1>3. \A a \in G : a = NULL \/ a \in D \/ a \in Grip'
  BY <1>2, GripValues
<1>4. Covers(mem', Grip') /\ Tidy(mem')
  BY <1>1, <1>3, Settle
<1> QED
  BY <1>2, <1>4 DEF Accounted

LEMMA AnswerFair ==
    ASSUME NEW quiet, Fairly(quiet), Running, NEW v, Return(v), NEW F, NEW D,
           Account(mem', Ledger \cup F, D),
           Mine(Top) \cup F \subseteq {v, NULL} \cup D \cup Values(variables'.insts),
           Values(variables.insts) \subseteq Values(variables'.insts) \cup D
    PROVE  Accounted'
<1>1. Ledger \cup F \subseteq Resting \cup Values(variables'.insts) \cup D \cup {v, NULL}
  BY DEF Ledger
<1> QED
  BY <1>1, AnswerGrip

\* What is held where no block is: the results.
LEMMA MineResults ==
    ASSUME NEW f \in Frame, f.blk = NULL
    PROVE  /\ f.got = <<>> => Mine(f) = {}
           /\ DOMAIN f.got = {1} => Mine(f) \subseteq {f.got[1]}
           /\ DOMAIN f.got = {1, 2} => Mine(f) \subseteq {f.got[1], f.got[2]}
<1>1. DOMAIN f.got = 1 .. Len(f.got) /\ f.i \in Nat /\ Len(f.got) \in Nat
  BY DEF Frame
<1>2. \A k \in f.i + 1 .. Len(f.got) : k \in DOMAIN f.got
  BY <1>1
<1> QED
  BY <1>1, <1>2 DEF Mine, Held

\* Off the four points at which a frame has a block.
Light(f) == /\ f.blk = NULL /\ f.pc # "drop" /\ f.node.kind # "string"
            /\ f.pc = "start" => f.node.kind # "func"

LEMMA LightOrder ==
    ASSUME NEW f, Light(f)
    PROVE  Orderly(f) /\ \A vs : Bound(f, vs)
BY DEF Light, Orderly, Bound, InAt

LEMMA Blockless ==
    ASSUME NEW quiet, Fairly(quiet), Running, ~InAt(Top, {"string"}, "value"),
           ~InAt(Top, {"call"}, "arguments"), ~InAt(Top, {"func"}, "start"),
           ~InAt(Top, {"func"}, "drop")
    PROVE  Top.blk = NULL /\ Top \in Frame
BY Opened, CalmFacts DEF Orderly, Fairly

\* The results have been dropped and the frame goes on, or answers.
LEMMA LightFair ==
    ASSUME NEW quiet, Fairly(quiet), Running, UNCHANGED variables,
           NEW D, Account(mem', Ledger, D),
           Mine(Top) \subseteq D \cup {NULL} \cup Values(variables.insts),
           (\E f : Moved(f) /\ Light(f)) \/ (\E v : Return(v))
    PROVE  Accounted'
<1>1. Account(mem', Ledger \cup {}, D)
  BY AccountMore, Ledger \cup {} = Ledger
<1>4. /\ Values(variables'.insts) = Values(variables.insts)
      /\ Mine(Top) \cup {} = Mine(Top)
  OBVIOUS
<1>2. CASE \E f : Moved(f) /\ Light(f)
  <2>1. PICK f : Moved(f) /\ Light(f)
    BY <1>2
  <2>2. Orderly(f) /\ Bound(f, variables'.insts)
    BY <2>1, LightOrder
  <2>3. Mine(Top) \cup {} \subseteq Mine(f) \cup D \cup Values(variables'.insts) \cup {NULL}
    BY <1>4
  <2> QED
    BY <1>1, <1>4, <2>1, <2>2, <2>3, GoOnFair
<1>3. CASE \E v : Return(v)
  <2>1. PICK v : Return(v)
    BY <1>3
  <2>2. Mine(Top) \cup {} \subseteq {v, NULL} \cup D \cup Values(variables'.insts)
    BY <1>4
  <2> QED
    BY <1>1, <1>4, <2>1, <2>2, AnswerFair
<1> QED
  BY <1>2, <1>3

LEMMA BeginFair ==
    ASSUME NEW quiet, Fairly(quiet),
           UnaryStart \/ LeftOperand \/ BodyStatement \/ IfStart \/ ForInit \/ ForTest
           \/ ForStep \/ StatementValue
    PROVE  Accounted'
<1>1. /\ Running /\ UNCHANGED <<variables, mem>>
      /\ Top.pc \in {"start", "test", "iterate"} /\ Top.node.kind \notin {"func", "string"}
  BY DEF UnaryStart, LeftOperand, BodyStatement, IfStart, ForInit, ForTest, ForStep,
         StatementValue, At_, Pair
<1>2. Top.got = <<>> /\ Top \in Frame
  BY <1>1, CalmFacts DEF Ready, Nothing, Fairly
<1>3. Top.blk = NULL
  BY <1>1, Blockless DEF InAt
<1>4. Mine(Top) = {} /\ Account(mem', Ledger, {})
  BY <1>1, <1>2, <1>3, MineResults, Opened
<1> DEFINE P == {"operand", "left", "condition", "test", "variable", "iterate", "body",
                 "step", "value"}
<1>5. (\E pc \in P : Moved([Top EXCEPT !.pc = pc])) \/ Moved([Top EXCEPT !.pc = "result", !.i = @ + 1])
  BY ZenonT(40), EvaluateMoved
  DEF UnaryStart, LeftOperand, BodyStatement, IfStart, ForInit, ForTest, ForStep, StatementValue, Moved
<1>6. PICK f : /\ Moved(f)
               /\ \/ \E pc \in P : f = [Top EXCEPT !.pc = pc]
                  \/ f = [Top EXCEPT !.pc = "result", !.i = @ + 1]
  BY <1>5
<1>7. Light(f)
  BY <1>1, <1>2, <1>3, <1>6 DEF Frame, Light
<1> QED
  BY <1>1, <1>4, <1>6, <1>7, LightFair

\* The frame goes on with all it has.
LEMMA HandFair ==
    ASSUME NEW quiet, Fairly(quiet), Running, UNCHANGED <<variables, mem>>, Top.pc # "drop",
           NEW f, Moved(f), f.pc # "drop", f.got = Top.got, f.blk = Top.blk,
           Orderly(f), Bound(f, variables.insts)
    PROVE  Accounted'
<1>1. Mine(f) = Mine(Top)
  BY DEF Mine, Held
<1>2. Account(mem', Ledger \cup {}, {})
  BY Opened, Ledger \cup {} = Ledger
<1> QED
  BY <1>1, <1>2, GoOnFair

LEMMA ContinueFair ==
    ASSUME NEW quiet, Fairly(quiet), RightOperand \/ CallArgument \/ FunctionLeave
    PROVE  Accounted'
<1>0. ~failed
  BY DEF Calmly, Steady, Sane, Fairly
<1>1. Running /\ UNCHANGED <<variables, mem>>
  BY DEF RightOperand, CallArgument, FunctionLeave, At_
<1>2. Top \in Frame
  BY <1>1, CalmFacts DEF Fairly
<1>3. ASSUME NEW f, Moved(f), Top.pc \in {"left", "body"}, Top.node.kind \in Pair \cup {"func"},
             \/ f = [Top EXCEPT !.pc = "right"] 
             \/ f = [Top EXCEPT !.pc = "leave", !.i = RootStart]
      PROVE  Accounted'
  <2>1. /\ f.got = Top.got /\ f.blk = Top.blk /\ f.node = Top.node
        /\ f.pc \in {"right", "leave"}
    BY <1>2, <1>3 DEF Frame
  <2>2. Top.blk = NULL
    BY <1>1, <1>3, Blockless DEF InAt, Pair
  <2>3. Light(f)
    BY <1>3, <2>1, <2>2 DEF Light, Pair
  <2>4. Orderly(f) /\ Bound(f, variables.insts)
    BY <2>3, LightOrder
  <2>5. f.pc # "drop" /\ Top.pc # "drop"
    BY <1>3, <2>1
  <2> QED
    BY <1>1, <1>3, <2>1, <2>4, <2>5, HandFair
<1>4. CASE RightOperand
  <2>1. Top.pc = "left" /\ Top.node.kind \in Pair
    BY <1>4 DEF RightOperand, At_
  <2>2. Moved([Top EXCEPT !.pc = "right"])
    BY <1>0, <1>4, EvaluateMoved DEF RightOperand
  <2> QED
    BY <1>3, <2>1, <2>2
<1>5. CASE CallArgument
  <2>1. Moved(Top) /\ Top.pc = "arguments"
    BY <1>5, EvaluateMoved DEF CallArgument, At_
  <2>2. Orderly(Top) /\ Bound(Top, variables.insts)
    BY <1>1, Opened
  <2> QED
    BY <1>1, <2>1, <2>2, HandFair
<1>6. CASE FunctionLeave
  BY <1>3, <1>6 DEF FunctionLeave, At_, Moved
<1> QED
  BY <1>4, <1>5, <1>6

LEMMA YieldFair ==
    ASSUME NEW quiet, Fairly(quiet), Running, UNCHANGED variables, NEW v, Return(v),
           NEW D, Account(mem', Ledger, D),
           Mine(Top) \subseteq {v, NULL} \cup D \cup Values(variables.insts)
    PROVE  Accounted'
<1>1. Account(mem', Ledger \cup {}, D)
  BY AccountMore, Ledger \cup {} = Ledger
<1>2. /\ Values(variables'.insts) = Values(variables.insts)
      /\ Mine(Top) \cup {} = Mine(Top)
  OBVIOUS
<1>3. Mine(Top) \cup {} \subseteq {v, NULL} \cup D \cup Values(variables'.insts)
  BY <1>2
<1> QED
  BY <1>1, <1>2, <1>3, AnswerFair

\* The running frame holds one result, or none.
LEMMA MineOne ==
    ASSUME NEW quiet, Fairly(quiet), Running, Top.blk = NULL, Top.pc # "drop"
    PROVE  /\ Top \in Frame
           /\ Top.got = <<>> => Mine(Top) = {}
           /\ One(Top) => Mine(Top) \subseteq {Got(1)}
<1>1. Top \in Frame
  BY CalmFacts DEF Fairly
<1>2. One(Top) => DOMAIN Top.got = {1} /\ Got(1) = Top.got[1]
  BY OneResult DEF Fairly
<1> QED
  BY <1>1, <1>2, MineResults

LEMMA AnswersFair ==
    ASSUME NEW quiet, Fairly(quiet),
           CallReturn \/ FunctionReturn \/ BodyEnd \/ IfReturn \/ ForEnd \/ ForIterated
           \/ ReturnValue
    PROVE  Accounted'
<1>1. /\ Running /\ UNCHANGED <<variables, mem>>
      /\ Top.pc \in {"await", "leave", "start", "body", "value"}
      /\ Top.node.kind # "string" /\ (Top.pc = "start" => Top.node.kind # "func")
  BY DEF CallReturn, FunctionReturn, BodyEnd, IfReturn, ForEnd, ForIterated, ReturnValue, At_
<1>2. Top.blk = NULL
  BY <1>1, Blockless DEF InAt
<1>3. Top \in Frame /\ (Top.got = <<>> => Mine(Top) = {}) /\ (One(Top) => Mine(Top) \subseteq {Got(1)})
  BY <1>1, <1>2, MineOne
<1>4. Account(mem', Ledger, {})
  BY <1>1, Opened
<1>5. CASE BodyEnd \/ ForEnd
  <2>1. Return(NULL) /\ Nothing(Top)
    BY <1>5 DEF BodyEnd, ForEnd, Nothing, At_, InAt
  <2>2. Mine(Top) = {}
    BY <1>1, <1>3, <2>1, CalmFacts DEF Ready, Fairly
  <2> QED
    BY <1>1, <1>4, <2>1, <2>2, YieldFair
<1>6. ASSUME CallReturn \/ FunctionReturn \/ IfReturn \/ ForIterated \/ ReturnValue
      PROVE  Mine(Top) \subseteq {Got(1)}
  <2>1. One(Top)
    BY <1>6 DEF CallReturn, FunctionReturn, IfReturn, ForIterated, ReturnValue, At_, One, InAt
  <2> QED
    BY <1>3, <2>1
<1>7. CASE Return(Got(1)) /\ (CallReturn \/ FunctionReturn \/ IfReturn \/ ForIterated \/ ReturnValue)
  BY <1>1, <1>4, <1>6, <1>7, YieldFair
<1>8. CASE CallReturn \/ FunctionReturn \/ IfReturn
  BY <1>7, <1>8 DEF CallReturn, FunctionReturn, IfReturn
<1>9. CASE ForIterated
  <2>1. CASE Got(1) # NULL
    BY <1>7, <1>9, <2>1 DEF ForIterated
  <2>2. CASE Got(1) = NULL
    <3>1. PICK f : f = [Top EXCEPT !.pc = "test", !.got = <<>>]
      OBVIOUS
    <3>2. Moved(f) /\ Light(f)
      BY <1>1, <1>2, <1>3, <1>9, <2>2, <3>1 DEF ForIterated, Moved, Frame, Light
    <3>3. Mine(Top) \subseteq {} \cup {NULL} \cup Values(variables.insts)
      BY <1>6, <1>9, <2>2
    <3> QED
      BY <1>1, <1>4, <3>2, <3>3, LightFair
  <2> QED
    BY <2>1, <2>2
<1>10. CASE ReturnValue
  <2>1. CASE Len(Top.node.kids) = 1
    BY <1>7, <1>10, <2>1 DEF ReturnValue
  <2>2. CASE Len(Top.node.kids) # 1
    <3>1. PICK f : f = [Top EXCEPT !.pc = "body"]
      OBVIOUS
    <3>2. f.got = Top.got /\ f.blk = Top.blk /\ f.node = Top.node /\ f.pc = "body"
      BY <1>3, <3>1 DEF Frame
    <3>3. Moved(f)
      BY <1>10, <2>2, <3>1, EvaluateMoved DEF ReturnValue
    <3>4. Light(f)
      BY <1>1, <1>2, <3>2 DEF Light
    <3>5. Orderly(f) /\ Bound(f, variables.insts)
      BY <3>4, LightOrder
    <3>6. Top.pc # "drop" /\ f.pc # "drop"
      BY <1>1, <3>2
    <3> QED
      BY <1>1, <3>2, <3>3, <3>5, <3>6, HandFair
  <2> QED
    BY <2>1, <2>2
<1> QED
  BY <1>5, <1>8, <1>9, <1>10

LEMMA ConditionFair ==
    ASSUME NEW quiet, Fairly(quiet), IfCondition \/ ForCondition \/ ForBody \/ BodyResult
    PROVE  Accounted'
<1>0. ~failed
  BY DEF Calmly, Steady, Sane, Fairly
<1>1. /\ Running /\ UNCHANGED variables /\ One(Top)
      /\ Top.pc \in {"condition", "step", "result"} /\ Top.node.kind \in {"if", "for", "body"}
  BY DEF IfCondition, ForCondition, ForBody, BodyResult, At_, One
<1>2. Top.blk = NULL
  BY <1>1, Blockless DEF InAt
<1>3. Top \in Frame /\ Mine(Top) \subseteq {Got(1)}
  BY <1>1, <1>2, MineOne
<1>4. Account(mem, Ledger, {})
  BY <1>1, Opened
<1> DEFINE at(pc) == [Top EXCEPT !.pc = pc, !.got = <<>>]
           left == [Top EXCEPT !.pc = "leave", !.got = <<>>, !.i = RootStart]
<1>5. Light(left) /\ \A pc \in {"body", "iterate", "start"} : Light(at(pc))
  BY <1>1, <1>2, <1>3 DEF Frame, Light
<1> HIDE DEF at, left
<1>6. ASSUME mem' = RuntimeDestroy(mem, Got(1)) \/ (Got(1) = NULL /\ UNCHANGED mem),
             \/ \E pc \in {"body", "iterate", "start"} : Moved(at(pc))
             \/ Moved(left) \/ Return(NULL)
      PROVE  Accounted'
  <2>1. Account(mem', Ledger, {Got(1)})
    <3>1. CASE mem' = RuntimeDestroy(mem, Got(1))
      <4>1. Account(mem', Ledger, {} \cup {Got(1)})
        BY <1>4, <3>1, AccountDestroy
      <4> QED
        BY <4>1, {} \cup {Got(1)} = {Got(1)}
    <3>2. CASE Got(1) = NULL /\ UNCHANGED mem
      BY <1>4, <3>2, AddrAssumption DEF Account, Spent, Live
    <3> QED
      BY <1>6, <3>1, <3>2
  <2>2. Mine(Top) \subseteq {Got(1)} \cup {NULL} \cup Values(variables.insts)
    BY <1>3
  <2>3. (\E f : Moved(f) /\ Light(f)) \/ (\E v : Return(v))
    BY <1>5, <1>6
  <2> QED
    BY <1>1, <2>1, <2>2, <2>3, LightFair
<1>7. CASE IfCondition
  BY <1>0, <1>6, <1>7, EvaluateMoved DEF IfCondition, at
<1>8. CASE ForCondition
  BY <1>6, <1>8 DEF ForCondition, Moved, at, left
<1>9. CASE ForBody
  BY <1>6, <1>9, EvaluateMoved DEF ForBody, at
<1>10. CASE BodyResult
  <2>1. CASE EndsEarly(Child(Top.i))
    <3>1. Return(Got(1)) /\ UNCHANGED mem
      BY <1>10, <2>1 DEF BodyResult
    <3>2. Mine(Top) \subseteq {Got(1), NULL} \cup {} \cup Values(variables.insts)
      BY <1>3
    <3> QED
      BY <1>1, <1>4, <3>1, <3>2, YieldFair
  <2>2. CASE ~EndsEarly(Child(Top.i))
    BY <1>6, <1>10, <2>2 DEF BodyResult, Moved, at
  <2> QED
    BY <2>1, <2>2
<1> QED
  BY <1>7, <1>8, <1>9, <1>10

(***************************************************************************)
(* The arrays of arguments.                                                *)
(***************************************************************************)
LEMMA BlockRaw ==
    ASSUME NEW quiet, Fairly(quiet), Running
    PROVE  /\ Top.blk \in Pointers /\ (Live(mem, Top.blk) => mem.cells[Top.blk].type = "block")
           /\ Top.blk = NULL \/ Live(mem, Top.blk)
           /\ \A a \in Addr : Live(mem, a) /\ mem.cells[a].buf # NULL =>
                Live(mem, mem.cells[a].buf) /\ mem.cells[a].buf # Top.blk
<1>1. Store(mem, variables.insts, Holders, Held0) /\ Top \in Frame
  BY CalmFacts DEF Fairly
<1>2. PICK s : s = <<Len(stack), 0>>
  OBVIOUS
<1>3. s \in Holders /\ s[2] = 0 /\ Held0[s] = Top.blk
  BY <1>2, SlotIn DEF Fairly
<1> HIDE DEF Held0
<1>4. Top.blk \in Pointers /\ ~Live(mem, NULL)
  BY <1>1, AddrAssumption DEF Frame, Live
<1>5. Top.blk # NULL => Live(mem, Top.blk) /\ mem.cells[Top.blk].type = "block"
  BY <1>1, <1>3 DEF Store, HeldOnce
<1>6. \A a \in Addr : Live(mem, a) /\ mem.cells[a].buf # NULL =>
                Live(mem, mem.cells[a].buf) /\ mem.cells[a].buf # Top.blk
  BY <1>1, <1>3 DEF Store, Owned, IsRaw
<1> QED
  BY <1>4, <1>5, <1>6

\* The array is freed.
LEMMA FreedFair ==
    ASSUME NEW quiet, Fairly(quiet), Running, NEW n, n = Free(mem, Top.blk)
    PROVE  /\ Account(n, Ledger, {Top.blk})
           /\ CanMalloc(mem) => CanMalloc(n) /\ Spare(n, New(n))
<1>1. Account(mem, Ledger, {}) /\ mem \in Memory
  BY Opened, CalmFacts DEF Fairly
<1>2. Live(mem, Top.blk) => mem.cells[Top.blk].type = "block"
  BY BlockRaw
<1>3. Account(n, Ledger, {} \cup {Top.blk})
  BY <1>1, <1>2, AccountFree
<1>4. ASSUME CanMalloc(mem) PROVE CanMalloc(n) /\ Spare(n, New(n))
  <2>1. n \in Memory /\ NoNew(mem, n)
    BY <1>1, FreeType
  <2>2. CanMalloc(n)
    BY <1>4, <2>1 DEF CanMalloc, NoNew
  <2>3. PICK b : b = New(n)
    OBVIOUS
  <2>4. b \in Addr /\ ~Live(n, b) /\ b # NULL
    BY <2>2, <2>3, NewFree, AddrAssumption
  <2>5. \A a \in Addr : a # Top.blk => n.cells[a] = mem.cells[a]
    BY <1>1 DEF Free, Raise, Memory
  <2>6. \A a \in Addr : Live(n, a) => n.cells[a] = mem.cells[a]
    <3>1. \A a \in Addr : n.cells[a] = mem.cells[a] \/ n.cells[a] = FreeCell
      BY <1>1 DEF Free, Raise, Memory
    <3> QED
      BY <3>1 DEF Live, FreeCell, NewCell
  <2>7. \A a \in Addr : Live(mem, a) /\ a # Top.blk => Live(n, a)
    BY <2>5 DEF Live
  <2>8. ASSUME NEW a \in Addr, Live(n, a), n.cells[a].buf = b PROVE FALSE
    <3>1. Live(mem, a) /\ mem.cells[a].buf = b
      BY <2>1, <2>6, <2>8 DEF NoNew
    <3>2. Live(mem, b) /\ b # Top.blk
      BY <2>4, <3>1, BlockRaw
    <3> QED
      BY <2>4, <2>7, <3>2
  <2>9. \A a : Live(n, a) => a \in Addr
    BY DEF Live
  <2> QED
    BY <2>2, <2>3, <2>8, <2>9 DEF Spare
<1> QED
  BY <1>3, <1>4, {} \cup {Top.blk} = {Top.blk}

\* What the running function holds besides its array: what it has not added yet.
LEMMA MineAdded ==
    ASSUME NEW quiet, Fairly(quiet), Running, InAt(Top, {"func"}, "start")
    PROVE  Mine(Top) \subseteq {Top.got[k] : k \in Top.i + 1 .. Len(Top.got)} \cup {Top.blk}
                               \cup Values(variables.insts)
<1>1. Top.got \in Seq(Pointers) /\ Top.i \in Nat
  BY CalmFacts DEF Frame, Fairly
<1>2. \A k \in 1 .. Top.i : Top.got[k] \in Values(variables.insts)
  BY Opened DEF Bound
<1>3. \A k \in DOMAIN Top.got : k \in 1 .. Top.i \/ k \in Top.i + 1 .. Len(Top.got)
  BY <1>1
<1>4. Top.pc # "drop"
  BY DEF InAt
<1> QED
  BY <1>2, <1>3, <1>4 DEF Mine, Held

LEMMA BindPrintFair ==
    ASSUME NEW quiet, Fairly(quiet), BindPrint
    PROVE  Accounted'
<1>1. Running /\ UNCHANGED variables /\ InAt(Top, {"func"}, "start") /\ Top.pc = "start"
  BY DEF BindPrint, At_, InAt
<1>2. Calmly(quiet) /\ mem'.fault = "none"
  BY DEF Fairly
<1>3. Top \in Frame /\ Top.got \in Seq(Pointers) /\ Top.i \in Nat /\ mem \in Memory
  BY <1>1, <1>2, CalmFacts DEF Frame
<1>4. Readable(Got(1))
  BY <1>1, <1>2, GotReadable
<1>5. PICK read : read = Touch(mem, Got(1))
  OBVIOUS
<1>6. Read(mem, mem)
  BY <1>1, <1>2, CalmFacts DEF Read
<1>7. Read(mem, read) /\ (read.fault = "none" => Live(mem, Got(1)))
  BY <1>4, <1>5, <1>6, TouchRead DEF Readable, IsValue
<1>8. mem' = read \/ mem' = Touch(read, At(mem, Got(1)).buf)
  BY <1>5 DEF BindPrint
<1>9. Read(mem, mem') /\ read.fault = "none"
  BY <1>2, <1>4, <1>7, <1>8, TouchRead DEF Readable
<1>10. Top.got # <<>>
  <2>1. Got(1) # NULL
    BY <1>7, <1>9, AddrAssumption DEF Live
  <2> QED
    BY <2>1 DEF Got
<1>11. PICK f : f = [Top EXCEPT !.pc = "drop"]
  OBVIOUS
<1>12. /\ f.got = Top.got /\ f.blk = Top.blk /\ f.node = Top.node /\ f.pc = "drop"
       /\ f.i = Top.i
  BY <1>3, <1>11 DEF Frame
<1>13. Moved(f)
  BY <1>11 DEF BindPrint, Moved
<1>14. Orderly(f) /\ Bound(f, variables'.insts)
  BY <1>1, <1>10, <1>12 DEF Orderly, Bound, InAt
<1>15. Account(mem', Ledger \cup {}, {})
  BY <1>1, <1>9, Opened, AccountSame, Ledger \cup {} = Ledger DEF Read
<1>16. Mine(Top) \cup {} \subseteq Mine(f) \cup {} \cup Values(variables'.insts) \cup {NULL}
  <2>1. Mine(Top) \subseteq {Top.got[k] : k \in Top.i + 1 .. Len(Top.got)} \cup {Top.blk}
                               \cup Values(variables.insts)
    BY <1>1, MineAdded
  <2>2. {Top.got[k] : k \in Top.i + 1 .. Len(Top.got)} \cup {Top.blk} \subseteq Mine(f) \cup {NULL}
    BY <1>12 DEF Mine, Held
  <2> QED
    BY <1>1, <2>1, <2>2
<1> QED
  BY <1>1, <1>13, <1>14, <1>15, <1>16, GoOnFair

LEMMA BindDropFair ==
    ASSUME NEW quiet, Fairly(quiet), BindDrop
    PROVE  Accounted'
<1>1. /\ Running /\ UNCHANGED variables /\ Top.node.kind = "func"
      /\ Top.pc = "drop" /\ Top.i < Len(Top.got)
  BY DEF BindDrop, At_
<1>2. Top \in Frame /\ Top.got \in Seq(Pointers) /\ Top.i \in Nat
  BY <1>1, CalmFacts DEF Frame, Fairly
<1>3. PICK k : k = Top.i + 1
  OBVIOUS
<1>4. Got(Top.i + 1) = Top.got[k]
  BY <1>1, <1>2, <1>3 DEF Got
<1>5. Account(mem', Ledger \cup {}, {Top.got[k]})
  <2>1. Account(mem', Ledger, {} \cup {Top.got[k]})
    BY <1>1, <1>4, Opened, AccountDestroy DEF BindDrop
  <2> QED
    BY <2>1, {} \cup {Top.got[k]} = {Top.got[k]}, Ledger \cup {} = Ledger
<1>6. PICK f : f = [Top EXCEPT !.i = @ + 1]
  OBVIOUS
<1>7. /\ f.got = Top.got /\ f.blk = Top.blk /\ f.node = Top.node /\ f.pc = Top.pc
      /\ f.i = k
  BY <1>2, <1>3, <1>6 DEF Frame
<1>8. Moved(f)
  BY <1>6 DEF BindDrop, Moved
<1>9. Orderly(f) /\ Bound(f, variables'.insts)
  <2>1. Orderly(Top)
    BY <1>1, Opened
  <2> QED
    BY <1>1, <1>7, <2>1 DEF Orderly, Bound, InAt
<1>10. Mine(Top) \cup {} \subseteq Mine(f) \cup {Top.got[k]} \cup Values(variables'.insts) \cup {NULL}
  <2>1. \A j \in Top.i + 1 .. Len(Top.got) : j = k \/ j \in f.i + 1 .. Len(f.got)
    BY <1>2, <1>3, <1>7
  <2> QED
    BY <1>1, <1>7, <2>1 DEF Mine, Held
<1>11. Values(variables.insts) \subseteq Values(variables'.insts) \cup {Top.got[k]}
  BY <1>1
<1> QED
  BY <1>1, <1>5, <1>8, <1>9, <1>10, <1>11, GoOnFair

LEMMA BindReturnFair ==
    ASSUME NEW quiet, Fairly(quiet), BindReturn
    PROVE  Accounted'
<1>1. /\ Running /\ UNCHANGED variables /\ Top.pc = "drop" /\ Top.i = Len(Top.got)
  BY DEF BindReturn, At_
<1>2. Top \in Frame /\ Top.got \in Seq(Pointers) /\ Calmly(quiet)
  BY <1>1, CalmFacts DEF Fairly
<1>3. Top.got # <<>>
  BY <1>1, Opened DEF Orderly
<1>4. Top.i > 0
  BY <1>1, <1>2, <1>3
<1>5. PICK freed : freed = Free(mem, Top.blk)
  OBVIOUS
<1>6. PICK ok \in BOOLEAN :
        /\ Malloc(ok)
        /\ mem' = IF ok THEN Put(freed, Scalar("void", 0)) ELSE freed
        /\ Return(IF ok THEN New(freed) ELSE NULL)
  BY <1>4, <1>5 DEF BindReturn
<1>7. ok /\ CanMalloc(mem)
  BY <1>2, <1>6, AllAllocated
<1>8. Account(freed, Ledger, {Top.blk}) /\ CanMalloc(freed) /\ Spare(freed, New(freed))
  BY <1>1, <1>5, <1>7, FreedFair
<1>9. PICK v : v = New(freed)
  OBVIOUS
<1>10. mem' = Put(freed, Scalar("void", 0)) /\ Return(v)
  BY <1>6, <1>7, <1>9
<1>11. Scalar("void", 0).buf = NULL
  BY DEF Scalar, NewCell
<1> PICK F, D : F = {v} /\ D = {Top.blk} \ {v}
  OBVIOUS
<1>12. Account(mem', Ledger \cup F, D)
  BY <1>8, <1>9, <1>10, <1>11, VoidType, AccountPut
<1>13. Mine(Top) \subseteq {Top.blk}
  BY <1>1, <1>2 DEF Mine, Held
<1>14. /\ Mine(Top) \cup F \subseteq {v, NULL} \cup D \cup Values(variables'.insts)
       /\ Values(variables.insts) \subseteq Values(variables'.insts) \cup D
  BY <1>1, <1>13
<1>15. Running /\ Return(v)
  BY <1>1, <1>10
<1> QED
  BY <1>12, <1>14, <1>15, AnswerFair

LEMMA FunctionBodyFair ==
    ASSUME NEW quiet, Fairly(quiet), FunctionBody
    PROVE  Accounted'
<1>1. /\ Running /\ UNCHANGED variables /\ mem' = Free(mem, Top.blk)
      /\ InAt(Top, {"func"}, "start") /\ Top.i = Len(Top.got)
  BY DEF FunctionBody, At_, InAt
<1>2. Top \in Frame
  BY <1>1, CalmFacts DEF Fairly
<1>3. PICK f : f = [Top EXCEPT !.pc = "body", !.got = <<>>, !.blk = NULL]
  OBVIOUS
<1>4. Moved(f) /\ Light(f)
  BY <1>1, <1>2, <1>3, EvaluateMoved DEF FunctionBody, Frame, Light, InAt
<1>5. Account(mem', Ledger, {Top.blk})
  BY <1>1, FreedFair
<1>6. Mine(Top) \subseteq {Top.blk} \cup {NULL} \cup Values(variables.insts)
  <2>1. Mine(Top) \subseteq {Top.got[k] : k \in Top.i + 1 .. Len(Top.got)} \cup {Top.blk}
                               \cup Values(variables.insts)
    BY <1>1, MineAdded
  <2>2. Top.i + 1 .. Len(Top.got) = {}
    BY <1>1, <1>2 DEF Frame
  <2> QED
    BY <2>1, <2>2
<1> QED
  BY <1>1, <1>4, <1>5, <1>6, LightFair

LEMMA ReturnBodyFair ==
    ASSUME NEW quiet, Fairly(quiet), ReturnAfterBody
    PROVE  Accounted'
<1>0. ~failed
  BY DEF Calmly, Steady, Sane, Fairly
<1>1. /\ Running /\ UNCHANGED variables /\ Top.node.kind = "return" /\ Top.pc = "body"
      /\ Return(Got(1))
  BY DEF ReturnAfterBody, At_
<1>2. Top \in Frame /\ Top.got \in Seq(Pointers) /\ Len(Top.got) = 2
  BY <1>1, CalmFacts DEF Ready, InAt, Fairly
<1>3. DOMAIN Top.got = {1, 2} /\ Got(1) = Top.got[1] /\ Got(2) = Top.got[2]
  BY <1>2 DEF Got
<1>4. Top.blk = NULL
  BY <1>1, Blockless DEF InAt
<1>5. Mine(Top) \subseteq {Got(1), Got(2)}
  BY <1>2, <1>3, <1>4, MineResults
<1>6. Account(mem, Ledger, {})
  BY <1>1, Opened
<1>7. Account(mem', Ledger, {Got(2)})
  <2>1. CASE mem' = RuntimeDestroy(mem, Got(2))
    <3>1. Account(mem', Ledger, {} \cup {Got(2)})
      BY <1>6, <2>1, AccountDestroy
    <3> QED
      BY <3>1, {} \cup {Got(2)} = {Got(2)}
  <2>2. CASE Got(2) = NULL /\ UNCHANGED mem
    BY <1>6, <2>2, AddrAssumption DEF Account, Spent, Live
  <2> QED
    BY <1>0, <2>1, <2>2 DEF ReturnAfterBody
<1>8. Mine(Top) \subseteq {Got(1), NULL} \cup {Got(2)} \cup Values(variables.insts)
  BY <1>5
<1> QED
  BY <1>1, <1>7, <1>8, YieldFair

(***************************************************************************)
(* The results that are allocated.                                         *)
(***************************************************************************)
LEMMA ScalarBuf ==
    /\ \A type, n : Scalar(type, n).buf = NULL
    /\ \A op, c, g : UnaryValue(op, c, g).buf = NULL
    /\ \A op, c, d, g : BinaryValue(op, c, d, g).buf = NULL
    /\ \A m, c, g : Element(m, c, g).buf = NULL
<1>1. \A type, n : Scalar(type, n).buf = NULL
  BY DEF Scalar, NewCell
<1>2. ASSUME NEW op, NEW c, NEW g PROVE UnaryValue(op, c, g).buf = NULL
  BY <1>1 DEF UnaryValue
<1>3. ASSUME NEW op, NEW c, NEW d, NEW g PROVE BinaryValue(op, c, d, g).buf = NULL
  BY <1>1 DEF BinaryValue
<1>4. ASSUME NEW m, NEW c, NEW g PROVE Element(m, c, g).buf = NULL
  BY <1>1 DEF Element
<1> QED
  BY <1>1, <1>2, <1>3, <1>4

\* A value without a block of its own is put after a read.
LEMMA PutFair ==
    ASSUME NEW quiet, Fairly(quiet), Running, CanMalloc(mem), NEW read, Read(mem, read),
           NEW c \in Cell, c.buf = NULL, NEW n, n = Put(read, c)
    PROVE  Account(n, Ledger \cup {New(mem)}, {}) /\ New(mem) # NULL
<1>1. Account(mem, Ledger, {}) /\ Spare(mem, New(mem))
  BY Opened
<1>2. New(read) = New(mem) /\ CanMalloc(read) /\ read.cells = mem.cells /\ read \in Memory
  BY SameNew DEF Read
<1>3. Account(read, Ledger, {})
  BY <1>1, <1>2, AccountSame
<1>4. Spare(read, New(read))
  BY <1>1, <1>2 DEF Spare, Live
<1>5. Account(n, Ledger \cup {New(read)}, {} \ {New(read)})
  BY <1>2, <1>3, <1>4, AccountPut
<1>6. New(mem) # NULL
  BY NewFree, AddrAssumption
<1> QED
  BY <1>2, <1>5, <1>6, {} \ {New(read)} = {}

LEMMA LiteralFair ==
    ASSUME NEW quiet, Fairly(quiet), Literal
    PROVE  Accounted'
<1>1. Running /\ Top.node.kind = "literal" /\ Top.pc = "start" /\ Calmly(quiet)
  BY DEF Literal, At_, Fairly
<1>2. PICK ok \in BOOLEAN :
        /\ Malloc(ok)
        /\ mem' = IF ok THEN Put(mem, Scalar(Top.node.type, Top.node.num)) ELSE mem
        /\ Return(IF ok THEN New(mem) ELSE NULL)
        /\ UNCHANGED variables
  BY DEF Literal
<1>3. ok /\ CanMalloc(mem)
  BY <1>1, <1>2, AllAllocated
<1>4. PICK c : c = Scalar(Top.node.type, Top.node.num)
  OBVIOUS
<1>5. c \in Cell /\ c.buf = NULL
  <2>1. Top.node.type \in ValueType /\ Top.node.num \in Int
    BY <1>1, CalmFacts, NodeType
  <2> QED
    BY <1>4, <2>1, ConstructorTypes, ScalarBuf
<1>6. PICK v : v = New(mem)
  OBVIOUS
<1>7. Read(mem, mem)
  BY <1>1, CalmFacts DEF Read
<1>8. Account(mem', Ledger \cup {v}, {})
  BY <1>1, <1>2, <1>3, <1>4, <1>5, <1>6, <1>7, PutFair
<1>9. Return(v) /\ Values(variables'.insts) = Values(variables.insts)
  BY <1>2, <1>3, <1>6
<1>10. Mine(Top) = {}
  <2>1. Top.got = <<>>
    BY <1>1, CalmFacts DEF Ready, Nothing
  <2>2. Top.blk = NULL
    BY <1>1, Blockless DEF InAt
  <2> QED
    BY <1>1, <2>1, <2>2, MineOne
<1>11. Mine(Top) \cup {v} \subseteq {v, NULL} \cup {} \cup Values(variables'.insts)
  BY <1>10
<1> QED
  BY <1>1, <1>8, <1>9, <1>11, AnswerFair

LEMMA ArrayFair ==
    ASSUME NEW quiet, Fairly(quiet), StringBlock \/ CallStart
    PROVE  Accounted'
<1>1. /\ Running /\ UNCHANGED variables /\ Top.pc = "start" /\ Calmly(quiet)
      /\ Top.node.kind \in {"string", "call"}
  BY DEF StringBlock, CallStart, At_, Fairly
<1>2. Top \in Frame /\ Top.got = <<>>
  BY <1>1, CalmFacts DEF Ready, Nothing
<1>3. PICK ok \in BOOLEAN, pc \in {"value", "arguments"} :
        /\ Malloc(ok) /\ (pc = "value" <=> Top.node.kind = "string")
        /\ ok => /\ mem' = Put(mem, Block(0, NULL))
                 /\ stack' = SetTop([Top EXCEPT !.pc = pc, !.blk = New(mem)])
  BY DEF StringBlock, CallStart, At_
<1>4. ok /\ CanMalloc(mem)
  BY <1>1, <1>3, AllAllocated
<1>5. PICK f : f = [Top EXCEPT !.pc = pc, !.blk = New(mem)]
  OBVIOUS
<1>6. f.got = <<>> /\ f.blk = New(mem) /\ f.pc = pc /\ f.node = Top.node
  BY <1>2, <1>5 DEF Frame
<1>7. Moved(f)
  BY <1>3, <1>4, <1>5 DEF Moved
<1>8. PICK c : c = Block(0, NULL)
  OBVIOUS
<1>9. c \in Cell /\ c.buf = NULL
  BY <1>8, ConstructorTypes DEF Block, NewCell, Pointers
<1>10. Read(mem, mem)
  BY <1>1, CalmFacts DEF Read
<1>11. PICK F : F = {New(mem)}
  OBVIOUS
<1>12. Account(mem', Ledger \cup F, {}) /\ New(mem) # NULL
  BY <1>1, <1>3, <1>4, <1>8, <1>9, <1>10, <1>11, PutFair
<1>13. Orderly(f) /\ Bound(f, variables'.insts)
  BY <1>1, <1>3, <1>6 DEF Orderly, Bound, InAt
<1>14. Mine(Top) = {}
  BY <1>1, <1>2, Blockless, MineOne DEF InAt
<1>15. /\ Mine(Top) \cup F \subseteq Mine(f) \cup {} \cup Values(variables'.insts) \cup {NULL}
       /\ Values(variables.insts) \subseteq Values(variables'.insts) \cup {}
  BY <1>1, <1>6, <1>11, <1>14 DEF Mine
<1> QED
  BY <1>1, <1>7, <1>12, <1>13, <1>15, GoOnFair

LEMMA StringFair ==
    ASSUME NEW quiet, Fairly(quiet), StringValue
    PROVE  Accounted'
<1>1. Running /\ UNCHANGED variables /\ InAt(Top, {"string"}, "value") /\ Calmly(quiet)
  BY DEF StringValue, At_, InAt, Fairly
<1>2. PICK ok \in BOOLEAN :
        /\ Malloc(ok)
        /\ ok => mem' = Put(mem, Array("char", Top.node.num, Top.blk)) /\ Return(New(mem))
  BY DEF StringValue
<1>3. ok /\ CanMalloc(mem)
  BY <1>1, <1>2, AllAllocated
<1>4. PICK cap \in Nat : cap = Top.node.num /\ cap > 0
  <2>1. Top.node \in Node /\ Top.node.kind = "string" /\ Terminated
    BY <1>1, CalmFacts DEF InAt, Fairly
  <2> QED
    BY <2>1, NodeAssumption DEF Terminated
<1>5. PICK v : v = New(mem)
  OBVIOUS
<1>6. /\ Account(mem, Ledger, {}) /\ Spare(mem, v) /\ Orderly(Top)
      /\ ~Live(mem, v) /\ v # NULL
  BY <1>1, <1>3, <1>5, Opened, NewFree, AddrAssumption
<1>7. /\ Top.blk \in Pointers /\ (Live(mem, Top.blk) => mem.cells[Top.blk].type = "block")
      /\ Top.blk # v
  BY <1>1, <1>6, BlockRaw
<1>8. mem' = Put(mem, Array("char", cap, Top.blk)) /\ Return(v)
  BY <1>2, <1>3, <1>4, <1>5
<1>9. PICK G : G = (Ledger \ {Top.blk}) \cup {v}
  OBVIOUS
<1>10. Account(mem', G, {})
  BY <1>3, <1>4, <1>5, <1>6, <1>7, <1>8, <1>9, AccountArray
<1>11. Mine(Top) \subseteq {Top.blk}
  BY <1>1, <1>6 DEF Mine, Held, Orderly, InAt
<1>12. G \subseteq Resting \cup Values(variables'.insts) \cup {} \cup {v, NULL}
  BY <1>1, <1>9, <1>11 DEF Ledger
<1>13. Return(v)
  BY <1>8
<1> QED
  BY <1>1, <1>10, <1>12, <1>13, AnswerGrip

\* A new value takes the place of the operands it is computed from.
LEMMA UnaryNewFair ==
    ASSUME NEW quiet, Fairly(quiet), UnaryNew
    PROVE  Accounted'
<1>1. /\ Running /\ UNCHANGED variables /\ Top.node.kind = "unary" /\ Top.pc = "operand"
      /\ Calmly(quiet)
  BY DEF UnaryNew, At_, Fairly
<1> DEFINE d == Got(1)
           e == At(mem, d)
<1>2. PICK ok \in BOOLEAN, g \in Garbage :
        LET new == IF Top.node.op = "*" THEN Element(mem, e, g)
                   ELSE UnaryValue(Top.node.op, e, g)
            read == IF Top.node.op = "*" THEN Touch(Touch(mem, d), e.buf)
                    ELSE Touch(mem, d)
        IN  /\ Malloc(ok)
            /\ mem' = RuntimeDestroy(IF ok THEN Put(read, new) ELSE read, d)
            /\ Return(IF ok THEN New(mem) ELSE NULL)
  BY DEF UnaryNew
<1>3. ok /\ CanMalloc(mem)
  BY <1>1, <1>2, AllAllocated
<1>4. PICK c : c = IF Top.node.op = "*" THEN Element(mem, e, g)
                     ELSE UnaryValue(Top.node.op, e, g)
  OBVIOUS
<1>5. PICK read : read = IF Top.node.op = "*" THEN Touch(Touch(mem, d), e.buf)
                         ELSE Touch(mem, d)
  OBVIOUS
<1>6. mem' = RuntimeDestroy(Put(read, c), d)
  BY <1>2, <1>3, <1>4, <1>5
<1>7. mem \in Memory /\ Read(mem, mem)
  BY <1>1, CalmFacts DEF Read
<1>8. e \in Cell /\ g \in Int
  BY <1>7, AtType, GarbageAssumption
<1>9. c \in Cell /\ c.buf = NULL
  <2>1. NewValue(c)
    BY <1>4, <1>7, <1>8, ElementNew, ComputedNew
  <2> QED
    BY <2>1 DEF NewValue
<1>10. Readable(d)
  BY <1>1, GotReadable
<1>11. Read(mem, read)
  <2>1. Read(mem, Touch(mem, d))
    BY <1>7, <1>10, TouchRead DEF Readable, IsValue
  <2>2. Read(mem, Touch(Touch(mem, d), e.buf))
    BY <1>10, <2>1, TouchRead DEF Readable
  <2> QED
    BY <1>5, <2>1, <2>2
<1>12. PICK v : v = New(mem)
  OBVIOUS
<1>13. Return(v)
  BY <1>2, <1>3, <1>12
<1>14. PICK k : k = Put(read, c)
  OBVIOUS
<1>15. Account(k, Ledger \cup {v}, {})
  BY <1>1, <1>3, <1>9, <1>11, <1>12, <1>14, PutFair
<1>16. PICK n : n = mem'
  OBVIOUS
<1>17. PICK D : D = {} \cup {d}
  OBVIOUS
<1>18. Account(mem', Ledger \cup {v}, D)
  BY <1>6, <1>14, <1>15, <1>16, <1>17, AccountDestroy
<1>19. Mine(Top) \subseteq {d}
  BY <1>1, Blockless, MineOne DEF InAt, One
<1>20. Mine(Top) \cup {v} \subseteq {v, NULL} \cup D \cup Values(variables'.insts)
  BY <1>17, <1>19
<1>21. Values(variables.insts) \subseteq Values(variables'.insts) \cup D
  BY <1>1
<1> QED
  BY <1>1, <1>13, <1>18, <1>20, <1>21, AnswerFair

LEMMA PairNewFair ==
    ASSUME NEW quiet, Fairly(quiet), Running, UNCHANGED variables, InAt(Top, Pair, "right"),
           CanMalloc(mem), NEW read, Read(mem, read), NEW c \in Cell, c.buf = NULL,
           mem' = DestroyOperands(Put(read, c)), NEW v, v = New(mem), Return(v)
    PROVE  Accounted'
<1>1. Top.got \in Seq(Pointers) /\ Len(Top.got) = 2 /\ Top.pc = "right"
  BY CalmFacts DEF Ready, InAt, Fairly
<1>2. DOMAIN Top.got = {1, 2} /\ Got(1) = Top.got[1] /\ Got(2) = Top.got[2]
  BY <1>1 DEF Got
<1>3. PICK k : k = Put(read, c)
  OBVIOUS
<1>4. PICK l : l = RuntimeDestroy(k, Got(1))
  OBVIOUS
<1>5. PICK n : n = mem'
  OBVIOUS
<1>6. n = RuntimeDestroy(l, Got(2))
  BY <1>3, <1>4, <1>5 DEF DestroyOperands
<1>7. Account(k, Ledger \cup {v}, {})
  BY <1>3, PutFair
<1>8. Account(l, Ledger \cup {v}, {} \cup {Got(1)})
  BY <1>4, <1>7, AccountDestroy
<1>9. PICK D : D = ({} \cup {Got(1)}) \cup {Got(2)}
  OBVIOUS
<1>10. Account(mem', Ledger \cup {v}, D)
  BY <1>5, <1>6, <1>8, <1>9, AccountDestroy
<1>11. Mine(Top) \subseteq {Got(1), Got(2)}
  <2>1. Top.blk = NULL /\ Top \in Frame
    BY <1>1, Blockless DEF InAt, Pair
  <2> QED
    BY <1>2, <2>1, MineResults
<1>12. Mine(Top) \cup {v} \subseteq {v, NULL} \cup D \cup Values(variables'.insts)
  BY <1>9, <1>11
<1>13. Values(variables.insts) \subseteq Values(variables'.insts) \cup D
  OBVIOUS
<1> QED
  BY <1>10, <1>12, <1>13, AnswerFair

LEMMA PairFair ==
    ASSUME NEW quiet, Fairly(quiet), Binary \/ ArrayElement
    PROVE  Accounted'
<1>1. Running /\ UNCHANGED variables /\ InAt(Top, Pair, "right") /\ Calmly(quiet)
  BY DEF Binary, ArrayElement, At_, InAt, Pair, Fairly
<1>2. ~failed' /\ mem \in Memory /\ Read(mem, mem)
  BY <1>1, CalmFacts DEF Calmly, Read
<1>3. Readable(Got(1)) /\ Readable(Got(2))
  BY <1>1, GotReadable DEF InAt
<1>4. PICK read : read = Touch(Touch(mem, Got(1)), Got(2))
  OBVIOUS
<1>5. Read(mem, read)
  <2>1. Read(mem, Touch(mem, Got(1)))
    BY <1>2, <1>3, TouchRead DEF Readable, IsValue
  <2> QED
    BY <1>3, <1>4, <2>1, TouchRead DEF Readable, IsValue
<1>6. At(mem, Got(1)) \in Cell /\ At(mem, Got(2)) \in Cell
  BY <1>2, AtType
<1>7. CASE Binary
  <2>1. PICK g \in Garbage :
          IF Top.node.op = "/" /\ AsFloat(At(mem, Got(2)), g) = 0 THEN failed' = TRUE
          ELSE \E ok \in BOOLEAN :
                 /\ Malloc(ok)
                 /\ mem' = DestroyOperands(
                        IF ok THEN Put(read, BinaryValue(Top.node.op, At(mem, Got(1)),
                                                         At(mem, Got(2)), g)) ELSE read)
                 /\ Return(IF ok THEN New(mem) ELSE NULL)
    BY <1>4, <1>7 DEF Binary
  <2>2. Top.node.op = "/" => AsFloat(At(mem, Got(2)), g) # 0
    BY <1>2, <2>1
  <2>3. PICK c : c = BinaryValue(Top.node.op, At(mem, Got(1)), At(mem, Got(2)), g)
    OBVIOUS
  <2>4. PICK ok \in BOOLEAN :
          /\ Malloc(ok)
          /\ mem' = DestroyOperands(IF ok THEN Put(read, c) ELSE read)
          /\ Return(IF ok THEN New(mem) ELSE NULL)
    BY <2>1, <2>2, <2>3
  <2>5. ok /\ CanMalloc(mem)
    BY <1>1, <2>4, AllAllocated
  <2>6. Top.node.op \in BinaryOp
    BY <1>1, <1>7, CalmFacts, ShapeAssumption DEF Binary, At_
  <2>7. c \in Cell /\ c.buf = NULL
    <3>1. NewValue(c)
      BY <1>6, <2>2, <2>3, <2>6, GarbageAssumption, ComputedNew
    <3> QED
      BY <3>1 DEF NewValue
  <2>8. PICK v : v = New(mem)
    OBVIOUS
  <2>9. mem' = DestroyOperands(Put(read, c))
    BY <2>4, <2>5
  <2>10. Return(v)
    BY <2>4, <2>5, <2>8
  <2> QED
    BY <1>1, <1>5, <2>5, <2>7, <2>8, <2>9, <2>10, PairNewFair
<1>8. CASE ArrayElement
  <2>1. PICK g \in Garbage :
          LET target == Truncate(AsFloat(At(mem, Got(2)), g), FloatUnit)
              c == At(mem, Got(1))
          IN  IF target < 0 \/ (c.cap > 0 /\ target > c.cap - 1) THEN failed' = TRUE
              ELSE \E ok \in BOOLEAN :
                     /\ Malloc(ok)
                     /\ mem' = DestroyOperands(
                            IF ok THEN Put(Touch(read, c.buf), Element(mem, c, g))
                            ELSE read)
                     /\ Return(IF ok THEN New(mem) ELSE NULL)
    BY <1>4, <1>8 DEF ArrayElement
  <2>2. PICK c : c = Element(mem, At(mem, Got(1)), g)
    OBVIOUS
  <2>3. PICK more : more = Touch(read, At(mem, Got(1)).buf)
    OBVIOUS
  <2>4. PICK ok \in BOOLEAN :
          /\ Malloc(ok)
          /\ mem' = DestroyOperands(IF ok THEN Put(more, c) ELSE read)
          /\ Return(IF ok THEN New(mem) ELSE NULL)
    BY <1>2, <2>1, <2>2, <2>3
  <2>5. ok /\ CanMalloc(mem)
    BY <1>1, <2>4, AllAllocated
  <2>6. c \in Cell /\ c.buf = NULL
    <3>1. NewValue(c)
      BY <1>2, <1>6, <2>2, GarbageAssumption, ElementNew
    <3> QED
      BY <3>1 DEF NewValue
  <2>7. Read(mem, more)
    BY <1>3, <1>5, <2>3, TouchRead DEF Readable
  <2>8. PICK v : v = New(mem)
    OBVIOUS
  <2>9. mem' = DestroyOperands(Put(more, c))
    BY <2>4, <2>5
  <2>10. Return(v)
    BY <2>4, <2>5, <2>8
  <2> QED
    BY <1>1, <2>5, <2>6, <2>7, <2>8, <2>9, <2>10, PairNewFair
<1> QED
  BY <1>7, <1>8

\* A variable is read: its value has the variable for an owner.
LEMMA VariableFair ==
    ASSUME NEW quiet, Fairly(quiet), Variable
    PROVE  Accounted'
<1>1. /\ Running /\ UNCHANGED variables /\ Top.node.kind = "var" /\ Top.pc = "start"
      /\ Calmly(quiet)
  BY DEF Variable, At_, Fairly
<1>2. PICK i : i = Get(variables, Top.chain, Top.node.id)
  OBVIOUS
<1>3. mem \in Memory /\ mem.fault = "none" /\ mem'.fault = "none"
  BY <1>1, CalmFacts DEF Fairly
<1>4. i # 0
  <2> SUFFICES ASSUME i = 0 PROVE FALSE
    OBVIOUS
  <2>1. mem' = Touch(mem, NULL)
    BY <1>2 DEF Variable
  <2>2. mem'.fault = "null_dereference"
    BY <1>3, <2>1, AddrAssumption DEF Touch, Raise, Live, Memory
  <2> QED
    BY <1>3, <2>2
<1>5. PICK v : v = variables.insts[i].val
  OBVIOUS
<1>6. UNCHANGED mem
  BY <1>2, <1>4 DEF Variable
<1>7. Return(v)
  BY <1>2, <1>4, <1>5 DEF Variable
<1>8. Account(mem', Ledger, {})
  BY <1>1, <1>6, Opened
<1>9. Mine(Top) = {}
  <2>1. Top.got = <<>>
    BY <1>1, CalmFacts DEF Ready, Nothing
  <2> QED
    BY <1>1, <2>1, Blockless, MineOne DEF InAt
<1> QED
  BY <1>1, <1>7, <1>8, <1>9, YieldFair

\* A result becomes the value of a new variable.
LEMMA AddedFair ==
    ASSUME NEW quiet, Fairly(quiet), Running, NEW x \in VariableInstance, NEW v, v = x.val,
           variables'.insts = Append(variables.insts, x), mem' = AddReference(mem, v)
    PROVE  /\ Account(mem', Ledger \cup {}, {})
           /\ Values(variables.insts) \cup {v} \subseteq Values(variables'.insts)
<1>1. Account(mem, Ledger \cup {}, {}) /\ TypeOK
  BY Opened, Ledger \cup {} = Ledger DEF Fairly, Calmly
<1>2. PICK n : n = mem'
  OBVIOUS
<1>3. Account(n, Ledger \cup {}, {})
  BY <1>1, <1>2, AccountAdd
<1>4. PICK vs \in Seq(VariableInstance) : vs = variables.insts
  BY <1>1 DEF TypeOK, VariableScope
<1>5. PICK ws : ws = Append(vs, x)
  OBVIOUS
<1>6. Longer(vs, ws, x) /\ ws = variables'.insts /\ DOMAIN vs = 1 .. Len(vs) /\ Len(vs) \in Nat
  <2>1. Longer(vs, ws, x)
    BY <1>5, AppendLonger
  <2>2. ws = variables'.insts
    BY <1>4, <1>5
  <2>3. DOMAIN vs = 1 .. Len(vs) /\ Len(vs) \in Nat
    OBVIOUS
  <2> QED
    BY <2>1, <2>2, <2>3
<1>7. ASSUME NEW i \in DOMAIN vs PROVE i \in DOMAIN ws /\ ws[i] = vs[i]
  BY <1>6 DEF Longer
<1>8. Len(vs) + 1 \in DOMAIN ws /\ ws[Len(vs) + 1].val = v
  BY <1>6 DEF Longer
<1> QED
  BY <1>2, <1>3, <1>4, <1>6, <1>7, <1>8 DEF Values

LEMMA ArgumentFair ==
    ASSUME NEW quiet, Fairly(quiet), FunctionArgument
    PROVE  Accounted'
<1>1. /\ Running /\ Top.node.kind = "func" /\ Top.pc = "start" /\ Top.i < Len(Top.got)
      /\ Calmly(quiet)
  BY DEF FunctionArgument, At_, Fairly
<1>2. Top \in Frame /\ Top.got \in Seq(Pointers) /\ Top.i \in Nat
  BY <1>1, CalmFacts DEF Frame
<1>3. PICK k : k = Top.i + 1
  OBVIOUS
<1>4. k \in DOMAIN Top.got /\ Got(Top.i + 1) = Top.got[k] /\ Top.got[k] \in Pointers
  BY <1>1, <1>2, <1>3, GotReadable DEF Got
<1>5. PICK v \in Pointers : v = Top.got[k]
  BY <1>4
<1>6. PICK held : held = AddReference(mem, v)
  OBVIOUS
<1>7. Readable(v)
  BY <1>1, <1>4, <1>5, GotReadable
<1>8. mem \in Memory /\ mem.fault = "none" /\ mem'.fault = "none"
  BY <1>1, CalmFacts DEF Fairly
<1>9. ~(k \notin DOMAIN Top.node.params \/ v = NULL)
  <2> SUFFICES ASSUME k \notin DOMAIN Top.node.params \/ v = NULL PROVE FALSE
    OBVIOUS
  <2>1. mem' = Raise(held, "wild_pointer")
    BY <1>3, <1>4, <1>5, <1>6 DEF FunctionArgument
  <2>2. v = NULL \/ Live(mem, v)
    BY <1>7 DEF Readable, IsValue
  <2>3. PICK n : n = mem'
    OBVIOUS
  <2>4. n.fault # "none"
    BY <1>6, <1>8, <2>1, <2>2, <2>3, NullFault
  <2> QED
    BY <1>8, <2>3, <2>4
<1>10. PICK x : x = Instance(Top.own, Top.node.params[k], v)
  OBVIOUS
<1>11. PICK ok \in BOOLEAN :
        /\ AddVariable(ok, x)
        /\ mem' = IF ok THEN held ELSE InstanceDestroy(held, v)
        /\ stack' = SetTop(IF ok THEN [Top EXCEPT !.i = @ + 1]
                           ELSE [Top EXCEPT !.pc = "unwind", !.i = RootStart])
  BY <1>3, <1>4, <1>5, <1>6, <1>9, <1>10 DEF FunctionArgument
<1>12. ok /\ variables'.insts = Append(variables.insts, x) /\ x \in VariableInstance
  BY <1>1, <1>11, AllAdded
<1>13. v = x.val
  BY <1>10 DEF Instance
<1>14. mem' = AddReference(mem, v)
  BY <1>6, <1>11, <1>12
<1>15. /\ Account(mem', Ledger \cup {}, {})
       /\ Values(variables.insts) \cup {v} \subseteq Values(variables'.insts)
  BY <1>1, <1>12, <1>13, <1>14, AddedFair
<1>16. PICK f : f = [Top EXCEPT !.i = @ + 1]
  OBVIOUS
<1>17. Moved(f)
  BY <1>11, <1>12, <1>16 DEF Moved
<1>18. f.got = Top.got /\ f.blk = Top.blk /\ f.node = Top.node /\ f.pc = "start" /\ f.i = k
  BY <1>1, <1>2, <1>3, <1>16 DEF Frame
<1>19. Orderly(Top) /\ Bound(Top, variables.insts)
  BY <1>1, Opened
<1>20. Orderly(f)
  BY <1>1, <1>18, <1>19 DEF Orderly, InAt
<1>21. Bound(f, variables'.insts)
  <2> SUFFICES ASSUME NEW j \in 1 .. k PROVE Top.got[j] \in Values(variables'.insts)
    BY <1>18 DEF Bound
  <2>1. j = k \/ j \in 1 .. Top.i
    BY <1>2, <1>3
  <2>2. j \in 1 .. Top.i => Top.got[j] \in Values(variables.insts)
    BY <1>1, <1>19 DEF Bound, InAt
  <2> QED
    BY <1>5, <1>15, <2>1, <2>2
<1>22. Mine(f) = Mine(Top)
  BY <1>1, <1>18 DEF Mine, Held
<1>23. /\ Mine(Top) \cup {} \subseteq Mine(f) \cup {} \cup Values(variables'.insts) \cup {NULL}
       /\ Values(variables.insts) \subseteq Values(variables'.insts) \cup {}
  BY <1>15, <1>22
<1> QED
  BY <1>1, <1>15, <1>17, <1>20, <1>21, <1>23, GoOnFair

LEMMA DeclaredFair ==
    ASSUME NEW quiet, Fairly(quiet), ForVariable \/ Declare
    PROVE  Accounted'
<1>1. Running /\ One(Top) /\ Top.pc # "drop" /\ Calmly(quiet) /\ Top.node.kind \in {"for", "decl"}
  BY DEF ForVariable, Declare, At_, One, InAt, Fairly
<1>2. Top \in Frame /\ Top.got \in Seq(Pointers) /\ Mine(Top) \subseteq {Got(1)}
  BY <1>1, CalmFacts, Blockless, MineOne DEF InAt
<1>3. PICK v : v = Got(1)
  OBVIOUS
<1>4. PICK held : held = AddReference(mem, v)
  OBVIOUS
<1>5. mem \in Memory /\ mem.fault = "none" /\ mem'.fault = "none"
  BY <1>1, CalmFacts DEF Fairly
<1>6. v # NULL
  <2> SUFFICES ASSUME v = NULL PROVE FALSE
    OBVIOUS
  <2>1. mem' = held
    BY <1>3, <1>4 DEF ForVariable, Declare
  <2>2. PICK n : n = mem'
    OBVIOUS
  <2>3. n = AddReference(mem, NULL)
    BY <1>4, <2>1, <2>2
  <2>4. n.fault # "none"
    BY <1>5, <2>3, NullFault
  <2> QED
    BY <1>5, <2>2, <2>4
<1>7. \E x : \E ok \in BOOLEAN :
        /\ AddVariable(ok, x) /\ x.val = v
        /\ ok => /\ mem' = held
                 /\ \/ stack' = SetTop([Top EXCEPT !.pc = "test", !.got = <<>>])
                    \/ Return(NULL)
  <2>1. CASE ForVariable
    <3>1. PICK ok \in BOOLEAN :
        /\ AddVariable(ok, Instance(Top.own, Top.node.id, v))
        /\ ok => /\ mem' = held
                 /\ stack' = SetTop([Top EXCEPT !.pc = "test", !.got = <<>>])
      BY <1>3, <1>4, <1>6, <2>1 DEF ForVariable
    <3>2. PICK x : x = Instance(Top.own, Top.node.id, v)
      OBVIOUS
    <3>3. x.val = v
      BY <3>2 DEF Instance
    <3> QED
      BY <3>1, <3>2, <3>3
  <2>2. CASE Declare
    <3>1. PICK root : \E ok \in BOOLEAN :
        /\ AddVariable(ok, Instance(root, Top.node.id, v))
        /\ ok => mem' = held /\ Return(NULL)
      BY <1>3, <1>4, <1>6, <2>2 DEF Declare
    <3>2. PICK x : x = Instance(root, Top.node.id, v)
      OBVIOUS
    <3>3. x.val = v
      BY <3>2 DEF Instance
    <3> QED
      BY <3>1, <3>2, <3>3
  <2> QED
    BY <2>1, <2>2
<1>8. PICK x : \E ok \in BOOLEAN :
        /\ AddVariable(ok, x) /\ x.val = v
        /\ ok => /\ mem' = held
                 /\ \/ stack' = SetTop([Top EXCEPT !.pc = "test", !.got = <<>>])
                    \/ Return(NULL)
  BY <1>7
<1>9. /\ variables'.insts = Append(variables.insts, x) /\ x \in VariableInstance
      /\ mem' = AddReference(mem, v) /\ v = x.val
      /\ \/ stack' = SetTop([Top EXCEPT !.pc = "test", !.got = <<>>])
         \/ Return(NULL)
  BY <1>1, <1>4, <1>8, AllAdded
<1>10. /\ Account(mem', Ledger \cup {}, {})
       /\ Values(variables.insts) \cup {v} \subseteq Values(variables'.insts)
  BY <1>1, <1>9, AddedFair
<1>11. CASE stack' = SetTop([Top EXCEPT !.pc = "test", !.got = <<>>])
  <2>1. PICK f : f = [Top EXCEPT !.pc = "test", !.got = <<>>]
    OBVIOUS
  <2>2. f.pc = "test" /\ f.node = Top.node /\ f.blk = NULL
    BY <1>1, <1>2, <2>1, Blockless DEF Frame, InAt
  <2>3. Moved(f)
    BY <1>11, <2>1 DEF Moved
  <2>4. Orderly(f) /\ Bound(f, variables'.insts)
    BY <1>1, <2>2, LightOrder DEF Light
  <2>5. /\ Mine(Top) \cup {} \subseteq Mine(f) \cup {} \cup Values(variables'.insts) \cup {NULL}
        /\ Values(variables.insts) \subseteq Values(variables'.insts) \cup {}
    BY <1>2, <1>3, <1>10
  <2> QED
    BY <1>1, <1>10, <2>3, <2>4, <2>5, GoOnFair
<1>12. CASE Return(NULL)
  <2>1. PICK w : w = NULL
    OBVIOUS
  <2>2. Return(w)
    BY <1>12, <2>1
  <2>3. /\ Mine(Top) \cup {} \subseteq {w, NULL} \cup {} \cup Values(variables'.insts)
        /\ Values(variables.insts) \subseteq Values(variables'.insts) \cup {}
    BY <1>2, <1>3, <1>10
  <2> QED
    BY <1>1, <1>10, <2>2, <2>3, AnswerFair
<1> QED
  BY <1>9, <1>11, <1>12

\* The end of a function or a loop takes its variables off the account.
LEMMA RootFair ==
    ASSUME NEW quiet, Fairly(quiet), RootDestroy
    PROVE  Accounted'
<1>1. /\ Running /\ Top.node.kind \in {"func", "for"} /\ Top.pc \in {"leave", "unwind"}
      /\ stack' = SetTop([Top EXCEPT !.i = @ - 1]) /\ Top.i > 0 /\ Calmly(quiet)
  BY DEF RootDestroy, At_, Fairly
<1>2. /\ Top \in Frame /\ TypeOK /\ Core(quiet) /\ Top.blk = NULL
      /\ Account(mem, Ledger, {})
  BY <1>1, Blockless, Opened DEF Calmly, InAt
<1>3. PICK f : f = [Top EXCEPT !.i = @ - 1]
  OBVIOUS
<1>4. f.got = Top.got /\ f.blk = NULL /\ f.node = Top.node /\ f.pc = Top.pc
  BY <1>2, <1>3 DEF Frame
<1>5. Moved(f)
  BY <1>1, <1>3 DEF Moved
<1>6. Orderly(f) /\ Bound(f, variables'.insts)
  BY <1>1, <1>4, LightOrder DEF Light
<1>7. Mine(f) = Mine(Top)
  BY <1>2, <1>4, <1>1 DEF Mine, Held
<1>8. \E D : /\ Account(mem', Ledger \cup {}, D)
             /\ Values(variables.insts) \subseteq Values(variables'.insts) \cup D
  <2>1. CASE ~RootMatches(variables, Top.i, Top.own)
    <3>1. UNCHANGED <<variables, mem>>
      BY <2>1 DEF RootDestroy
    <3> QED
      BY <1>2, <3>1, Ledger \cup {} = Ledger
  <2>2. CASE RootMatches(variables, Top.i, Top.own)
    <3>1. /\ mem' = RemoveReference(mem, variables.insts[Top.i].val)
          /\ variables' = DropLast(variables)
      BY <2>2 DEF RootDestroy
    <3>2. Top.i = Len(variables.insts)
      BY <1>2, <2>2, DropsLast
    <3>3. PICK vs \in Seq(VariableInstance) : vs = variables.insts
      BY <1>2 DEF TypeOK, VariableScope
    <3>4. PICK i \in Nat : i = Len(vs) /\ i = Top.i /\ i > 0
      BY <1>1, <3>2, <3>3
    <3>5. PICK ws : ws = SubSeq(vs, 1, Len(vs) - 1)
      OBVIOUS
    <3>6. ws = variables'.insts
      BY <1>2, <3>1, <3>3, <3>5 DEF DropLast, TypeOK, VariableScope
    <3>7. vs # <<>>
      <4> SUFFICES ASSUME vs = <<>> PROVE FALSE
        OBVIOUS
      <4>1. Len(vs) = 0
        OBVIOUS
      <4> QED
        BY <3>4, <4>1
    <3>8. DOMAIN ws = 1 .. i - 1 /\ \A j \in 1 .. i - 1 : ws[j] = vs[j]
      <4>1. ws \in Seq(VariableInstance) /\ Longer(ws, vs, vs[Len(vs)])
        BY <3>5, <3>7, FrontLonger
      <4>2. DOMAIN vs = 1 .. Len(vs) /\ DOMAIN ws = 1 .. Len(ws) /\ Len(ws) \in Nat
        BY <4>1
      <4>3. Len(ws) = i - 1
        BY <3>4, <4>1, <4>2 DEF Longer
      <4> QED
        BY <4>1, <4>2, <4>3 DEF Longer
    <3>9. DOMAIN vs = 1 .. i
      <4>1. DOMAIN vs = 1 .. Len(vs)
        OBVIOUS
      <4> QED
        BY <3>4, <4>1
    <3>10. \A j \in DOMAIN vs : j = i \/ j \in DOMAIN ws
      BY <3>4, <3>8, <3>9
    <3>11. PICK v : v = vs[i].val
      OBVIOUS
    <3>12. Values(variables.insts) \subseteq Values(variables'.insts) \cup {v}
      BY <3>3, <3>6, <3>8, <3>10, <3>11 DEF Values
    <3>13. PICK n : n = mem'
      OBVIOUS
    <3>14. n = RemoveReference(mem, v)
      BY <3>1, <3>3, <3>4, <3>11, <3>13
    <3>15. Account(n, Ledger, {v})
      BY <1>2, <3>14, AccountRemove
    <3> QED
      BY <3>12, <3>13, <3>15, Ledger \cup {} = Ledger
  <2> QED
    BY <2>1, <2>2
<1>9. PICK D : /\ Account(mem', Ledger \cup {}, D)
               /\ Values(variables.insts) \subseteq Values(variables'.insts) \cup D
  BY <1>8
<1>10. Mine(Top) \cup {} \subseteq Mine(f) \cup D \cup Values(variables'.insts) \cup {NULL}
  BY <1>7
<1> QED
  BY <1>1, <1>5, <1>6, <1>9, <1>10, GoOnFair

LEMMA AssignFair ==
    ASSUME NEW quiet, Fairly(quiet), Assign
    PROVE  Accounted'
<1>1. /\ Running /\ Top.node.kind = "assign" /\ Top.pc = "value" /\ One(Top)
      /\ Calmly(quiet) /\ TypeOK /\ TypeOK'
  BY DEF Assign, At_, One, InAt, Fairly, Calmly
<1>2. /\ mem \in Memory /\ mem.fault = "none" /\ mem'.fault = "none"
      /\ Mine(Top) \subseteq {Got(1)}
  BY <1>1, CalmFacts, Blockless, MineOne DEF InAt, Fairly
<1>3. PICK v : v = Got(1)
  OBVIOUS
<1>4. PICK held : held = AddReference(mem, v)
  OBVIOUS
<1>5. PICK i : i = Get(variables, Top.chain, Top.node.id)
  OBVIOUS
<1>6. ~(i = 0 \/ v = NULL)
  <2> SUFFICES ASSUME i = 0 \/ v = NULL PROVE FALSE
    OBVIOUS
  <2>1. PICK n : n = mem'
    OBVIOUS
  <2>2. n = Touch(AddReference(mem, v), NULL)
    BY <1>3, <1>4, <1>5, <2>1 DEF Assign
  <2>3. v = NULL \/ Live(mem, v)
    BY <1>1, <1>3, GotReadable DEF Readable, IsValue
  <2>4. n.fault # "none"
    BY <1>2, <2>2, <2>3, NullFault
  <2> QED
    BY <1>2, <2>1, <2>4
<1>7. /\ mem' = RemoveReference(held, variables.insts[i].val)
      /\ variables' = [variables EXCEPT !.insts[i].val = v]
  BY <1>3, <1>4, <1>5, <1>6 DEF Assign
<1>8. Return(v)
  BY <1>3, <1>4, <1>5, <1>6 DEF Assign
<1>9. PICK vs \in Seq(VariableInstance) : vs = variables.insts
  BY <1>1 DEF TypeOK, VariableScope
<1>10. i \in DOMAIN vs
  BY <1>5, <1>6, <1>9, GetSees
<1>11. PICK ws : ws = variables'.insts
  OBVIOUS
<1>12. ws = [vs EXCEPT ![i].val = v]
  BY <1>1, <1>7, <1>9, <1>11 DEF TypeOK, VariableScope
<1>13. PICK old : old = vs[i].val
  OBVIOUS
<1>14. /\ DOMAIN ws = DOMAIN vs /\ ws[i].val = v
       /\ \A j \in DOMAIN vs : j # i => ws[j] = vs[j]
  <2>1. vs[i] \in VariableInstance
    BY <1>9, <1>10
  <2> QED
    BY <1>10, <1>12, <2>1 DEF VariableInstance
<1>15. /\ Values(variables.insts) \subseteq Values(variables'.insts) \cup {old}
       /\ v \in Values(variables'.insts)
  BY <1>9, <1>10, <1>11, <1>13, <1>14 DEF Values
<1>16. Account(mem, Ledger \cup {}, {})
  BY <1>1, Opened, Ledger \cup {} = Ledger
<1>17. Account(held, Ledger \cup {}, {})
  BY <1>4, <1>16, AccountAdd
<1>18. PICK n : n = mem'
  OBVIOUS
<1>19. n = RemoveReference(held, old)
  BY <1>7, <1>9, <1>13, <1>18
<1>20. Account(n, Ledger \cup {}, {old})
  BY <1>17, <1>19, AccountRemove
<1>21. Mine(Top) \cup {} \subseteq {v, NULL} \cup {old} \cup Values(variables'.insts)
  BY <1>2, <1>3
<1> QED
  BY <1>1, <1>8, <1>15, <1>18, <1>20, <1>21, AnswerFair

\* A call hands what it holds to the function.
LEMMA HandedFair ==
    ASSUME NEW quiet, Fairly(quiet), Running, Top.pc # "drop", NEW f, NEW g, Handed(f, g),
           stack' = Append(SetTop(f), g), g.node.kind = "func", g.i = 0,
           f.node.kind = "call", UNCHANGED <<variables, mem>>
    PROVE  Accounted'
<1>1. TypeOK /\ TypeOK' /\ Kept' /\ stack # <<>> /\ Waiters /\ Account(mem, Ledger, {})
  BY Opened DEF Fairly, Calmly
<1>2. PICK n \in Nat : n = Len(stack) /\ n >= 1
  BY <1>1, FrameAt
<1>3. /\ DOMAIN stack' = 1 .. n + 1 /\ Len(stack') = n + 1 /\ stack'[n + 1] = g
      /\ \A j \in 1 .. n : stack'[j] = IF j = n THEN f ELSE stack[j]
  BY <1>1, <1>2, PushShape
<1>4. Mine(g) = Mine(Top)
  BY DEF Handed, Mine, Held
<1>5. Mine(Top) \subseteq Grip'
  <2>1. n + 1 \in DOMAIN stack' /\ Mine(stack'[n + 1]) = Mine(Top)
    BY <1>2, <1>3, <1>4
  <2> QED
    BY <2>1, GripNext
<1>6. Resting \subseteq Grip'
  <2>1. \A j \in 1 .. n - 1 : j \in DOMAIN stack' /\ stack'[j] = stack[j]
    BY <1>2, <1>3
  <2>2. \A j \in 1 .. n - 1 : Mine(stack[j]) \subseteq Grip'
    BY <2>1, GripNext
  <2> QED
    BY <1>2, <2>2 DEF Resting
<1>7. \A a \in Ledger : a = NULL \/ a \in {} \/ a \in Grip'
  BY <1>5, <1>6, GripValues DEF Ledger
<1>8. Account(mem', Ledger, {})
  BY <1>1
<1>9. Covers(mem', Grip') /\ Tidy(mem')
  BY <1>1, <1>7, <1>8, Settle
<1>10. Orderly(f) /\ Orderly(g)
  BY DEF Handed, Orderly, InAt
<1>11. \A j \in 1 .. n + 1 : j = n + 1 \/ j = n \/ j \in 1 .. n - 1
  BY <1>2
<1>12. \A j \in DOMAIN stack' : Orderly(stack'[j])
  BY <1>1, <1>2, <1>3, <1>10, <1>11 DEF Waiters
<1>13. Top' = g
  BY <1>2, <1>3 DEF Top
<1>14. Bound(Top, variables.insts)'
  BY <1>13 DEF Bound
<1> QED
  BY <1>9, <1>12, <1>14 DEF Accounted

LEMMA EnterFair ==
    ASSUME NEW quiet, Fairly(quiet), CallEnter
    PROVE  Accounted'
<1>1. /\ Running /\ UNCHANGED variables /\ Top.pc = "arguments" /\ Top.node.kind = "call"
      /\ Calmly(quiet)
  BY DEF CallEnter, At_, Fairly
<1>2. mem \in Memory /\ mem.fault = "none" /\ mem'.fault = "none" /\ Top \in Frame /\ TypeOK
  BY <1>1, CalmFacts DEF Calmly, Fairly
<1>3. Callee # 0
  <2> SUFFICES ASSUME Callee = 0 PROVE FALSE
    OBVIOUS
  <2>1. mem' = Touch(mem, NULL)
    BY DEF CallEnter
  <2>2. mem'.fault = "null_dereference"
    BY <1>2, <2>1, AddrAssumption DEF Touch, Raise, Live, Memory
  <2> QED
    BY <1>2, <2>2
<1>4. PICK e : e = functions.insts[Callee].val
  OBVIOUS
<1>5. PICK f : f = [Top EXCEPT !.pc = "await", !.got = <<>>, !.blk = NULL]
  OBVIOUS
<1>6. PICK b : stack' = Append(SetTop(f), [NewFrame(e, <<>>, b) EXCEPT !.got = Top.got,
                                                                     !.blk = Top.blk])
  BY <1>3, <1>4, <1>5 DEF CallEnter
<1>7. UNCHANGED mem
  BY <1>3 DEF CallEnter
<1>8. PICK g : g = [NewFrame(e, <<>>, b) EXCEPT !.got = Top.got, !.blk = Top.blk]
  OBVIOUS
<1>9. stack' = Append(SetTop(f), g)
  BY <1>6, <1>8
<1>10. g.node = e /\ g.pc = "start" /\ g.got = Top.got /\ g.blk = Top.blk /\ g.i = 0
  BY <1>8 DEF NewFrame
<1>11. f.got = <<>> /\ f.blk = NULL /\ f.pc = "await" /\ f.node.kind = "call"
  BY <1>1, <1>2, <1>5 DEF Frame
<1>12. e.kind = "func"
  <2>1. Callee \in DOMAIN functions.insts
    BY <1>3, GetType DEF Callee
  <2>2. functions.insts \in Seq(FunctionInstance)
    BY <1>2 DEF TypeOK
  <2>3. functions.insts[Callee] \in FunctionInstance
    BY <2>1, <2>2
  <2> QED
    BY <1>4, <2>3 DEF FunctionInstance
<1>13. Handed(f, g)
  BY <1>10, <1>11 DEF Handed
<1> QED
  BY <1>1, <1>7, <1>9, <1>10, <1>11, <1>12, <1>13, HandedFair

(***************************************************************************)
(* The driver, and every step.                                             *)
(***************************************************************************)
LEMMA NeatNow ==
    ASSUME Kept, mem \in Memory, Tidy(mem)
    PROVE  Neat(mem)
<1>1. PICK S, V : Owned(mem, S, V)
  BY DEF Kept, Store
<1>2. \A a \in Addr : Live(mem, a) /\ mem.cells[a].buf # NULL => IsRaw(mem, mem.cells[a].buf)
  BY <1>1 DEF Owned
<1>3. \A a : Live(mem, a) => a # NULL
  BY AddrAssumption DEF Live
<1> QED
  BY <1>2, <1>3 DEF Neat, IsRaw

\* Nothing runs, and nothing changes hands.
LEMMA StillFair ==
    ASSUME Accounted, stack = <<>>, phase # "run", UNCHANGED <<variables, stack, mem>>
    PROVE  Accounted'
<1>1. Grip \subseteq Grip'
  BY DEF Grip, HeldByFrames, Values
<1>2. Covers(mem, Grip')
  BY <1>1 DEF Accounted, Covers
<1>3. DOMAIN stack' = {} /\ stack' = <<>>
  OBVIOUS
<1> QED
  BY <1>2, <1>3 DEF Accounted

LEMMA DriverFair ==
    ASSUME NEW quiet, Calmly(quiet), Accounted, Kept', mem'.fault = "none", ErrorSeen, Idle, Driver
    PROVE  Accounted'
<1>1. mem \in Memory /\ mem.fault = "none" /\ ~failed /\ ~failed' /\ TypeOK' /\ Kept
  BY DEF Calmly, TypeOK, Steady, Sane
<1>2. CASE Register
  <2>1. stack = <<>> /\ UNCHANGED <<stack, variables>> /\ phase # "run"
    BY <1>2 DEF Register, ErrorSeen
  <2>2. CASE mem' = Touch(mem, NULL)
    <3>1. mem'.fault = "null_dereference"
      BY <1>1, <2>2, AddrAssumption DEF Touch, Raise, Live, Memory
    <3> QED
      BY <3>1
  <2>3. CASE UNCHANGED mem
    BY <2>1, <2>3, StillFair
  <2> QED
    BY <1>2, <2>2, <2>3 DEF Register
<1>3. CASE Registered
  BY <1>3, StillFair DEF Registered, ErrorSeen
<1>4. CASE EntryPoint
  <2>1. stack = <<>> /\ UNCHANGED <<variables, mem>> /\ phase = "entry"
    BY <1>4 DEF EntryPoint, ErrorSeen
  <2>2. PICK e, b : stack' = <<NewFrame(e, <<>>, b)>>
    BY <1>1, <1>4 DEF EntryPoint
  <2>3. PICK g : g = NewFrame(e, <<>>, b)
    OBVIOUS
  <2>4. g.got = <<>> /\ g.blk = NULL /\ g.pc = "start" /\ g.i = 0
    BY <2>3 DEF NewFrame
  <2>5. DOMAIN stack' = {1} /\ stack'[1] = g /\ Top' = g
    BY <2>2, <2>3 DEF Top
  <2>6. Grip \subseteq Grip'
    <3>1. DOMAIN stack = {}
      BY <2>1
    <3>2. Grip = Values(variables.insts)
      BY <2>1, <3>1 DEF Grip, HeldByFrames
    <3> QED
      BY <2>1, <3>2 DEF Grip, Values
  <2>7. Covers(mem, Grip')
    BY <2>6 DEF Accounted, Covers
  <2>8. Orderly(g)
    BY <2>4 DEF Orderly, InAt
  <2>9. Bound(Top, variables.insts)'
    BY <2>4, <2>5 DEF Bound
  <2> QED
    BY <2>1, <2>5, <2>7, <2>8, <2>9 DEF Accounted
<1>5. CASE EntryReturned
  <2>1. /\ stack = <<>> /\ phase = "run" /\ UNCHANGED <<variables, stack>>
        /\ mem' = InstanceDestroy(mem, result)
    BY <1>1, <1>5 DEF EntryReturned
  <2>2. Account(mem, Grip, {})
    BY <1>1, NeatNow DEF Accounted, Account, Spent
  <2>3. PICK D : D = {} \cup {result}
    OBVIOUS
  <2>4. PICK n : n = mem'
    OBVIOUS
  <2>5. Account(n, Grip, {} \cup {result})
    BY <2>1, <2>2, <2>4, AccountGone
  <2>6. Account(mem', Grip, D)
    BY <2>3, <2>4, <2>5
  <2>7. DOMAIN stack = {} /\ DOMAIN stack' = {} /\ stack' = <<>>
    BY <2>1
  <2>8. Grip \subseteq Values(variables.insts) \cup {result}
    BY <2>7 DEF Grip, HeldByFrames
  <2>9. \A a \in Grip : a = NULL \/ a \in D \/ a \in Grip'
    <3>1. Values(variables'.insts) = Values(variables.insts)
      BY <2>1
    <3> QED
      BY <2>3, <2>8, <3>1, GripValues
  <2>10. Covers(mem', Grip') /\ Tidy(mem')
    BY <1>1, <2>6, <2>9, Settle
  <2> QED
    BY <2>7, <2>10 DEF Accounted
<1>6. CASE ScopeDestroy
  <2>1. phase = "destroy" /\ stack = <<>> /\ UNCHANGED <<stack, variables>>
    BY <1>6 DEF ScopeDestroy, Idle
  <2>2. DOMAIN variables.insts = {}
    <3>1. DOMAIN stack = {}
      BY <2>1
    <3> QED
      BY <3>1 DEF Calmly, Core, Layered
  <2>3. Len(variables.insts) = 0 /\ next \in Nat \ {0}
    <3>1. PICK vs \in Seq(VariableInstance) : vs = variables.insts
      BY DEF Calmly, TypeOK
    <3>2. 1 \notin DOMAIN vs /\ DOMAIN vs = 1 .. Len(vs) /\ Len(vs) \in Nat
      BY <2>2, <3>1
    <3>3. Len(vs) = 0
      BY <3>2
    <3> QED
      BY <3>1, <3>3 DEF Calmly, TypeOK
  <2>4. UNCHANGED mem
    BY <1>6, <2>3 DEF ScopeDestroy
  <2> QED
    BY <2>1, <2>4, StillFair
<1> QED
  BY <1>2, <1>3, <1>4, <1>5, <1>6 DEF Driver

LEMMA ExpressionFair ==
    ASSUME NEW quiet, Fairly(quiet), Expression
    PROVE  Accounted'
<1>0. Calmly(quiet)
  BY DEF Fairly
<1>1. CASE Literal \/ StringBlock \/ StringValue \/ Variable
  BY <1>1, LiteralFair, ArrayFair, StringFair, VariableFair
<1>2. CASE UnaryStart \/ UnaryNew
  BY <1>2, BeginFair, UnaryNewFair
<1>3. CASE LeftOperand \/ RightOperand \/ Binary \/ ArrayElement
  BY <1>3, BeginFair, ContinueFair, PairFair
<1>4. CASE UnaryFailed \/ UnaryFollow \/ ReferenceValue \/ ReferenceSlot \/ UnaryOther
           \/ OperandFailed
  BY <1>0, <1>4, NotPlain
<1> QED
  BY <1>1, <1>2, <1>3, <1>4 DEF Expression

LEMMA CallFair ==
    ASSUME NEW quiet, Fairly(quiet), Call
    PROVE  Accounted'
<1>0. Calmly(quiet)
  BY DEF Fairly
<1>1. CASE CallStart \/ CallArgument \/ CallEnter \/ CallReturn
  BY <1>1, ArrayFair, ContinueFair, EnterFair, AnswersFair
<1>2. CASE BindPrint \/ BindDrop \/ BindReturn
  BY <1>2, BindPrintFair, BindDropFair, BindReturnFair
<1>3. CASE FunctionArgument \/ FunctionBody \/ FunctionLeave \/ RootDestroy \/ FunctionReturn
  BY <1>3, ArgumentFair, FunctionBodyFair, ContinueFair, RootFair, AnswersFair
<1>4. CASE CallFailed \/ FunctionOutOfMemory
  BY <1>0, <1>4, NotPlain
<1> QED
  BY <1>1, <1>2, <1>3, <1>4 DEF Call

LEMMA StatementFair ==
    ASSUME NEW quiet, Fairly(quiet), Statement
    PROVE  Accounted'
<1>0. Calmly(quiet)
  BY DEF Fairly
<1>1. CASE BodyStatement \/ BodyResult \/ BodyEnd \/ IfStart \/ IfCondition \/ IfReturn
  BY <1>1, BeginFair, ConditionFair, AnswersFair
<1>2. CASE ForInit \/ ForVariable \/ ForTest \/ ForCondition \/ ForStep
  BY <1>2, BeginFair, DeclaredFair, ConditionFair
<1>3. CASE ForBody \/ ForIterated \/ ForEnd
  BY <1>3, ConditionFair, AnswersFair
<1>4. CASE StatementValue \/ Declare \/ Assign \/ ReturnValue \/ ReturnAfterBody
  BY <1>4, BeginFair, DeclaredFair, AssignFair, AnswersFair, ReturnBodyFair
<1>5. CASE ForFailed \/ StatementFailed \/ AssignTarget \/ AssignThrough
  BY <1>0, <1>5, NotPlain
<1> QED
  BY <1>1, <1>2, <1>3, <1>4, <1>5 DEF Statement

LEMMA RunStays ==
    ASSUME Expression \/ Call \/ Statement
    PROVE  phase' = "run"
<1>1. CASE Expression
  BY <1>1 DEF driver, Running, At_, Expression, Literal, StringBlock, StringValue,
     Variable, UnaryStart, UnaryFailed, UnaryNew, UnaryFollow, ReferenceValue, UnaryOther,
     LeftOperand, RightOperand, OperandFailed, Binary, ArrayElement, ReferenceSlot
<1>2. CASE Call
  BY <1>2 DEF driver, Running, At_, Call, CallStart, CallArgument, CallFailed,
     CallEnter, CallReturn, BindPrint, BindDrop, BindReturn, FunctionArgument, FunctionBody,
     FunctionLeave, RootDestroy, FunctionReturn, FunctionOutOfMemory
<1>3. CASE Statement
  BY <1>3 DEF driver, Running, At_, Statement, BodyStatement, BodyResult, BodyEnd,
     IfStart, IfCondition, IfReturn, ForInit, ForFailed, ForVariable, ForTest, ForCondition,
     ForStep, ForBody, ForIterated, ForEnd, StatementValue, StatementFailed, Declare,
     Assign, AssignTarget, AssignThrough, ReturnValue, ReturnAfterBody
<1> QED
  BY <1>1, <1>2, <1>3

LEMMA NextFair ==
    ASSUME NEW quiet, Calmly(quiet), Accounted, Terminated, Kept', mem'.fault = "none",
           ErrorSeen, Idle, [Next]_vars
    PROVE  Accounted'
<1>1. CASE Expression \/ Call \/ Statement
  <2>1. Fairly(quiet)
    BY <1>1, RunStays DEF Fairly
  <2> QED
    BY <1>1, <2>1, ExpressionFair, CallFair, StatementFair
<1>2. CASE Driver
  BY <1>2, DriverFair
<1>3. CASE UNCHANGED vars
  <2>1. UNCHANGED <<phase, stack, variables, mem, result>>
    BY <1>3 DEF vars
  <2>2. Grip' = Grip
    BY <2>1 DEF Grip, HeldByFrames
  <2>3. stack' # <<>> => Top' = Top
    BY <2>1 DEF Top
  <2> QED
    BY <2>1, <2>2, <2>3 DEF Accounted
<1> QED
  BY <1>1, <1>2, <1>3 DEF Next, Stopped

(***************************************************************************)
(* The theorems.                                                           *)
(***************************************************************************)
LEMMA InitAccounted ==
    ASSUME Init
    PROVE  Accounted
<1>1. stack = <<>> /\ DOMAIN stack = {} /\ mem = EmptyMemory
  BY DEF Init
<1>2. \A a : ~Live(mem, a)
  BY <1>1 DEF EmptyMemory, Live, FreeCell, NewCell
<1> QED
  BY <1>1, <1>2 DEF Accounted, Covers, Tidy

LEMMA LostStep ==
    ASSUME TypeOK, TypeOK', ErrorSeen, NEW quiet, Plain(quiet), Terminated, Memorised(quiet),
           Remembered', NothingLost, [Next]_vars
    PROVE  NothingLost'
<1> SUFFICES ASSUME Steady'
             PROVE  Accounted'
  BY DEF NothingLost
<1>1. ~failed' /\ failures' = 0 /\ mem'.fault = "none"
  BY DEF Steady, Sane
<1>2. ~failed /\ failures = 0
  <2>1. failures \in Nat
    BY FailuresAssumption DEF TypeOK
  <2> QED
    BY <1>1, <2>1, StaysFailed, CountsUp
<1>3. mem.fault = "none"
  <2> SUFFICES ASSUME mem.fault # "none" PROVE FALSE
    OBVIOUS
  <2>1. UNCHANGED vars
    BY StaysFaulty
  <2> QED
    BY <1>1, <2>1 DEF vars
<1>4. Steady
  BY <1>2, <1>3 DEF Steady, Sane
<1>5. Kept /\ Core(quiet) /\ Kept' /\ Accounted
  BY <1>4 DEF Memorised, Remembered, Scoped, Core, Steady, NothingLost
<1>6. Calmly(quiet)
  BY <1>1, <1>4, <1>5 DEF Calmly
<1> QED
  BY <1>1, <1>5, <1>6, NextFair DEF Memorised

\* While no allocation fails, a plain program's blocks are all on somebody's
\* account: the variables', the frames' or the driver's.
THEOREM NothingLostCorrect ==
    ASSUME NEW quiet, Plain(quiet), Terminated
    PROVE  Spec => []NothingLost
<1>1. Init => NothingLost
  BY InitAccounted DEF NothingLost
<1>2. TypeOK /\ TypeOK' /\ ErrorSeen /\ Memorised(quiet) /\ Memorised(quiet)' /\ NothingLost
        /\ [Next]_vars => NothingLost'
  <2> SUFFICES ASSUME TypeOK, TypeOK', ErrorSeen, Memorised(quiet), Memorised(quiet)', NothingLost,
                      [Next]_vars
               PROVE  NothingLost'
    OBVIOUS
  <2>1. Remembered'
    BY DEF Memorised
  <2> QED
    BY <2>1, LostStep
<1> QED
  BY <1>1, <1>2, MemoryKept, ErrorsSeen, PTL DEF Spec

\* Whoever is on the account reaches the block.
LEMMA AccountedReaches ==
    ASSUME TypeOK, Accounted, Idle, NEW quiet, Core(quiet)
    PROVE  NoLeak
<1>1. Grip \subseteq Roots
  <2>1. CASE phase \in {"destroy", "done"}
    <3>1. stack = <<>>
      BY <2>1 DEF Idle
    <3>2. DOMAIN stack = {}
      BY <3>1
    <3>3. DOMAIN variables.insts = {}
      BY <3>2 DEF Core, Layered
    <3> QED
      BY <3>3 DEF Grip, Roots, Values
  <2>2. CASE phase \notin {"destroy", "done"}
    BY <2>2 DEF Grip, Roots, Values
  <2> QED
    BY <2>1, <2>2
<1>2. SUFFICES ASSUME NEW a \in Addr, Live(mem, a)
               PROVE  a \in Reachable
  BY DEF NoLeak
<1>3. CASE a \in Grip
  BY <1>1, <1>3 DEF Reachable
<1>4. CASE \E b \in Grip : Live(mem, b) /\ mem.cells[b].buf = a
  <2>1. PICK b \in Roots \cap Addr : Live(mem, b) /\ mem.cells[b].buf = a
    BY <1>1, <1>4 DEF Live
  <2>2. mem.cells[b].buf # NULL
    BY <2>1, AddrAssumption
  <2>3. mem.cells[b].type = "array" /\ mem.cells[b].cap > 0
    BY <2>1, <2>2 DEF Accounted, Tidy
  <2> QED
    BY <2>1, <2>3 DEF Reachable, Owns
<1> QED
  BY <1>2, <1>3, <1>4 DEF Accounted, Covers

\* No block of a plain program is lost while no allocation fails: each value is
\* destroyed by its consumer or kept by a variable, and the end of a root gives
\* back what its variables had; torn down, nothing is left.
THEOREM NoLeakCorrect ==
    ASSUME NEW quiet, Plain(quiet), Terminated
    PROVE  Spec => [](failures = 0 => NoLeak)
<1>1. TypeOK /\ Memorised(quiet) /\ NothingLost => (failures = 0 => NoLeak)
  <2> SUFFICES ASSUME TypeOK, Memorised(quiet), NothingLost, failures = 0, Sane
               PROVE  NoLeak
    BY DEF NoLeak, Sane
  <2>1. Steady
    BY DEF Steady
  <2> QED
    BY <2>1, AccountedReaches DEF NothingLost, Memorised, Scoped, Core, Steady
<1> QED
  BY <1>1, MemoryKept, NothingLostCorrect, PTL
=============================================================================
