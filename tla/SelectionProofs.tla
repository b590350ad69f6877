--------------------------- MODULE SelectionProofs ---------------------------
(***************************************************************************)
(* What Selected selects.  A recursive function is a function that         *)
(* satisfies its equation only if there is one: its first values exist     *)
(* (StartsExist) and agree (StartsAgree), by induction.  The induction is  *)
(* about the members of a set (Induction), since the provers cannot        *)
(* instantiate the theorems of the library that take an operator.          *)
(***************************************************************************)
EXTENDS Selection, WellFoundedInduction, NaturalsInduction, TLAPS

(***************************************************************************)
(* Sequences of whatever.                                                  *)
(***************************************************************************)
IsSeq(s) == \E T : s \in Seq(T)

LEMMA SeqFacts ==
    ASSUME NEW s, IsSeq(s)
    PROVE  Len(s) \in Nat /\ DOMAIN s = 1 .. Len(s)
BY DEF IsSeq

LEMMA EmptySeq == IsSeq(<<>>) /\ Len(<<>>) = 0 /\ DOMAIN <<>> = {}
<1>1. <<>> \in Seq({})
  OBVIOUS
<1> QED
  BY <1>1 DEF IsSeq

LEMMA AppendSeq ==
    ASSUME NEW s, IsSeq(s), NEW e
    PROVE  /\ IsSeq(Append(s, e))
           /\ Len(Append(s, e)) = Len(s) + 1
           /\ DOMAIN Append(s, e) = 1 .. Len(s) + 1
           /\ \A i \in DOMAIN s : Append(s, e)[i] = s[i]
           /\ Append(s, e)[Len(s) + 1] = e
<1>1. PICK T : s \in Seq(T)
  BY DEF IsSeq
<1>2. s \in Seq(T \cup {e})
  BY <1>1
<1>3. Append(s, e) \in Seq(T \cup {e})
  BY <1>2
<1> QED
  BY <1>2, <1>3 DEF IsSeq

LEMMA PrefixSeq ==
    ASSUME NEW s, IsSeq(s), NEW n \in 0 .. Len(s)
    PROVE  /\ IsSeq(SubSeq(s, 1, n))
           /\ Len(SubSeq(s, 1, n)) = n
           /\ DOMAIN SubSeq(s, 1, n) = 1 .. n
           /\ \A i \in 1 .. n : SubSeq(s, 1, n)[i] = s[i]
<1>1. PICK T : s \in Seq(T)
  BY DEF IsSeq
<1>2. SubSeq(s, 1, n) \in Seq(T)
  BY <1>1
<1> QED
  BY <1>1, <1>2 DEF IsSeq

\* A stack is its top on the rest.
LEMMA TopOnRest ==
    ASSUME NEW os, IsSeq(os), Len(os) > 0
    PROVE  /\ IsSeq(SubSeq(os, 1, Len(os) - 1))
           /\ os = Append(SubSeq(os, 1, Len(os) - 1), os[Len(os)])
<1>1. PICK T : os \in Seq(T)
  BY DEF IsSeq
<1>2. SubSeq(os, 1, Len(os) - 1) \in Seq(T) /\ os[Len(os)] \in T
  BY <1>1
<1>3. os = Append(SubSeq(os, 1, Len(os) - 1), os[Len(os)])
  BY <1>1, <1>2
<1> QED
  BY <1>2, <1>3 DEF IsSeq

LEMMA SameSequence ==
    ASSUME NEW T, NEW s \in Seq(T), NEW t \in Seq(T), Len(s) = Len(t),
           \A i \in 1 .. Len(s) : s[i] = t[i]
    PROVE  s = t
OBVIOUS

LEMMA ChangedSequence ==
    ASSUME NEW T, NEW s \in Seq(T), NEW i \in 1 .. Len(s), NEW e \in T
    PROVE  /\ [s EXCEPT ![i] = e] \in Seq(T)
           /\ Len([s EXCEPT ![i] = e]) = Len(s)
           /\ \A j \in 1 .. Len(s) : [s EXCEPT ![i] = e][j] = IF j = i THEN e ELSE s[j]
OBVIOUS

LEMMA PrefixOfAppend ==
    ASSUME NEW s, IsSeq(s), NEW e
    PROVE  SubSeq(Append(s, e), 1, Len(Append(s, e)) - 1) = s /\ Append(s, e) # <<>>
<1>1. PICK T : s \in Seq(T)
  BY DEF IsSeq
<1>2. s \in Seq(T \cup {e})
  BY <1>1
<1> QED
  BY <1>2

(***************************************************************************)
(* Induction on the natural numbers, for the members of a set.             *)
(***************************************************************************)
LEMMA LeastNumber ==
    ASSUME NEW S \in SUBSET Nat, S # {}
    PROVE  \E x \in S : \A y \in S : x <= y
<1>1. PICK x \in S : \A y \in S : ~(<<y, x>> \in OpToRel(<, Nat))
  BY NatLessThanWellFounded, WFMin
<1>2. \A y \in S : ~(y < x)
  BY <1>1 DEF OpToRel
<1> QED
  BY <1>2

LEMMA Induction ==
    ASSUME NEW S, 0 \in S, \A n \in Nat : n \in S => n + 1 \in S
    PROVE  Nat \subseteq S
<1> SUFFICES ASSUME NEW m \in Nat, m \notin S PROVE FALSE
  OBVIOUS
<1>0. Nat \ S \in SUBSET Nat /\ Nat \ S # {}
  OBVIOUS
<1>1. PICK x \in Nat \ S : \A y \in Nat \ S : x <= y
  BY <1>0, LeastNumber
<1>2. x # 0 /\ x - 1 \in Nat
  OBVIOUS
<1>3. x - 1 \in S
  BY <1>1, <1>2
<1> QED
  BY <1>1, <1>2, <1>3

(***************************************************************************)
(* The recursive function: there is one, so it is what it says.            *)
(***************************************************************************)
OneMore(g, K, s, n) == IF n \in K THEN Append(s, g[n]) ELSE s
ValuesOf(g, K) == {g[i] : i \in K}

\* The first values of the function.
Starts(g, K, f, m) == /\ f \in [0 .. m -> Seq(ValuesOf(g, K))] /\ f[0] = <<>>
                      /\ \A n \in 1 .. m : f[n] = OneMore(g, K, f[n - 1], n)

LEMMA OneMoreSeq ==
    ASSUME NEW g, NEW K, NEW s \in Seq(ValuesOf(g, K)), NEW n
    PROVE  OneMore(g, K, s, n) \in Seq(ValuesOf(g, K))
BY DEF OneMore, ValuesOf

LEMMA StartsExist ==
    ASSUME NEW g, NEW K
    PROVE  \A m \in Nat : \E f : Starts(g, K, f, m)
<1> DEFINE S == {m \in Nat : \E f : Starts(g, K, f, m)}
<1>1. 0 \in S
  <2> DEFINE f == [i \in 0 .. 0 |-> <<>>]
  <2>1. <<>> \in Seq(ValuesOf(g, K)) /\ 0 \in 0 .. 0 /\ \A n \in 1 .. 0 : FALSE
    OBVIOUS
  <2>2. Starts(g, K, f, 0)
    BY <2>1 DEF Starts
  <2> QED
    BY <2>2
<1>2. ASSUME NEW m \in Nat, m \in S PROVE m + 1 \in S
  <2>1. PICK f : Starts(g, K, f, m)
    BY <1>2
  <2> DEFINE h == [i \in 0 .. m + 1 |-> IF i = m + 1 THEN OneMore(g, K, f[m], m + 1) ELSE f[i]]
  <2>2. f[m] \in Seq(ValuesOf(g, K)) /\ OneMore(g, K, f[m], m + 1) \in Seq(ValuesOf(g, K))
    BY <2>1, OneMoreSeq DEF Starts
  <2>3. h \in [0 .. m + 1 -> Seq(ValuesOf(g, K))]
    <3>1. \A i \in 0 .. m + 1 : i # m + 1 => i \in 0 .. m
      OBVIOUS
    <3> QED
      BY <2>1, <2>2, <3>1 DEF Starts
  <2>4. h[0] = <<>>
    BY <2>1 DEF Starts
  <2>5. ASSUME NEW n \in 1 .. m + 1 PROVE h[n] = OneMore(g, K, h[n - 1], n)
    <3>1. n \in 0 .. m + 1 /\ n - 1 \in 0 .. m + 1 /\ n - 1 # m + 1
      OBVIOUS
    <3>2. h[n - 1] = f[n - 1]
      BY <3>1
    <3>3. CASE n = m + 1
      BY <3>1, <3>2, <3>3
    <3>4. CASE n # m + 1
      <4>1. n \in 1 .. m /\ h[n] = f[n]
        BY <3>1, <3>4
      <4> QED
        BY <2>1, <3>2, <4>1 DEF Starts
    <3> QED
      BY <3>3, <3>4
  <2>6. Starts(g, K, h, m + 1)
    BY <2>3, <2>4, <2>5 DEF Starts
  <2> QED
    BY <2>6
<1> HIDE DEF S
<1>3. Nat \subseteq S
  BY <1>1, <1>2, Induction
<1> QED
  BY <1>3 DEF S

LEMMA StartsAgree ==
    ASSUME NEW g, NEW K, NEW f, NEW h, NEW m \in Nat, NEW l \in Nat,
           Starts(g, K, f, m), Starts(g, K, h, l)
    PROVE  \A i \in Nat : i <= m /\ i <= l => f[i] = h[i]
<1> DEFINE S == {i \in Nat : i <= m /\ i <= l => f[i] = h[i]}
<1>1. 0 \in S
  BY DEF Starts
<1>2. ASSUME NEW i \in Nat, i \in S PROVE i + 1 \in S
  <2> SUFFICES ASSUME i + 1 <= m, i + 1 <= l PROVE f[i + 1] = h[i + 1]
    OBVIOUS
  <2>1. i + 1 \in 1 .. m /\ i + 1 \in 1 .. l /\ (i + 1) - 1 = i /\ f[i] = h[i]
    BY <1>2
  <2> QED
    BY <2>1 DEF Starts
<1> HIDE DEF S
<1>3. Nat \subseteq S
  BY <1>1, <1>2, Induction
<1> QED
  BY <1>3 DEF S

\* The recursive function that Selected(g, K) is.
Unfolds(g, K, f) == f = [n \in Nat |-> IF n = 0 THEN <<>>
                                       ELSE IF n \in K THEN Append(f[n - 1], g[n])
                                       ELSE f[n - 1]]

LEMMA SelectedUnfolds == ASSUME NEW g, NEW K PROVE Unfolds(g, K, Selected(g, K))
<1> DEFINE G(m) == CHOOSE f : Starts(g, K, f, m)
           f == [n \in Nat |-> G(n)[n]]
<1>1. \A m \in Nat : Starts(g, K, G(m), m)
  BY StartsExist
<1> HIDE DEF G
<1>2. f[0] = <<>>
  BY <1>1 DEF Starts
<1>3. ASSUME NEW n \in Nat, n # 0 PROVE f[n] = OneMore(g, K, f[n - 1], n)
  <2>1. n - 1 \in Nat /\ n \in 1 .. n /\ n - 1 <= n
    BY <1>3
  <2>2. G(n)[n] = OneMore(g, K, G(n)[n - 1], n)
    BY <1>1, <2>1 DEF Starts
  <2>3. G(n)[n - 1] = G(n - 1)[n - 1]
    BY <1>1, <2>1, StartsAgree
  <2> QED
    BY <2>1, <2>2, <2>3
<1>4. \A n \in Nat : f[n] = IF n = 0 THEN <<>>
                             ELSE IF n \in K THEN Append(f[n - 1], g[n]) ELSE f[n - 1]
  BY <1>2, <1>3 DEF OneMore
<1>5. f = [n \in Nat |-> f[n]]
  OBVIOUS
<1> HIDE DEF f
<1>6. Unfolds(g, K, f)
  BY <1>4, <1>5 DEF Unfolds
<1>7. Selected(g, K) = CHOOSE e : Unfolds(g, K, e)
  BY DEF Selected, Unfolds
<1> QED
  BY <1>6, <1>7

\* What is selected up to 0.
LEMMA SelectedZero == ASSUME NEW g, NEW K PROVE Selected(g, K)[0] = <<>>
<1> DEFINE L == Selected(g, K)
<1>1. Unfolds(g, K, L)
  BY SelectedUnfolds
<1> HIDE DEF L
<1>2. L[0] = <<>>
  BY <1>1 DEF Unfolds
<1> QED
  BY <1>2 DEF L

\* What is selected up to the next number.
LEMMA SelectedNext ==
    ASSUME NEW g, NEW K, NEW n \in Nat
    PROVE  Selected(g, K)[n + 1] = IF n + 1 \in K THEN Append(Selected(g, K)[n], g[n + 1])
                                   ELSE Selected(g, K)[n]
<1> DEFINE L == Selected(g, K)
<1>1. Unfolds(g, K, L)
  BY SelectedUnfolds
<1> HIDE DEF L
<1>2. ASSUME NEW m \in Nat, m # 0
      PROVE  L[m] = IF m \in K THEN Append(L[m - 1], g[m]) ELSE L[m - 1]
  BY <1>1, <1>2 DEF Unfolds
<1>3. n + 1 \in Nat /\ n + 1 # 0 /\ (n + 1) - 1 = n
  OBVIOUS
<1>4. L[n + 1] = IF n + 1 \in K THEN Append(L[n], g[n + 1]) ELSE L[n]
  BY <1>2, <1>3
<1> QED
  BY <1>4 DEF L

\* What is selected is a sequence of the selected values.
LEMMA SelectedSeq ==
    ASSUME NEW g, NEW K, NEW n \in Nat
    PROVE  Selected(g, K)[n] \in Seq(ValuesOf(g, K))
<1> DEFINE L == Selected(g, K)
           S == {m \in Nat : L[m] \in Seq(ValuesOf(g, K))}
<1>1. L[0] = <<>>
  BY SelectedZero
<1>2. ASSUME NEW m \in Nat
      PROVE  L[m + 1] = IF m + 1 \in K THEN Append(L[m], g[m + 1]) ELSE L[m]
  BY SelectedNext
<1> HIDE DEF L
<1>3. 0 \in S
  <2>1. L[0] \in Seq(ValuesOf(g, K))
    BY <1>1
  <2> QED
    BY <2>1
<1>4. ASSUME NEW m \in Nat, m \in S PROVE m + 1 \in S
  <2>1. PICK s \in Seq(ValuesOf(g, K)) : s = L[m]
    BY <1>4
  <2>2. L[m + 1] = OneMore(g, K, s, m + 1)
    BY <1>2, <2>1 DEF OneMore
  <2>3. L[m + 1] \in Seq(ValuesOf(g, K))
    BY <2>2, OneMoreSeq
  <2> QED
    BY <2>3
<1> HIDE DEF S
<1>5. Nat \subseteq S
  BY <1>3, <1>4, Induction
<1> QED
  BY <1>5 DEF S, L

\* What is selected up to n depends on the numbers up to n only.
Alike(g, K, h, M, n) == \A i \in 1 .. n : (i \in K <=> i \in M) /\ (i \in K => g[i] = h[i])

LEMMA SelectedSame ==
    ASSUME NEW g, NEW K, NEW h, NEW M, NEW n \in Nat, Alike(g, K, h, M, n)
    PROVE  Selected(g, K)[n] = Selected(h, M)[n]
<1> DEFINE L == Selected(g, K)
           N == Selected(h, M)
<1>1. L[0] = <<>> /\ N[0] = <<>>
  BY SelectedZero
<1>2. ASSUME NEW m \in Nat
      PROVE  /\ L[m + 1] = IF m + 1 \in K THEN Append(L[m], g[m + 1]) ELSE L[m]
             /\ N[m + 1] = IF m + 1 \in M THEN Append(N[m], h[m + 1]) ELSE N[m]
  <2>1. L[m + 1] = IF m + 1 \in K THEN Append(L[m], g[m + 1]) ELSE L[m]
    BY SelectedNext
  <2>2. N[m + 1] = IF m + 1 \in M THEN Append(N[m], h[m + 1]) ELSE N[m]
    BY SelectedNext
  <2> QED
    BY <2>1, <2>2
<1> HIDE DEF L, N
<1> DEFINE S == {m \in Nat : m <= n => L[m] = N[m]}
<1>3. 0 \in S
  BY <1>1
<1>4. ASSUME NEW m \in Nat, m \in S PROVE m + 1 \in S
  <2> SUFFICES ASSUME m + 1 <= n PROVE L[m + 1] = N[m + 1]
    OBVIOUS
  <2>1. m + 1 \in 1 .. n /\ L[m] = N[m]
    BY <1>4
  <2>2. (m + 1 \in K <=> m + 1 \in M) /\ (m + 1 \in K => g[m + 1] = h[m + 1])
    BY <2>1 DEF Alike
  <2> QED
    BY <1>2, <2>1, <2>2
<1> HIDE DEF S
<1>5. Nat \subseteq S
  BY <1>3, <1>4, Induction
<1> QED
  BY <1>5 DEF S, L, N

\* Nothing is selected between m and n.
NoneBetween(K, m, n) == \A i \in m + 1 .. n : i \notin K

LEMMA SelectedNoMore ==
    ASSUME NEW g, NEW K, NEW m \in Nat, NEW n \in Nat, m <= n, NoneBetween(K, m, n)
    PROVE  Selected(g, K)[n] = Selected(g, K)[m]
<1> DEFINE L == Selected(g, K)
<1>1. ASSUME NEW i \in Nat
      PROVE  L[i + 1] = IF i + 1 \in K THEN Append(L[i], g[i + 1]) ELSE L[i]
  BY SelectedNext
<1> HIDE DEF L
<1> DEFINE S == {i \in Nat : m <= i /\ i <= n => L[i] = L[m]}
<1>2. 0 \in S
  OBVIOUS
<1>3. ASSUME NEW i \in Nat, i \in S PROVE i + 1 \in S
  <2> SUFFICES ASSUME m <= i + 1, i + 1 <= n PROVE L[i + 1] = L[m]
    OBVIOUS
  <2>1. CASE m = i + 1
    BY <2>1
  <2>2. CASE m <= i
    <3>1. i + 1 \in m + 1 .. n /\ L[i] = L[m]
      BY <1>3, <2>2
    <3>2. i + 1 \notin K
      BY <3>1 DEF NoneBetween
    <3> QED
      BY <1>1, <3>1, <3>2
  <2> QED
    BY <2>1, <2>2
<1> HIDE DEF S
<1>4. Nat \subseteq S
  BY <1>2, <1>3, Induction
<1> QED
  BY <1>4 DEF S, L

(***************************************************************************)
(* Where a number of K is: the place of its value.                         *)
(***************************************************************************)
Place(g, K, i) == Len(Selected(g, K)[i])

LEMMA SelectedIsSeq ==
    ASSUME NEW g, NEW K, NEW n \in Nat
    PROVE  IsSeq(Selected(g, K)[n]) /\ Place(g, K, n) \in Nat
<1>1. IsSeq(Selected(g, K)[n])
  BY SelectedSeq DEF IsSeq
<1> QED
  BY <1>1, SeqFacts DEF Place

LEMMA PlaceNext ==
    ASSUME NEW g, NEW K, NEW n \in Nat
    PROVE  Place(g, K, n + 1) = IF n + 1 \in K THEN Place(g, K, n) + 1 ELSE Place(g, K, n)
<1> DEFINE s == Selected(g, K)[n]
           t == Selected(g, K)[n + 1]
<1>1. t = IF n + 1 \in K THEN Append(s, g[n + 1]) ELSE s
  BY SelectedNext
<1>2. IsSeq(s)
  BY SelectedIsSeq
<1>3. Place(g, K, n) = Len(s) /\ Place(g, K, n + 1) = Len(t)
  BY DEF Place
<1> HIDE DEF s, t
<1> QED
  BY <1>1, <1>2, <1>3, AppendSeq

LEMMA PlaceZero == ASSUME NEW g, NEW K PROVE Place(g, K, 0) = 0
<1>1. Selected(g, K)[0] = <<>>
  BY SelectedZero
<1> QED
  BY <1>1, EmptySeq DEF Place

\* A place does not depend on the values.
LEMMA PlaceSame ==
    ASSUME NEW g, NEW h, NEW K, NEW n \in Nat
    PROVE  Place(h, K, n) = Place(g, K, n)
<1> DEFINE S == {m \in Nat : Place(h, K, m) = Place(g, K, m)}
<1>1. 0 \in S
  BY PlaceZero
<1>2. ASSUME NEW m \in Nat, m \in S PROVE m + 1 \in S
  <2>1. Place(g, K, m + 1) = IF m + 1 \in K THEN Place(g, K, m) + 1 ELSE Place(g, K, m)
    BY PlaceNext
  <2>2. Place(h, K, m + 1) = IF m + 1 \in K THEN Place(h, K, m) + 1 ELSE Place(h, K, m)
    BY PlaceNext
  <2> QED
    BY <1>2, <2>1, <2>2
<1> HIDE DEF S
<1>3. Nat \subseteq S
  BY <1>1, <1>2, Induction
<1> QED
  BY <1>3 DEF S

\* Places ascend, strictly from one number of K to the next.
LEMMA PlacesAscend ==
    ASSUME NEW g, NEW K, NEW m \in Nat, NEW n \in Nat, m < n
    PROVE  /\ Place(g, K, m) <= Place(g, K, n)
           /\ n \in K => Place(g, K, m) < Place(g, K, n)
<1> DEFINE P(i) == Place(g, K, i)
           S == {i \in Nat : m < i => P(m) <= P(i) /\ (i \in K => P(m) < P(i))}
<1>1. ASSUME NEW i \in Nat
      PROVE  P(i) \in Nat /\ P(i + 1) = IF i + 1 \in K THEN P(i) + 1 ELSE P(i)
  BY PlaceNext, SelectedIsSeq
<1> HIDE DEF P
<1>2. 0 \in S
  OBVIOUS
<1>3. ASSUME NEW i \in Nat, i \in S PROVE i + 1 \in S
  <2> SUFFICES ASSUME m < i + 1
               PROVE  P(m) <= P(i + 1) /\ (i + 1 \in K => P(m) < P(i + 1))
    OBVIOUS
  <2>1. P(m) <= P(i)
    <3>1. CASE m < i
      BY <1>3, <3>1
    <3>2. CASE m = i
      BY <1>1, <3>2
    <3> QED
      BY <3>1, <3>2
  <2> QED
    BY <1>1, <2>1
<1> HIDE DEF S
<1>4. Nat \subseteq S
  BY <1>2, <1>3, Induction
<1> QED
  BY <1>4 DEF S, P

\* The value of a number of K is at its place ...
LEMMA PlaceHolds ==
    ASSUME NEW g, NEW K, NEW n \in Nat, NEW i \in 1 .. n, i \in K
    PROVE  Place(g, K, i) \in 1 .. Place(g, K, n) /\ Selected(g, K)[n][Place(g, K, i)] = g[i]
<1> DEFINE P(j) == Place(g, K, j)
           L(j) == Selected(g, K)[j]
           S == {m \in Nat : i <= m => P(i) \in 1 .. P(m) /\ L(m)[P(i)] = g[i]}
<1>1. ASSUME NEW j \in Nat
      PROVE  /\ IsSeq(L(j)) /\ P(j) \in Nat /\ P(j) = Len(L(j))
             /\ P(j + 1) = IF j + 1 \in K THEN P(j) + 1 ELSE P(j)
             /\ L(j + 1) = IF j + 1 \in K THEN Append(L(j), g[j + 1]) ELSE L(j)
  <2>1. IsSeq(L(j)) /\ P(j) \in Nat
    BY SelectedIsSeq
  <2>2. P(j) = Len(L(j))
    BY DEF Place
  <2>3. P(j + 1) = IF j + 1 \in K THEN P(j) + 1 ELSE P(j)
    BY PlaceNext
  <2>4. L(j + 1) = IF j + 1 \in K THEN Append(L(j), g[j + 1]) ELSE L(j)
    BY SelectedNext
  <2> HIDE DEF P, L
  <2> QED
    BY <2>1, <2>2, <2>3, <2>4
<1> HIDE DEF P, L
<1>2. 0 \in S
  OBVIOUS
<1>3. ASSUME NEW m \in Nat, m \in S PROVE m + 1 \in S
  <2> SUFFICES ASSUME i <= m + 1
               PROVE  P(i) \in 1 .. P(m + 1) /\ L(m + 1)[P(i)] = g[i]
    OBVIOUS
  <2>0. IsSeq(L(m)) /\ P(m) = Len(L(m)) /\ P(m) \in Nat /\ DOMAIN L(m) = 1 .. P(m)
    BY <1>1, SeqFacts
  <2>1. CASE i <= m
    <3>1. P(i) \in 1 .. P(m) /\ L(m)[P(i)] = g[i]
      BY <1>3, <2>1
    <3>2. P(i) \in DOMAIN L(m)
      BY <2>0, <3>1
    <3>3. Append(L(m), g[m + 1])[P(i)] = L(m)[P(i)]
      BY <2>0, <3>2, AppendSeq
    <3>4. L(m + 1)[P(i)] = g[i]
      <4>1. L(m + 1) = Append(L(m), g[m + 1]) \/ L(m + 1) = L(m)
        BY <1>1
      <4> QED
        BY <3>1, <3>3, <4>1
    <3>5. P(m + 1) = P(m) \/ P(m + 1) = P(m) + 1
      BY <1>1
    <3>6. P(i) \in 1 .. P(m + 1)
      BY <2>0, <3>1, <3>5
    <3> QED
      BY <3>4, <3>6
  <2>2. CASE i = m + 1
    <3>1. P(i) = P(m) + 1 /\ L(m + 1) = Append(L(m), g[i])
      BY <1>1, <2>2
    <3>2. Append(L(m), g[i])[P(m) + 1] = g[i]
      BY <2>0, AppendSeq
    <3>3. P(i) \in 1 .. P(m + 1)
      BY <2>0, <2>2, <3>1
    <3> QED
      BY <3>1, <3>2, <3>3
  <2> QED
    BY <2>1, <2>2
<1> HIDE DEF S
<1>4. Nat \subseteq S
  BY <1>2, <1>3, Induction
<1>5. n \in S
  BY <1>4
<1> QED
  BY <1>5 DEF S, P, L

\* ... and every place is that of a number of K.
LEMMA PlaceOf ==
    ASSUME NEW g, NEW K, NEW n \in Nat, NEW p \in 1 .. Place(g, K, n)
    PROVE  \E i \in 1 .. n : i \in K /\ Place(g, K, i) = p
<1> DEFINE P(j) == Place(g, K, j)
           S == {m \in Nat : p <= P(m) => \E i \in 1 .. m : i \in K /\ P(i) = p}
<1>1. ASSUME NEW j \in Nat
      PROVE  P(j) \in Nat /\ P(j + 1) = IF j + 1 \in K THEN P(j) + 1 ELSE P(j)
  BY PlaceNext, SelectedIsSeq
<1>2. P(0) = 0 /\ p \in 1 .. P(n)
  BY PlaceZero
<1> HIDE DEF P
<1>3. 0 \in S
  BY <1>1, <1>2
<1>4. ASSUME NEW m \in Nat, m \in S PROVE m + 1 \in S
  <2> SUFFICES ASSUME p <= P(m + 1)
               PROVE  \E i \in 1 .. m + 1 : i \in K /\ P(i) = p
    OBVIOUS
  <2>1. CASE p <= P(m)
    BY <1>4, <2>1
  <2>2. CASE ~(p <= P(m))
    <3>1. m + 1 \in K /\ P(m + 1) = p
      BY <1>1, <1>2, <2>2
    <3> QED
      BY <3>1
  <2> QED
    BY <2>1, <2>2
<1> HIDE DEF S
<1>5. Nat \subseteq S
  BY <1>3, <1>4, Induction
<1>6. n \in S
  BY <1>5
<1> QED
  BY <1>1, <1>2, <1>6 DEF S, P

\* Two functions that differ at one number only.
OtherAt(g, K, h, n, i) == \A j \in 1 .. n : j \in K /\ j # i => h[j] = g[j]

\* One value changes, at its place.
ReplacedAt(s, p, e) == [s EXCEPT ![p] = e]

LEMMA SelectedChanged ==
    ASSUME NEW g, NEW K, NEW h, NEW n \in Nat, NEW i \in 1 .. n, i \in K, OtherAt(g, K, h, n, i)
    PROVE  Selected(h, K)[n] = ReplacedAt(Selected(g, K)[n], Place(g, K, i), h[i])
<1> DEFINE s == Selected(g, K)[n]
           t == Selected(h, K)[n]
           p == Place(g, K, i)
           T == ValuesOf(g, K) \cup ValuesOf(h, K)
           u == [s EXCEPT ![p] = h[i]]
<1>1. s \in Seq(T) /\ t \in Seq(T)
  <2>1. s \in Seq(ValuesOf(g, K)) /\ t \in Seq(ValuesOf(h, K))
    BY SelectedSeq
  <2> HIDE DEF s, t
  <2> QED
    BY <2>1
<1>2. Len(s) = Place(g, K, n) /\ Len(t) = Len(s)
  BY PlaceSame DEF Place
<1>3. p \in 1 .. Len(s) /\ h[i] \in T
  BY <1>2, PlaceHolds DEF ValuesOf
<1>4. u \in Seq(T) /\ Len(u) = Len(s) /\ \A j \in 1 .. Len(s) : u[j] = IF j = p THEN h[i] ELSE s[j]
  <2> HIDE DEF s, p, T
  <2> QED
    BY <1>1, <1>3, ChangedSequence
<1>5. ASSUME NEW q \in 1 .. Len(s) PROVE t[q] = u[q]
  <2>1. PICK j \in 1 .. n : j \in K /\ Place(g, K, j) = q
    BY <1>2, PlaceOf
  <2>2. Place(h, K, j) = q
    BY <2>1, PlaceSame
  <2>3. t[q] = h[j] /\ s[q] = g[j]
    BY <2>1, <2>2, PlaceHolds
  <2>4. CASE j = i
    BY <1>4, <2>1, <2>3, <2>4
  <2>5. CASE j # i
    <3>1. q # p
      <4>1. CASE j < i
        BY <2>1, <4>1, PlacesAscend, SelectedIsSeq
      <4>2. CASE i < j
        BY <2>1, <4>2, PlacesAscend, SelectedIsSeq
      <4> QED
        BY <2>5, <4>1, <4>2
    <3>2. h[j] = g[j]
      BY <2>1, <2>5 DEF OtherAt
    <3> HIDE DEF s, t, p, u
    <3> QED
      BY <1>4, <2>3, <3>1, <3>2
  <2> QED
    BY <2>4, <2>5
<1> HIDE DEF s, t, p, T, u
<1>6. t = u
  BY <1>1, <1>2, <1>4, <1>5, SameSequence
<1> QED
  BY <1>6 DEF s, t, p, u, ReplacedAt

\* Nothing is selected above n.
LEMMA SelectedPrefix ==
    ASSUME NEW g, NEW K, NEW h, NEW M, NEW n \in Nat, NEW m \in Nat, n <= m,
           Alike(h, M, g, K, n), NoneBetween(M, n, m)
    PROVE  Selected(h, M)[m] = Selected(g, K)[n]
<1>1. Selected(h, M)[m] = Selected(h, M)[n]
  BY SelectedNoMore
<1>2. Selected(h, M)[n] = Selected(g, K)[n]
  BY SelectedSame
<1> QED
  BY <1>1, <1>2
=============================================================================
